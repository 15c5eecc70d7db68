# TLA+ models of WALinuxAgent

This directory holds TLA+ models of the Azure Linux guest agent (WALinuxAgent) in `src/`. TLC checks them. Each module is translated from the code. `PROJECT.json` records:
- which lines each definition stands for (`map`);
- the runs and what each one shows;
- the mutants that each passing property must catch;
- the findings;
- the hazards of the code.

## The system and its parts

`spec.md` describes the agent's update-and-supervision control loop. The parts are:
- **ControlLoop** (`UpdateHandler.run`): goal-state polling with rate-limited error reporting.
- **VersionResolver**: the self-update and RSM (Remote-Service-Managed) policies.
- **AgentInventory**: installed versions and the blacklist.
- **PackageInstaller**.
- **ProcessSupervisor**: runs the child agent, throttles restarts and detects orphaning.
- **Background worker threads**: monitor, environment, telemetry collector, telemetry sender and log collector.

Most of that core (`ga/update.py`, `ga/agent_update_handler.py`) is **not** in `src/`. What `src/` holds is:

| file | what it is |
|---|---|
| `azurelinuxagent/ga/collect_telemetry_events.py` | the telemetry-collector worker thread |
| `azurelinuxagent/agent.py` | the command-line entry point: `parse_args`, `main`, the `Agent` commands, and `collect_logs` with its cgroup-validation retry |
| `azurelinuxagent/common/utils/textutil.py` | pure text algorithms: `set_ssh_config`, `set_ini_config`, `swap_hexstring`, `unpack`, ... |
| `azurelinuxagent/common/osutil/factory.py` | the distro to OSUtil dispatch |
| `tests/`, `tests_e2e/` | unit and end-to-end tests, mostly of the update handler |

### Telemetry collector: parts and interactions

`CollectTelemetryEventsHandler.daemon` is one thread. It runs two periodic operations in turn until `stop()` clears `should_run`.

**`_CollectAndEnqueueEvents`** handles the agent's own events directory:
1. It lists the directory.
2. For each file, it reads the file, retrying up to `NUM_OF_EVENT_FILE_RETRIES` while the file is missing or does not parse.
3. It enqueues the event on the sender.
4. It removes the file in a `finally` clause.

**`_ProcessExtensionEvents`** handles the extension telemetry pipeline. It runs only when that feature is supported.
1. It lists the handlers that have an `events` directory.
2. For each handler, it lists the files newest first, reads them with the same retry loop, and enqueues their events up to `_MAX_NUMBER_OF_EVENTS_PER_EXTENSION_PER_PERIOD`. It removes every file in `finally`.
3. In the `finally` clause of `_operation`, it empties every listed directory of residue. It skips this cleanup when the sender refused an event (`ServiceStoppedError`).

The collector runs concurrently with three kinds of actor:
- **Writers.** The agent's `add_event` writes atomically. An extension writes its file in place, so the collector may read it half written.
- **Extension install and uninstall.** These create or remove an events directory.
- **The telemetry sender** (`SendTelemetryEventsHandler`, not in `src/`). It drains a bounded queue, may be stopped, and raises `ServiceStoppedError` from `enqueue_event` when it is stopped or its queue stays full.

## Modules

### `TelemetryCollector.tla`: the collector thread and the processes it races with

**Data abstractions.**
- A file is a number from `FileId`. The model keeps only how many events it holds (`size`) and whether it is still being written (`partial`).
- Event content, validation, redaction and legacy-event rewriting are left out. They decide what an event says, not which files are enqueued or removed.
- The sender is a counter `queueLen` bounded by `QueueCapacity`, plus a `senderRunning` flag.

**Collector state.** The collector's position in its loop is the variable `pc`, with this per-iteration state:

| variable | meaning |
|---|---|
| `todo` | files listed by `process_events`, not yet handled |
| `cur`, `readErrors` | the file being retried, and the `error_count` of the retry loop |
| `handlers`, `hIdx` | the handler directories in `os.listdir` order, and the current one |
| `files` | the handler's files, newest first |
| `captured` | `captured_extension_events_count` |
| `removeFailures` | how many calls of `os.remove` failed so far (the fault model below) |

**Actions.** Each code step is one action:

| action | code |
|---|---|
| `StartCollectAndEnqueue` | `_CollectAndEnqueueEvents._operation` and the listing |
| `ProcessAgentEventFile` | one iteration of `process_events`: retry, drop after retries, enqueue, or refused |
| `FinishCollectAndEnqueue` | end of `process_events` |
| `StartProcessExtensionEvents` | `_operation` and `_get_extension_events_dir_with_handler_name`; the order is any permutation, as `os.listdir` gives no order |
| `ListHandlerEventFiles` | the listing and sort of `_capture_extension_events`; a vanished directory ends the capture |
| `ProcessExtensionEventFile` | one file of `_capture_extension_events` with `_enqueue_events_and_get_count`, in five cases: retry; drop after retries; file gone (ends the capture); refusal (`ServiceStoppedError` re-raised, run ends without cleanup); enqueue up to the quota. `QuotaTake` is the inner loop: it checks the count only after an enqueue, so a file read at the quota still enqueues one event. The enqueues of a file and the `os.remove` of its `finally` are one step: no other step of the collector runs between them, and the sender's draining in between would only give the queue more room, which the model lets the sender do before the step. A successful read, a refusal and a drop end the `_read_event_file` call, so `readErrors` (its local `error_count`) returns to 0. |
| `NextHandler` | the next iteration of the handler loop of `_operation` |
| `CleanupEventDirectories` | `_ensure_all_events_directories_empty`, including its `return` on a missing directory |
| `StopCollector` | `CollectTelemetryEventsHandler.stop` |
| `WriteEventFile`, `FinishWrite`, `RemoveHandlerDir`, `CreateHandlerDir`, `SendEvent`, `StopSender` | the environment |

`MCTelemetryCollector.tla` gives the model values: two handlers `h1`, `h2` and the agent directory `agentEvents`.

**Bounds.**

| constant | value | why it is enough |
|---|---|---|
| `MaxFiles` | 3 | a refusal after a first file of the same run, and files in two directories |
| `MaxEventsPerFile` | 2 | with a `MaxEventsPerPeriod` of 2, a file can straddle the quota and be partly enqueued |
| `NumOfEventFileRetries` | 2 | both a successful retry and an exhausted one |
| `QueueCapacity` | 2 | both a full-queue refusal and a partial enqueue |
| `MaxDirChanges` | 1 | one uninstall or install per behaviour, enough for the directory races |
| `MaxRemoveFailures` | 0 | failed removals are checked in the liveness and `collector_stopped_masked` runs |

Init chooses which handler directories exist, so both installation and uninstallation occur.

**Fairness.** The daemon loop revisits both periodic operations on every iteration, for as long as it runs and the sender runs. A periodic operation whose guard keeps becoming true therefore runs infinitely often: this is strong fairness on `StartCollectAndEnqueue` and `StartProcessExtensionEvents`. The other fairness conditions are:
- weak fairness on the collector's internal steps (`CollectorStep`), which are straight-line code;
- weak fairness on `SendEvent`, since the sender thread drains its queue;
- weak fairness on `FinishWrite`, since a writer finishes its file.

The environment actions have no fairness: writes, uninstalls and stops may never happen.

**Fault model: `os.remove` fails.** A removal can fail (permissions, a busy file) at most `MaxRemoveFailures` times per behaviour, a bounded fault counter. `RemoveFails` is the failed call: the file stays. Where the code calls it decides what follows:
- In `process_events` (`TryRemove`), the error reaches the loop's generic handler and the next file is handled. The file is read again next period.
- In `_capture_extension_events` (`EtpRemoveFails`), the error leaves the `finally` clause. It replaces any `ServiceStoppedError` in flight, as Python does with an exception raised in `finally`. `_operation` takes its generic handler, and its `finally` runs the cleanup.
- In the cleanup, each file that fails to go stays, and the loop goes on.

**History variables.** `stopLoss` counts the agent files removed after a refusal in the current `process_events`. `listed` is the set of files the current `_ProcessExtensionEvents` run listed. `refused` is the file whose enqueue was refused in that run, if any. Neither changes what the collector does; the properties read them.

**Deadlock.** Deadlock is not checked. Once the sender or the collector is stopped and the writers are done, nothing is enabled. In the code this is the agent shutting down, where the loop legitimately stops.

### `EventFiles.tla`: what collection promises, and the refinement

`EventFiles` is the abstract specification of event collection, with no collector position, no listings and no retries. Its state is:
- `stored`: the files of each directory;
- `held`: the event count of each file;
- `queued`: the send handler's queue;
- `accepting`: whether the send handler takes events;
- `failures`: how many removals failed, bounded by `MaxFailures`.

Its steps are:
- `Write`: a new file appears.
- `Consume`: a file is removed, and in the same step at most as many events as it holds join the queue, only while the sender accepts and has room.
- `Deliver`: a failed removal. The file stays, and at most as many events as it holds join the queue anyway. This is the duplicate a failed removal costs: the file is read again later.
- `Discard`: files are removed unsent (residue cleanup, uninstall), possibly with failed removals.
- `Send` and `Stop`.

`TelemetryCollector` instantiates it as `EF` with the refinement mapping `stored <- disk`, `held <- size`, `queued <- queueLen`, `accepting <- senderRunning`, `failures <- removeFailures`. `ImplementsEventFiles == EF!Spec` is checked as a temporal property. Every step of both operations, of the writers and of the sender is then a step of `EventFiles`, or a stutter of it. The property breaks when any of these happens:
- an enqueue without the removal of its file;
- a removal that enqueues more events than the file holds;
- an enqueue after `stop()`.

The full safety bounds make this check too slow, so it runs in the liveness configuration: one handler, `MaxFiles` = 2, a queue of 1, and one failed removal.

### `TextUtil.tla`: the text algorithms of `textutil.py`

These are pure functions, so they are modelled as operators: `set_ssh_config`, `set_ini_config`, `unpack`, `unpack_little_endian` and `unpack_big_endian`, `int_to_ip4_addr`, `hex_dump2` and `hex_dump3`, `hex_dump` (with `is_printable`, `is_in_range` and `str_to_ord`), `hexstr_to_bytearray`, `swap_hexstring`, `remove_bom`, `replace_non_ascii`, `is_str_none_or_whitespace` and `redact_sas_token`. A small driver state machine lets TLC call each one on every bounded input. It records `call`, `arg`, `result` and whether the call `raised`. Each property compares the result with a reference definition written independently of the code.

**Data abstractions.**
- An sshd_config line is a record (`OptionLine`, or `MatchLine` for `Match` and `Match all`) over one setting name, one other key and two values.
- An ini line is a name/value pair.
- A byte string is a sequence over `MCBytes`. That set includes the byte order mark bytes 239, 187 and 191, plus 128 and 32.
- A hex string is a sequence of digits. `NonHex` stands for a non-hex character.
- A `hex_dump` line is a record of its offset, its hex digits and its ASCII column (ordinals, `.` for what is not printable). The blanks between them are left out. `HexDumpStep` is one pass of the code's loop over `i`, folded over `0..size-1`.
- A message given to `redact_sas_token` is a sequence of tokens: `"https://"`, the characters `?`, `=`, `&` and a blank, the query keys, and words standing for runs of other non-space characters. `"SIG"` is the value of a `sig` parameter.

**`redact_sas_token`.** This is `SAS_TOKEN_RE.sub(r'\1<redacted>', msg)` with the regex `(https://\S+\?)((sv|st|se|sr|sp|sip|spr|sig)=\S+)+`. `sas_sub` scans the message the way `re.sub` does:
- The first position where the pattern matches is the leftmost `https://` with a fitting `?` after it, in the same non-space run (`SasQuestionMarks`).
- Group 1's greedy `\S+` backtracks from the end of the run, so the match uses the last fitting `?`.
- The parameters' greedy `\S+` runs to the end of the non-space run (`SasMatchEnd`).
- The match is replaced by group 1 and `<redacted>`, and the scan goes on after it.

`MCSasMessages` holds every message of up to five pieces, and `None`. A piece is one of: a URL start, `?`, `&`, a blank, a SAS parameter (`sv=v`), the signature (`sig=SIG`), or another parameter (`comp=v`).

**Bounds.** `MaxLines` and `MaxBytes` are 4. That is enough for:
- a conditional `Match` block followed by `Match all`;
- two assignments of the same ini name;
- a 4-byte `unpack`;
- two byte groups in `swap_hexstring`.

`hex_dump` gets its own buffers (`MCDumpBuffers`). These are every buffer of up to 9 bytes, printable (65) or not (0), plus buffers of 15, 16 and 17 bytes, so a dump ends just before, at and after the end of its first line. Single bytes on both sides of every bound of `is_printable`'s three ranges are added too. Each buffer is dumped with `size` -1, its length less one, and its length plus one (which raises `IndexError`).

One layout defect is outside the model, which does not keep the blanks. When the last line holds exactly 8 bytes, the padding loop adds the blank after the eighth byte a second time. That line's ASCII column then starts one position to the right of the others. `hex_dump` has no caller in the repository.

TLC integers are 32-bit. The `unpack` inputs (`UnpackBuffers`) therefore keep the first and last byte of a 4-byte buffer below 128, so the value fits in either byte order.

### `AgentCli.tla`: the command line and `collect_logs` (`agent.py`)

**State.** Each waagent process is a record in `procs`, holding:
- its argv;
- its parent;
- its position `pc`;
- the command and configuration path `parse_args` returned;
- its exit code;
- the state of the log collector's resource monitor;
- the slice-check `retries`;
- whether an archive was produced.

Two more variables describe the environment. `inSlice` says whether systemd has moved the log collector into its slice. `existing` is the set of configuration paths that exist now; it starts as `ExistingPaths`.

**Data abstractions.**
- An argument is a token, one per class of strings that a branch of `parse_args` matches.
- A configuration path is a sequence of `"c"` (a character of `[\w/.-_]`) and `"x"` (any other character). `Captured` is the regex's group: the longest accepted prefix.
- `parse_args` is a `FoldLeft` of `ParseStep` over the argv. It keeps the loop's `break` on an unknown argument and its `sys.exit(1)` on a missing file.

**Actions.**

| action | code |
|---|---|
| `ParseArgs` | `main` calling `parse_args` |
| `Dispatch` | `main`'s `if` chain. Version and help exit. `start()` spawns `-daemon -configuration-path:p`. `Agent.daemon()` spawns `-run-exthandlers` with `child_args` and runs on. collect-logs continues. Any command (or `Agent()`) may raise into the catch-all and exit 0; `Agent()` always raises when its configuration file is gone. `setup_firewall` may exit 1. `start()` runs outside `main`'s `try`, so a `Popen` that raises exits with 1. |
| `CollectLogsInit` | `initialize_telemetry`, then `is_enabled_monitor_cgroups_check()`, which decides whether the cgroup checks and the monitor run |
| `CreateCgroupApi` | `create_cgroup_api`, which may exit with `INVALID_CGROUPS_ERRCODE` |
| `ValidateCgroupSlice` | one iteration of `_validate_log_collector_cgroup_slice` |
| `ValidateCgroupSliceRaises` | `get_process_cgroup` raising something other than `CGroupsException` |
| `CheckControllers` | the missing-controller check |
| `CollectArchive` | the `try` block: success, or an exception before or after the monitor started, then `except`/`finally` |
| `ReportMetrics` | `stop()` and the metrics summary |
| `PlaceInSlice` | systemd moving the process into its slice, at any time or never |
| `RemoveConfFile` | the configuration file deleted at any time, between the parent's and the child's existence checks or before `Agent()` loads it (`ConfLoadable`) |

**Bounds.** `MCAgentCli` uses:
- every argv of at most two tokens, drawn from 15 token classes;
- a configuration path that exists, one that does not, and two that are cut by the regex;
- `MaxRetries` = 3.

The process chain is at most three deep, because only `start` and `daemon` spawn a process.

**Fairness.** Each process's own code is sequential, so every process gets weak fairness on its steps (`ProcStep`). systemd (`PlaceInSlice`) and non-`CGroupsException` failures get no fairness: the retry budget must end the loop without them.

**Deadlock.** Deadlock is not checked. The daemon and the extension handler run forever (`pc = "running"`), outside what is modelled.

### `ExtensionEventParser.tla`: the extension event contract

This module models `_parse_event_and_ensure_it_is_valid`, with `_clean_value`, as operators.
- **Events.** An event is a function from the required fields it has to a value. A value is `None`, an int, or a string given by its length after `strip()` and `redact_sas_token`.
- **Outcomes.** Parsing gives `"valid"`, an `InvalidExtensionEventError` kind, or `"Exception"`. `"Exception"` stands for the `AttributeError` of `strip()` on an int, or the `TypeError` of `None`.
- **Order of the checks.** The module keeps the code's order: the dict comprehension, then the message checks, then the loop over `_EXTENSION_EVENT_REQUIRED_FIELDS` in `dir()` order, which is alphabetical.

`MCExtensionEventParser` keeps three of the eight fields, in their relative `dir()` order: `eventpid`, `message` and `version`. The limits are scaled from 6144 and 3072 to 3 and 2. It enumerates every event in which each field is absent, `None`, an int, or a string of 0 to 4 characters: 512 events.

### `OsUtilFactory.tla`: the OSUtil class dispatch (`osutil/factory.py`)

`get_osutil` is an `IF` chain in the code's order. The branches that depend on the version are their own operators: `ubuntu_osutil`, `suse_osutil`, `debian_osutil` and `redhat_osutil`. The names decided by name alone are the function `NameOnlyUtil`. A class is its name.

A distribution is a record of:
- the name;
- the code name;
- the version, as its numeric fragments (`"8.6"` is `<<8, 6>>`);
- the full name;
- whether the version string contains `sid`.

`VersionLess` compares versions fragment by fragment, and a proper prefix is smaller. This is how `DistroVersion` orders them. The driver picks an input (`Init`) and makes the one call (`GetOsutil`).

**Inputs.** `MCOsUtilFactory` uses every name the code tests, plus `gentoo`, which it does not. It adds both override code names and every full name it tests. The versions lie on both sides of each bound: 7, 7.0 and 7.11; 8.5 and 8.6; 12 and 13.2; 18.04 and 24.04 and the releases around them.

## Runs

| run | cfg | expect | what it shows |
|---|---|---|---|
| `collector_safety` | `MCTelemetryCollector.cfg` | pass | `PerPeriodQuota`: no run of `_ProcessExtensionEvents` enqueues more events of one handler than the quota. The inner loop alone does not guarantee it, since a file read at the quota still enqueues one event; the outer loop's check after each file is what keeps the count at the quota. |
| `collector_liveness` | `MCTelemetryCollectorLive.cfg` | pass | `EventFileEventuallyCollected`: while sender and collector run, every written file is eventually removed. This covers half-written files, exhausted retries, full queues, a failed `os.remove` and an uninstall racing the listing. `ImplementsEventFiles`: the collector refines `EventFiles`. The bounds are smaller: one handler and one failed removal. With one handler, the skip of later handlers after a vanished directory is not exercised here (two handlers take about three minutes per run). A duplicate after a failed removal is allowed by `EventFiles`, as by the code. |
| `collector_cleanup_unlisted` | `MCTelemetryCollectorUnlisted.cfg` | violation | `CleanupRemovesOnlyListedFiles` fails. An extension writes a file after its directory was listed, and the residue cleanup lists the directory again and deletes the file unread (finding). |
| `collector_agent_loss` | `MCTelemetryCollectorAgentLoss.cfg` | violation | `AgentLossOnRefusalBounded` fails: after the sender stops, `process_events` deletes every remaining agent file unenqueued (finding). |
| `collector_stopped_masked` | `MCTelemetryCollectorStopped.cfg` | violation | `StoppedServiceKeepsFiles` fails. The sender stops, an extension file's events are refused, and its `os.remove` in `finally` fails. The `OSError` replaces the `ServiceStoppedError`, and the cleanup deletes the unread files that the comment of `_operation` says must be kept (finding). |
| `textutil_reference` | `MCTextUtil.cfg` | pass | `SshGlobalSettingRewritten`, `IniLastAssignmentWins`, `UnpackByteOrder`, `HexDumpRoundTrip`, `SwapHexstringReversesGroups`, `HexDumpShowsBuffer` and `SasUrlQueryRedacted` hold over every bounded input. Each compares an operator translated from the code with a reference definition. |
| `textutil_sas_signature` | `MCTextUtilSasSignature.cfg` | violation | `SignatureRedacted` fails. In `https://h?&sig=SIG`, and in `https://h?comp=v&sig=SIG`, no `?` is directly followed by a SAS key, so nothing is redacted and the signature stays in the message. A `sig` value before a later `?` is kept as well (finding). |
| `textutil_ssh_match_all` | `MCTextUtilSshSetsGlobalValue.cfg` | violation | `set_ssh_config` inserts a new setting before the last line. When that line is `Match all` closing a conditional block, the setting ends up inside the block (finding). |
| `agent_cli` | `MCAgentCli.cfg` | pass | `ChildRunsParentConfiguration`: across the start, daemon and run-exthandlers processes, each child runs the command it was started for, with its parent's configuration file. The one alternative is exiting with 1 because the file was removed after the parent checked it. `UnexpectedPathOnlyAfterAllRetries`: collect-logs exits with `UNEXPECTED_CGROUP_PATH_ERRCODE` only after `MaxRetries` failed slice checks and while still outside the slice, so a move by systemd before the last check is never missed. `CollectLogsTerminates`: collect-logs always exits, even if systemd never moves it into its slice. |
| `agent_cli_exit_code` | `MCAgentCliExitCode.cfg` | violation | `CollectLogsExitCodeReflectsOutcome` fails: an exception caught by `main`'s catch-all makes collect-logs exit 0 without an archive (finding). |
| `event_size_limit` | `MCExtensionEventParser.cfg` | violation | `EventSizeBounded` fails: an event whose last field in `dir()` order (`version`) is long is accepted whatever its total size (finding). |
| `osutil_factory` | `MCOsUtilFactory.cfg` | pass | `FamilyPreserved`: no Red Hat, SUSE, Debian or Ubuntu name is shadowed by an earlier test or falls through to the default. `VersionMonotone`: for the same distribution, a later version never gets an older generation of class. |

Five defects were found while modelling but are not kept as runs, since a unit test reaches each directly:
- Debian `7.11` (a wheezy point release) compares above `DistroVersion("7")` and gets `DebianOSModernUtil`. `debian_osutil` models the bound.
- `_ensure_all_events_directories_empty` returns, instead of continuing, at the first listed directory that no longer exists, so the residue of the directories after it survives until the next period. The model keeps the `return`.
- `replace_non_ascii` keeps ordinal 128, because it tests `> 128`.
- `remove_bom` strips any three leading bytes above 128, not only `EF BB BF`.
- The `configuration-path` regex cuts a path at its first character outside `[\w/.-_]`.

All are listed as hazards.

Each passing property has a mutant in `PROJECT.json`, a plausible bug that TLC catches:

| property | mutant | the bug |
|---|---|---|
| `TypeOK` (collector) | `RetriesExhaustedLate` | one read retry more than `NUM_OF_EVENT_FILE_RETRIES` |
| `PerPeriodQuota` | `QuotaReachedLate` | the outer loop's quota check one event late (`>` for `>=`) |
| `EventFileEventuallyCollected` | `RemoveFileKept` | the `finally` removal dropped |
| `ImplementsEventFiles` | `CanAcceptWhenStopped` | `enqueue_event` not testing `stopped()` |
| `TypeOK` (TextUtil) | `hex_groups_any` | `swap_hexstring`'s findall also matching non-hex characters |
| `SshGlobalSettingRewritten` | `ssh_match_start_noall` | `Match all` not treated as the end of a Match block |
| `IniLastAssignmentWins` | `ini_name_index_first` | the first `name=` line replaced instead of the last |
| `UnpackByteOrder` | `unpack_little_endian_upwards` | the byte order of `unpack_little_endian` reversed |
| `HexDumpRoundTrip` | `hexstr_to_bytearray_unscaled` | the digit pair indexed as `c, c+1` instead of `2c-1, 2c` |
| `SwapHexstringReversesGroups` | `swap_pad_right` | padding added on the right |
| `HexDumpShowsBuffer` | `HexDumpStep_half` | the ASCII column starting at `i - i % 8` instead of `i - i % 16` |
| `SasUrlQueryRedacted` | `SasMatchEnd_amp` | a parameter's value matched as `[^&\s]+`, so the match ends at the first `&` |
| `TypeOK` (AgentCli) | `RetriesExhaustedLate` | one slice check more than the retry budget |
| `ChildRunsParentConfiguration` | `StartArgsNoConf` | `start()` not passing `-configuration-path` on |
| `UnexpectedPathOnlyAfterAllRetries` | `RetriesExhaustedEarly` | one slice check fewer than the retry budget |
| `CollectLogsTerminates` | `RetryCountAfterFailureStuck` | `retry_count` not incremented |
| `TypeOK` (OsUtilFactory) | `ubuntu_osutil_nodefault` | the Ubuntu branch falling off its end (`None`) |
| `FamilyPreserved` | `RedhatNamesNoRocky` | a name dropped from the Red Hat tuple |
| `VersionMonotone` | `redhat_osutil_swapped` | the classes of the two upper Red Hat ranges swapped |

## What is not modelled, and why

- **Update handler core** (`ga/update.py`, `agent_update_handler.py`): GoalState polling, VersionResolver, PackageInstaller, ProcessSupervisor and AgentInventory. These are not in `src/`. They are planned as modules written from `spec.md` and the unit tests (see the plan).
- **Event parsing inside the collector model.** `TelemetryCollector` does not parse events, and a file's events all count. The validation is modelled on its own in `ExtensionEventParser`. The mapping onto `TelemetryEvent` parameters and the legacy rewriting change what an event says, not which files are collected.
- **The file-size limit** (`_event_file_size_allowed`): a too-large file is skipped and removed. This is the same as the drop case.
- **`os.remove` failures beyond one or two**: the fault counter is bounded. One failure is enough for the duplicate and the masked `ServiceStoppedError`.
- **`agent.py` command bodies**: deprovision, register-service, show-configuration, FirewallManager and the update handler behind run-exthandlers are outside `agent.py`, or are single calls. They are modelled only by how they end: exit 0, exit 1, an exception, or running on. The log collector's monitor thread, which can kill the process at its limits, is in `ga/collect_logs.py` and is not in `src/`.
- **`textutil` helpers not listed above** (`parse_doc`, `findall`, `gen_password_hash`, compression, and similar): XML and string plumbing with no property beyond its own wording.
- **`DistroVersion` and the OSUtil classes** are not in `src/`. `DistroVersion` is modelled as the comparison of its numeric fragments (`VersionLess`). The classes are names.
- **Agent restarts.** Files are removed once their events are in the sender's in-memory queue, so a restart loses them (the Todo comment). The sender is not in `src/`, and the model has no restart.
- **The e2e test scripts** (`tests_e2e/`, including `update_arm_template_hook.py`): they drive a VM or edit an ARM template for LISA, and hold no state of the agent's own.

## Plan

In order of importance:

1. **Done.** The telemetry collector and its races, in `TelemetryCollector`.
2. **Goal-state polling.** The error counter with three immediate reports, a periodic timer and one "recovered" event, per spec §4.1 and `test_update.py`. Checked against an abstract reporting specification through a refinement mapping.
3. **VersionResolver and blacklist.** The forced first SelfUpdate, the RSM rules in order, and the retry budget, per §4.2, §8 and `test_agent_update_handler.py`. Property: never a version below the daemon version, never a blacklisted one.
4. **Process supervisor.** `run_latest`: a nonzero exit is non-fatal, an exception is fatal unless the supervisor is terminating, restart throttling, and orphan detection.
5. **Done.** The text algorithms, in `TextUtil`.
6. **Done.** The command line and `collect_logs`, in `AgentCli`, including a configuration file removed between the parent's and the daemon's existence checks.
7. **Done.** The OSUtil factory, in `OsUtilFactory`.
8. **Done.** The abstract `EventFiles` specification and the collector's refinement of it.
9. **Done.** `os.remove` failures, as a fault model of the collector, carried into the refinement as `Deliver`.
