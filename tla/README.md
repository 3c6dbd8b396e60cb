# TLA+ specification of gsr-helper

gsr-helper is a terminal program (Go, bubbletea) that operates the GitHub
Actions self-hosted runners of a host: it detects them, controls their systemd
services, edits their configuration, cleans their disks, shows their logs,
checks the host and adds, removes or updates runners. These modules specify the
control of that program. Paths below are relative to `src/internal` unless they
start with `src/`.

Contents: [how the program works](#how-the-program-works),
[inventory](#inventory), [modules](#modules), [runs](#runs),
[fairness](#fairness), [refinements](#refinements), [proofs](#proofs),
[disagreements](#disagreements), [assumptions](#assumptions-of-the-runs),
[plan](#plan), [not modelled](#not-modelled).

## How the program works

One event loop (`ui/app.go`) owns all screen state. A key or a message is
handled to the end before the next one. What takes time runs in a goroutine (a
`tea.Cmd`) that copied its input before it started; its result comes back as a
message, in any order with respect to other results. So nothing inside the loop
races, but everything across it does: a handler acts on the state of *now* with
a result of *then*. Modals add a second kind of delay: a dialog does not call
its page, it returns a command whose message travels to the page in two hops,
and the keys pressed meanwhile still reach the dialog.

Outside the program are systemd, the runner listeners with their jobs, the
files of the runners, GitHub and the user.

## Inventory

| Component | State | Operations | Talks to | What is hard | What makes it correct | Modules |
|---|---|---|---|---|---|---|
| Shared state and refresh (`ui/app.go`, `ui/discover.go`, `ui/discovery`, `ui/workscan`, `ui/hostreq`, `ui/ghscope`, `ui/startup`) | list of runners, sequence numbers, busy flags, usage, count of bad checks, scopes, configuration | tick, detect, take in a result, walk `_work`, start-up check, fetch scopes, distribute | goroutines; every tab (`StateMsg`); Doctor tab | detections of 15 s against ticks of 3 s, late and partial results, flags that must be cleared | single flight, list never older, every busy flag backed, one state in all tabs, refresh never stops | Refresh |
| Tab shell (`ui/keys.go`, `ui/tabset`, `ui/page/*.go`) | tab in front | route keys and messages, switch tabs, open a tab with an errand, quit | pages (Activate, Deactivate, Shutdown) | messages for a tab that is not in front, the first activation | pages told once; answers reach the page they are for | TabShell |
| Modal stack (`ui/page/overlay.go`) | stack of kinds | open, close one, route | page and modals | answers two hops late | closes the modal that asked | Overlay and its users |
| Runners tab and detail screen (`ui/page/runnerop`, `runners`, `runnerdetail`, `organism/table`) | table with cursor, marks, filter; pending operation, drain, note, report | choose, confirm, run, drain, step, cancel, report | `svc` in goroutines; modal stack | rows replaced under the cursor; results of a drain given up; overlapping operations | an operation is for the runners the user saw; drain consistent with screen and goroutine; no job lost that could be seen | RunnerTable, RunnerOp |
| Service control (`svc`) | none | CanControl, drain, start/stop/restart, enable, kill, daemon-reload | systemctl, kill, `/proc` | unlimited wait, 30 s limit of a command, requests that survive it | stops only after a scan without worker; ends when jobs end | Services, RunnerOp, ConfigTab |
| Jobs tab (`ui/page/jobs`, `logs/worker.go`) | a row for each worker, what was read of its log | search for the log, parse, retry | goroutines | logs that are written while they are read, answers for a job that is over | a row shows its own job | JobsTab |
| Config tab (`ui/page/config`, `configmodal`, `config/apply`) | target, form values, pending change, busy, own settings | pick, edit, approve, write, choose method, apply | `config/edit`, `config/apply` in goroutines | target and change read again after a job; answers twice | applies what was written, to whom it was written; backs up what was there | ConfigTab |
| Configuration files (`config/*`) | `.env`, `.path`, drop-ins, `.bak` | build a change, diff, back up, replace, copy to several | file system | crash between two steps; lines the form does not know | a file is whole at any time; an edit changes what was asked for | FileWrite, SafeFiles, ConfigText |
| Setup (`setup`, `ui/page/setup`, `setupmodal`) | plan, run, progress, token cache | plan, confirm, apply step by step, cancel | GitHub, tarball, `svc`, `config.sh` | failure at a step, token expiry, late progress, crash while unpacking | done prefix kept, one failed, rest untouched; no half file | SetupTab, SetupJob, Batch, StagedExtract |
| Disk (`disk`, `ui/page/disk`, `diskclean`) | usage rows, plan, progress | scan, plan, confirm, remove | file system, docker | scan older than removal | running jobs are spared, the report is true | DiskTab |
| Logs (`logs`, `ui/page/logs`) | subscription, lines, filter | list, subscribe, tail, journal, filter | fsnotify, journalctl | truncation, rotation, lines of a closed subscription | lines of one log, in order, to the end | LogTab |
| Discovery (`runner`) | none | find directories, units, processes; put together | file system, systemctl, `/proc` | copies, partial answers | every unit at the runner it belongs to | Discovery |
| Doctor (`doctor`, `ui/page/doctor`) | results, running, detail | run all, re-run one, report | discovery, refresh (count) | two sources of one row; what is read has changed | good means good; newest result shown | DoctorTab, JobReq, Discovery, Refresh |
| External commands and audit (`exec`, `audit`) | process groups, open file | run with limit, mask, record, reopen after rotation, close | processes, logrotate | limit, cancellation, rename between check and write | nothing left running, every run recorded, secrets masked | Executor, Mask |
| GitHub client (`gh`) | token | requests, paging | GitHub | expiry | a token is valid when used | SetupJob |
| Start (`appconfig`, `src/cmd`), widgets (`ui/atom` to `ui/token`) | views, settings | | | | | in part |

The hazards, each at its line, are in `PROJECT.json`; the properties of the runs
were chosen from that list.

## Modules

    Refresh                     the shared state and its refresh
    TabShell  = Overlay + the parent and the border of every page
    Services                    the host: units, jobs, systemd requests
    RunnerTable                 the list with cursor, marks and filter
    RunnerOp  = Services + Overlay + runnerop + svc
    ConfigTab = Services + Overlay + page/config + config/edit + config/apply
    JobsTab                     workers, their logs, the rows
    SetupTab  = SetupJob + Overlay + page/setup;  runs implement Batch
    DiskTab   = Overlay + page/disk + diskclean + disk
    LogTab                      page/logs + logs
    FileWrite                   config/edit + config/fileio;  implements SafeFiles
    StagedExtract, ConfigText, Mask, Discovery, JobReq
    Executor                    exec/command + audit
    DoctorTab = Overlay + page/doctor + the run of the checks

    Refresh_proofs              theorems about Refresh
    Tabs_proofs                               TabShell, RunnerTable, JobsTab, RunnerOp, Services
    ConfigTab_proofs                          ConfigTab, Services
    SetupTab_proofs                           SetupTab, SetupJob
    DiskTab_proofs                            DiskTab
    Files_proofs                              FileWrite, StagedExtract, ConfigText
    LogTab_proofs                             LogTab
    Host_proofs                               Executor, Mask, JobReq, Discovery, DoctorTab

    MCRefresh, MCSetupTab, MCDiskTab, LogTab itself     one module each
    MCTabs    TabShell, RunnerTable, RunnerOp, JobsTab or ConfigText
    MCLive    RunnerOp or ConfigTab, with fairness
    MCFiles   ConfigTab, FileWrite or StagedExtract
    MCHost    Executor, Mask, Discovery, JobReq or DoctorTab
    MCDoctorTab, MCConfigTab, MCJobsTab     for the disagreements

The instances that name several modules check them in turn: a variable `part`
says which one moves, and the variables of the others stay as they begin. The
module that is proved about is the module that is run: an instance EXTENDS it, and
its configuration gives the constants.
ConfigTab and RunnerOp act on the services through the same module Services, the
way `config/apply` and `runnerop` both call `svc`.

Names follow the source. An operator whose comment begins "A mistake", or that is
named after a mapped definition with a suffix (`MayScanOverlapping` beside
`MayScan`), is a deliberate mistake, one per property; each was checked to break
its property (`PROJECT.json`, "mutants"). No behaviour uses them.

### Refresh

| Code | Model |
|---|---|
| `discovery.State` (`result`, `err`, `applied`, `inflight`, `seq`) | `disc` |
| detection goroutine and its `discovery.Msg` | a record in `scans`, `stage` "run" then "sent" |
| `workscan.State`, walk | `work`, `walks` |
| `hostreq.State`; diagnoses of start-up and Doctor tab | `hreq`; `checks` (id 0 is the start-up check) |
| `ghscope.State` | `scopes` |
| `tea.Tick` booked | `ticks` |
| the last `StateMsg` of each tab | `snap` |

What a job reads is a generation of the host, at some moment between its start
and its end; `Populated` says in which generations there are runners. A failed
or partial detection is generation 0. `OnTick`, `ApplyScan`, `ApplyWalk`,
`RefreshKey`, `SelectTab` and the others are the handlers of `App.Update`, each
with everything it calls (`ApplyScan` includes `Reconcile`, `StartAll` and the
distribution).

### TabShell

`active` and `activated` are those of `App`. `page` has of each tab what its
border with the parent depends on: the modals, whether a filter is being typed,
whether a question is open, and `told`, how many activations it got that no
deactivation has answered. `KeyPressed` is `App.handleKey` with `handleKey` of the page
in front: a key stays in a filter or modal (`Confined`), is the page's own
(`OwnKey`) or is given back and comes to `GlobalKey` as a message. `Handles` is
`Overlay.Handles`; `OwnCases` are the messages for which `Update` of a page has a
case of its own. Every answer, end of work and errand is numbered (`sent`), and
`got` says which page it came to. `Distribute` stands for all handlers that
distribute the shared state; it includes `ActivateOnce` and, the first time, the
wizard of the Config tab, which asks the parent to bring it to the front. The tabs
are identified by their titles; those that have nothing of their own at this border
behave like the first one.

### Services

Systemd and the jobs are external; they are modelled from how `svc`, `procs` and
`exec/command` use them. `systemctl` hands a verb to systemd (`Submit`); systemd
carries it out later (`Perform`). The program waits up to 30 s for `systemctl`,
but the request stays when the process is killed. A job is numbered in the order
of beginning; `lost` keeps, of every job interrupted, who asked and the last job
begun when he last looked.

### RunnerTable

`tbl` is `table.Model`: rows of two sections, cursor, marks, filter. Each operator
takes a table and gives the next, as the code's methods do. A detection is any of
`Lists`, in the order of the detection; `asked` is what the last key handed on.

### RunnerOp

`pending`, `drain` (with `seq`, `index`), `note`, `report` are the fields of
`runnerop.Model`; `waits` the goroutines in `Drainer.Drain`, `runs` those in
`Model.run`, `msgs` the messages on their way. A wait goes through "scan", "wait",
"stop", "stopping"; its context is `live`. `shown` is the runner of the detail
screen, `seen` the last detection. `FastTyping` lets keys overtake the answer to
an earlier key.

### JobsTab

One runner whose workers start, write their log line by line and end. A line is
the kind of text `logs.ParseWorker` looks for; what is read of a log is known by the
rank of the line it was taken from (`RepoRank`, `WorkRank`, `Pick`). `parses` are
goroutines that look for the newest log and read it as it is then; `sought` and
`tries` are the fields that bound the retries. `info` is, for each worker, what the
map of the page remembers under the worker's start.

### ConfigTab

`target`, `pending`, `pendingSet`, `self`, `busy`, `form` are fields of
`config.Model` and `edit.Values`; `file`, `bak`, `daemon`, `loaded` say what is
on disk, in the `.bak`, read by systemd and used by the running listener.
`fetches`, `writes`, `applies` are goroutines, `writes` stepping through backup
and save of each runner, `applies` through reload, scan, stop, start or restart of
each. Contents are numbers (every change makes a new one; a copy has the content
of its source). `.path` is edited like `.env` and a runner group like the labels,
so `Kinds` has one of each. `Repeated` says for which answers another key may be
pressed before they arrive (at most two are on their way), `Leaves` whether the
user goes elsewhere while a job is in flight. `Nobody` is "no runner chosen". The
backup is one step of a write here; FileWrite has the steps inside.

### FileWrite, SafeFiles, ConfigText

FileWrite steps through `fileio`: read the old file, choose the owner, make a
temporary file, give it its owner, its contents and a sync, and rename it, first for
the `.bak`, then for the file. `live` is what the directory shows, `disk` the entries
the journal of the file system has, which follow at some time (`Journal`). A kill
stops the program at any step; a loss of power goes back to `disk`, with torn
contents where nothing was synced. SafeFiles says in 49 lines
what that promises. ConfigText is sequential: `.env` and drop-in as sequences of
lines with key, value and line end, the fields of a form filled from an earlier
state of the file, `Build` (`edit.BuildEnv`, `BuildDropIn`) and `config.Diff` with its
table and its limit (`TooLong`). The two kinds differ in what an edit keeps. Of `.env`
every line stays. A drop-in is parsed (`ParseDropIn`) and written anew behind a comment
and `[Service]` (`RenderDropIn`): comments, blank lines and other sections that somebody
wrote into it are lost, by design (`config/dropin/dropin.go:8-14`), and the diff, which
starts from the file as it is, shows them as removed. So `EditsOnlyAsked` is about
`Settings`: all lines of `.env`, the directives of `[Service]` in a drop-in. A comment is
a line without key (`NoKey`), its text a value; blanks around values and lines that begin
with `=` are left out. What it computes is written as recursive functions over
the number of lines, so that it can be proved about.

### SetupTab, SetupJob, Batch, StagedExtract

SetupJob has the plans (`PlanAdd`, `PlanRemove`, `PlanUpdate` as sequences of units
with steps), the goroutine of `job.Run` with its token cache, failure and
cancellation of every step, and the host: directories, services, registrations.
SetupTab has `setup.Model`: the modals, `plan`, `waiting`, `run`, `report`. A run is
over in two messages, the closed progress channel and the result, in either order.
`Selections` are rows checked in a table (`tbl.Checked`), so none has a runner twice.
StagedExtract is the inside of a step: fetch and check of the tarball, the stage,
links, and the names moved into place one by one, with a kill at any step. `tree` is
the directory; `was`, what it was at first, and `made`, what every complete stage had,
are a history that the properties speak of: an attempt that is killed while names are
moved leaves names of its stage behind, and the next attempt meets them.

### DiskTab

`rows`, `gen`, `scan`, `plan`, `clean` are those of `disk.Model`; `scans` are the
goroutines of a scan with the command that waits for their next result; `jobs` the
cleanings, each removing one target of its plan after the other. Whether a job protects
one of them is looked at again with the last detection when the yes is handled
(`Reprotected`); `saw` keeps what that detection showed. `asks` has the commands that
wait for their progress.

### LogTab

A log is a sequence of numbered lines; `files` are the files that had the name, the
last one has it now. A subscription opens its file and watches it (`os.Open`, then
`w.Add`: two steps, between which the file can be replaced), sends what is there and
waits for events of it, or polls, with a channel of `Buffer`; the page keeps `MaxShown`
lines and the filtered ones beside them. The journal is polled and joined by overlap.
`Calm` says whether a log is replaced again before its last replacement was noticed.

### Executor, Mask, Discovery, JobReq, DoctorTab

Executor: `runs` has of each call its process, its child, its context and its
record; the audit log is a file that `logrotate` renames, the writer compares the
inode and opens it anew. Mask works on arguments as sequences of words and
separators. Discovery is the merge of directories, units and processes in a
function of the host, with `hostcfg`'s judgement of the same units. JobReq runs one
diagnosis against a host that is being repaired. DoctorTab has full runs, single
re-runs and the detail screen; what a check found is a function of the row.

## Runs

| Run | Question | Instance | States |
|---|---|---|---|
| `refresh` | single flight, backed flags, same state, monotone list; does the refresh go on? | 3 tabs, 2 host generations, 3 detections, 2 walks, 2 diagnoses, 2 configurations, fairness | 755 k |
| `tabs` | are pages told once, does every answer reach its page? | 3 tabs (one that sends errands, one that takes them, the wizard), 5 keys | 3.2 M in all |
| | is an operation for the runners the user saw? | 2 runners, 1 orphan unit, any lists | |
| | drain, screen, goroutine, jobs and approval | 2 runners, one of them running, 3 keys, 1 job | |
| | does a row show its own job? | 2 workers one after the other, 4 kinds of log, 2 tries | |
| | edits and diff | files of up to 2 lines (`.env`) or 3 (drop-in, with comments and headings) at first, 2 fields, 2 edits by others or form, diffs of up to 4 lines | |
| `live` | do drains end? does the Config tab stop being busy although the user leaves? | 2 runners, 2 keys, 1 job; 1 runner, 1 change, 1 job; fairness | 359 k |
| `setup` | only approved plans run, alone, as a batch; nothing left stopped; tokens fit; runs end with their report, plans arrive | 2 runners and a third to add, 4 keys, 4 plans, tokens of 2 ticks, 1 job, fairness | 697 k |
| `disk` | jobs spared, report true, scans end | 2 runners, a `_work` and docker, 2 scans, 1 cleaning, 1 job, fairness for the scans | 679 k |
| `logs` | in order, no doubles, to the end, stopped ones end | 3 lines, 2 files, 1 journal line, 2 subscriptions, channel of 1 | 6.8 M |
| `files` | is what was written restarted, loaded, backed up, and one job at a time? | 2 runners, 2 changes of drop-ins, copies and labels, every failure, the approval repeated | 1.3 M in all |
| | does a save implement SafeFiles? | 2 files, 2 changes, kills and losses of power | |
| | tarball unpacked cleanly | archives of up to 3 of 8 entries, 3 directories, 2 attempts | |
| `host` | commands, audit, masking, discovery, diagnosis | 2 commands with 2 rotations (symmetric); arguments of up to 5 words; 2 directories, 2 units; 4 repairs; 4 rows, 3 changes, 4 keys | 2.3 M |
| `doctor_row`, `config_drain_fails`, `jobs_dir`, `config_restarts` | four disagreements | small | |

Why the bounds are enough to matter:

- *Refresh.* A late result needs a second detection, the list going back a third
  one; a walk that is dropped as old needs two; two host generations, the first
  without runners, tell apart "nothing yet", empty, old and new. Three tabs are
  the Doctor tab, the one in front and one that is neither.
- *TabShell.* Opening a modal, leaving, coming back, opening another one and
  answering takes five keys; three tabs give two that are not in front.
- *RunnerOp.* Starting a drain, cancelling it and starting another one takes three
  keys, two runners give a queue in which a late step can meet the wrong index, one
  job is enough to be lost.
- *JobsTab.* The newest log is wrong only when another worker wrote before: two.
- *ConfigText.* Two lines are two of a key, or one of a key and a comment. Three lines of a
  drop-in are a heading with two of a key, a comment or the heading of another section
  behind it, or a key in another section. What is written of it has a comment, a heading
  and up to four directives, more than the four lines that are compared one by one.
- *ConfigTab.* Two changes are needed for a write to find the content of an earlier
  one (copy after edit, or the same content twice), two runners for a copy with a
  target that is left out, or a target that is not the runner chosen. Labels are the
  kind that is written to GitHub and not to a file. Drains do not
  depend on jobs for the safety properties; `live` has one.
- *Setup.* Two units give a batch with a done and a failed, or a failed and an
  untouched one; a token of two ticks, got for the first, can be too old for the second
  when it is taken from the cache; two plans and two
  runs let a late one meet a newer one.
- *Disk.* Two scans are one that is given up and one that replaces it; a job that
  begins before or after the approval needs one.
- *Logs.* Three lines exceed the two that are kept and the window that is read at
  first; two files are one made anew; a channel of one blocks at once.
- *Files.* A copy to two files has a first and a second; a kill in the second
  attempt meets the debris of the first. Three entries are a directory, a link into
  or out of it and a file behind the link.
- *Host.* Two commands meet at the mutex of the log; the second rotation meets a
  writer that reopened once.

`CHECK_DEADLOCK FALSE` stands where a bounded instance rests: the keys, jobs or
attempts are used up and everything has been handled, or the program has ended
(`tabs`, `live`, `setup`, `disk`, `logs`, `files`, `host`, and the disagreements
taken from them). `refresh` never stops (a tick, a resize, a key is always
possible), and there deadlock is checked.

Symmetry is used for the commands of `host`, which differ in nothing and of which
no temporal property speaks; elsewhere the members of a set differ.

## Fairness

- Refresh: the timer fires (`OnTick`), a goroutine ends (each has a budget:
  15 s for a detection, 10 s for the start-up check, and the walk is finite), the
  loop handles what arrives. Nothing is assumed of the user or of the host.
- RunnerOp: goroutines go on, messages are handled, systemd carries out what it
  was asked, and jobs end (`JobEnds`). The wait of a drain has no limit in the code
  (FR-07), so `DrainEnds` needs the last assumption. Weak fairness suffices: each
  of these actions stays enabled until it is taken; a job that another job follows
  is bounded by `MaxJobs`.
- ConfigTab: the same, plus the results of jobs (`Results`) in a conjunct of their
  own, so that other answers arriving for ever cannot keep a result waiting.
  The queue of the event loop is first in, first out, which is stronger.
- SetupTab: the goroutines that make a plan or carry one out go on, their messages are
  read, jobs end. Nothing more is said of a program that is ending (`quit`).
- DiskTab: the goroutines of scans and cleanings go on and the loop reads results.

No fairness is assumed for keys.

## Refinements

- *FileWrite implements SafeFiles* (`SavesSafely`): a state of FileWrite is mapped to
  what is in the two directories; all steps but the rename of the `.bak` (`KeepCopy`),
  the rename of the file (`Replace`), edits by others, writing to disk and the loss
  of power are stutters. Checked by `files` and proved for all instances.
- *The runs of SetupTab implement Batch* (`RunIsBatch`): for each run, units that are
  done, failed or still to do, and its phase. The first failure ends the batch, a
  cancellation leaves what has not begun. Checked by `setup` and proved for all
  instances.

## Proofs

A theorem is about every value of the constants that its assumptions allow: any set
of runners, tabs, files or commands, and any bound. Beside the `ASSUME` of its module
an assumption is named only where the property fails without it; what fails then is
under [assumptions](#assumptions-of-the-runs).

| Module | Theorem | States | Assumes besides |
|---|---|---|---|
| `Refresh_proofs` | `TypeCorrect` | `Spec => []TypeOK` | |
| | `NoOverlapHolds` | `Spec => []NoOverlap` | |
| | `BusyIsBackedHolds` | `Spec => []BusyIsBacked` | |
| | `SameStateHolds` | `Spec => []SameStateEverywhere` | |
| | `ListNeverOlderHolds` | `Spec => ListNeverOlder` | |
| `Tabs_proofs` | `LettersFindTheirTab` | `ShellSpec => []Letters` | |
| | `NothingIsLost` | `ShellSpec => []NothingLost` | |
| | `ActivationsAreBalanced` | `ShellSpec => []ActivationsBalance` | `~Early` |
| | `OperationsKeepTheirTargets` | `ListSpec => SameTargets` | |
| | `RowsShowTheirJob` | `JobsSpec => []RowShowsItsJob` | `MaxAtOnce = 1` |
| | `DrainsSpareJobs` | `Spec => []DrainSparesJobs` | |
| | `NoWaitIsOrphaned` | `Spec => []NoOrphanWait` | `~FastTyping` |
| | `JobsAreLostByConsent` | `Spec => []JobsLostOnlyByConsent` | `~FastTyping` |
| `ConfigTab_proofs` | `OneJobAtATime` | `Spec => []BusyIsOneJob` | `Simple` |
| | `BackupsAreOfTheOld` | `Spec => []BackupKeepsPrevious` | `Simple` |
| | `OnlyWrittenRestart` | `Spec => []RestartsOnlyWritten` | `Simple`, `~Leaves` |
| | `AppliedMeansLoaded` | `Spec => []AppliedIsLoaded` | `Simple`, `~Leaves` |
| `SetupTab_proofs` | `TokensFit` | `Spec => []TokenFits` | |
| | `ApprovedPlansRunAlone` | `Spec => []ApprovedRunsAlone` | `~Hasty` |
| | `RunsAreBatches` | `Spec => RunIsBatch`, that is, `Runs!Spec` | `~Hasty` |
| | `UpdatesRestartWhatTheyDrain` | `Spec => []DownOnlyWhereItFailed` | `~Hasty` |
| `DiskTab_proofs` | `SeenJobsAreSpared` | `Spec => SparesSeenJobs` | |
| | `ReportsAreTrue` | `Spec => []ReportTrue` | `Patient` |
| `LogTab_proofs` | `LinesAreInOrder` | `Spec => []ShownInOrder` | `Calm` |
| | `LogsAreFollowed` | `Spec => []FollowsToEnd` | `Calm` |
| `Files_proofs` | `Invariance`, `TypeCorrect` | `SaveSpec => []IInv`, `[]TypeOK` | |
| | `SavesAreSafe` | `SaveSpec => SavesSafely`, that is, `Files!Spec` | |
| | `RunnersStayWhole` | `UnpackSpec => []LiveWhole` | |
| | `TarballsComeWhole` | `UnpackSpec => []UnpacksCleanly` | |
| | `ChangesAreAsAsked` | `TextSpec => EditsOnlyAsked` | |
| | `DiffsAreTrue` | `TextSpec => []DiffShowsChange` | |
| `Host_proofs` | `CutOffLeavesNothing` | `Spec => []CutOffKillsAll` | |
| | `EveryCommandIsTold` | `Spec => []EveryRunTold` | |
| | `GreenHostsRunJobs` | `ReqSpec => []GreenJobsRun` | |
| | `UnitsAreAttached` | `ScanSpec => []AttachedRightly` | |
| | `GreenUnitIsTheOne` | `ScanSpec => []GreenIsOneUnit` | |
| | `DetailShowsNewest` | `DoctorSpec => []DetailIsCurrent` | |
| | `DetailStaysWithRow` | `DoctorSpec => []DetailKeepsRow` | every row `Alone` |
| | `MaskingIsForGood` | `MaskSpec => []MaskedForGood` | |

`Simple` is `"self" \notin Kinds /\ Repeated \subseteq {"decided"}`: the tool's own
configuration is not edited, and only the approval of a diff may be pressed again
before its answer came. `Patient` is `~Hasty`, and no two targets have the same label.
A row is `Alone` if its target tells it from the other rows of its check; the run
`doctor_row` shows what happens to rows that are not. `Calm`: a log is replaced only when
its opening and its last replacement were noticed.

Every argument is an inductive invariant, with one lemma per action (and one for each
operation that several handlers share) and a last step per theorem that combines them
by `PTL`.

*Refresh* (`IInv`). `NoOverlap` alone is not inductive: that `Start` refuses a second
detection rests on `inflight` counting exactly the detections in flight, which is true
only because `Apply` gives the slot back before it decides whether the result is stale
(`ScanInv`). The list never gets older because at most one detection is in flight and
it started at a generation no older than the list, a fact about the goroutine and not
about the handler. `WalkInv` and `DoctorInv` say the same of the walk and of the
diagnoses: the flag is set exactly while a job of the current number exists.

*Tabs* (`Letters`; `Quiet`, `Follows`; `RowsInv`). What is on its way is for the tab it
was sent for, so only that one can receive it, whichever is in front by then. Nothing
is on its way before the first tab was told that it is in front, so no tab is changed
before, and from then on the number of activations a page has not been taken back
follows `active`. For the Jobs tab, workers follow one another, so a log newer than the
start of the worker that runs is its own (`HostInv`); whatever was read for a worker is
its own or the worker is over (`PageInv`, through goroutines and answers).

*RunnerTable*, in `Tabs_proofs` (`ListInv`). A cursor is on a row that is shown, or nowhere
if there is none, and only listed rows are marked (`TableOK`); every operation on the table
keeps this, whatever its order of refresh and focus. So a list put in the place of another
keeps the marks of the runners that stay and finds the cursor's row again if it still
passes the filter (`Relists`). The orphan units follow in a second such step, which must
not undo the first. That what is filtered has the rows of the list that match, and those
only, is an induction over the rows (`AmongIs`).

*RunnerOp*, in `Tabs_proofs` (`Spared`, `Screen`, `Approved`). What a drain knows of the last job begun
stays true on its way through the goroutine, `systemctl` and systemd, until the stop is
carried out; so whatever is interrupted began later. This needs nothing of the user.
The waiting screen is on top while there is a drain, so no second one can be started and
no dialog be answered instead, and a step of the drain on its way means that its wait
ended; this needs that keys wait for their answer.

*ConfigTab*, in four layers, each resting on those before. `Gates`: at most one modal,
none while a job is in flight, a change under its diff. `OneJob`: busy stands for one
goroutine or its result. `Fresh`: no file has yet what is about to be written to it, for
contents are new and a write forgets a runner once it has written there; so the backup
is of the old. `Stays`, `Written`: the user is in front of the runner that all this is
about, what the write has left and what the files hold make up the change, and the change
is taken when it is applied. `Loaded`: what remains to be loaded at every stage of an
apply, whatever systemd did with an earlier request.

*SetupTab* (`TokenInv`; `PlansInv`, `AskedInv`, `RunInv`, `OneRun`; `ListsInv`,
`DealsInv`, `DownInv`). A token is used in the step that gets it or finds it fresh. While
an approval is on its way no plan is made that could take the place of the one the user
looked at, and while a run goes on its progress is on top and the plan is gone, so nothing
can be approved. Hence there is one run, and what it has of a Batch is a function of that
goroutine: before the first unit everything remains, and a step that has begun is in a
unit of the plan, so what ends is always the head of what is left (`DealsInv`). That an
update starts what it drained needs more: its plan, made from a detection that may be
old by the time it is approved, names no runner twice and ends with a start for whatever
it drains (`PlanFits`; the updatable runners are taken in their order, `InOrderOnce`);
only services run, and a start brings up only a service, so the service must still be
there, for which a removal must stop before it uninstalls (`HostOk`, `Down`); and a runner
is down only after the first step of its unit, where a run cannot end as one that was
cancelled between two units.

*DiskTab* (`PlanInv`, `Spares`). The approval looks at the detection of that moment, the
goroutine only at the plan it was given; what was seen is carried to every target that
is still to be removed. That a report is true needs more (`RInv`). There is one cleaning at
a time, because its progress is on top of the modals and cannot be closed (`Screen`), and
one command waits for it (`Asked`); cleanings and their progress are numbered without gaps.
The books of a cleaning (`Books`) say that what is marked in the progress, what is in the
channel and what is to do make up what was approved, each target once, so that it does not
matter whether the end or the last progress arrives first: what is not marked yet is
counted when the end is, from what the goroutine returned.

*LogTab* (`LInv`, `BodyInv`). Of the subscription that is shown, whatever was sent (the lines of the
page and of the channel) comes before whatever its file and the files after it still have
(`SentBefore`); so nothing is shown twice and nothing out of order. That nothing is left
behind is a fact about pending events: while the file is not the one of that name, its
creation is announced (`EventsInv`), and while it was not read to its end, or was
truncated to less than was read, some event is (`PlaceInv`). Of the journal, what is left
of a new excerpt after the overlap with the last one is newer than all of it (`Joined`,
`PollInv`). The ring keeps what it is pushed in order and never more than its limit
(`Pushed`). The body is a window over those of all lines that match: it grows at its end
with every line that comes and shrinks at its beginning with every one that goes
(`Moves`), if it matches, so it is always what composing it anew would give (`BodyGrows`).

*Files* (`IInv`; `UnpackInv`, `CleanInv`). That a rename is a step of SafeFiles needs more than its
guard: the file it replaces must still be what the program read, several steps earlier,
when it chose the owner and made the backup (`WantInv`), and what it renames must be
complete and on disk (`TmpInv`), which is what makes a loss of power unable to tear it.
The proof maps the initial state, and then every step, to a step or stutter of SafeFiles.
Of a tarball, a stage is complete before anything is moved (`StageInv`), a name that
makes room has nothing under it until its successor is moved (`TakenInv`), and a name is
missing or of another kind only where a complete stage of some attempt had one, which
must be remembered through kills (`made`). That everything of the tarball arrives
rests on all attempts taking the same course: what an archive makes in an empty stage is
a function of its entries and their order (`CourseInv`). What is no longer in the stage
is in place, under directories that were entered before (`PlaceInv`), and nothing that
is to be kept gets into a stage (`PlaceIsNotKept`), so the stage can be emptied without
touching it.

*ConfigText*, in `Files_proofs` (`TextInv`; `FieldStep`, `SoFar`; `Tables`, `WalkedTo`,
`NoneLonger`). Every step on a file changes what the lines of one key say and keeps what
all others say, their order and their ends (`DiffersIn`, `EndsAs`), in one of three ways:
a line is set, added, or lines are left out. So after n fields the first n are as the form
says and the rest is as in what was read (`SoFar`, `Base`); this needs that no key is twice
in the form. Of any drop-in, whatever is in it, directives are read (`ParsedDirectives`),
and what is written reads back as the directives the fields made (`ParsedAgain`), since
all of them are behind `[Service]` and none is a heading.
Of a diff, what the walk has shown at any place is the part of both files behind it, and
what it will still show as common is what the table has for that place (`WalkedTo`): where
two lines differ it goes to the larger neighbour. The table in turn bounds every way to
pair equal lines in order (`NoneLonger`): a pairing of what is left either leaves out one
of two different first lines, or loses nothing if two equal first lines are paired.

*Host* (`GoneInv`, `RecordInv`; `PidsInv`, `GreenInv`; `ToldInv`). Only a leader forks,
so a group that was killed stays gone. One call at a time writes to the audit log, and it
holds a file that is not archived; a command is then in no place of the log before it is
done and in exactly one from then on, which is more than `EveryRunTold` says. A verdict
about a listener is about the process that was read, and groups of a process do not
change. What a detection makes of the units is a function of the host; the proof goes
through its two passes (`ClaimedByOne`, `ByNameIsTheClaimed`, `ElseByDirectory`), and needs
that a set of numbers has a least one (`MinOfNumbers`). The detail screen has the key of
the row it was opened on; a re-run finds by it the first row that has this key, which is
this row only where no other has it (`DetailInv`).

*Masking*, in `Host_proofs`. Each of the functions of `exec/mask` either leaves a text
alone or cuts it after a separator, and the lemmas say exactly where (`CutAt`,
`MaskElementIs`). What was cut has stars behind the cut and is not cut anywhere else: a
separator further on is gone, and what is before it is as it was (`Settled`,
`ElementSettles`). The second masking of a header's value and the hiding of secrets in
the middle of a text might undo that; they do not, because neither makes a separator or
a name (`HeaderSettles`, `HiddenSettles`). And an argument that still reads as the name
of an option after masking was that name before (`OptionKept`), so the argument after it
meets the same rule again.

Only model-checked:

- the liveness properties `RefreshNeverStops`, `DrainEnds`, `BusyEnds`, `RunEnds` and
  `ScannersEnd`, and `StoppedEnds`, which speaks of what is enabled: the prover has no
  `ENABLED`.

The prover has no induction over data either: the theorems of the library that state it
take an operator. Where an argument needs it, it is made over the least element of a set of
numbers (`LeastNumber`, `MinOfNumbers`): so for the rows and lines that pass a filter, the
links that are followed, the course of an unpacking, the place of a separator, and the
recursive functions of ConfigText (`Recursion`, `NoFirstException`).

## Disagreements

Four places where the code does not do what a comment of the repository says of
it. Each has a run of its own that finds the behaviour; `PROJECT.json`
("findings") quotes the comment.

| Run | In short |
|---|---|
| `doctor_row` | after a re-run the detail screen of one endpoint shows the result of another one of the same check |
| `config_drain_fails` | a drain whose `systemctl stop` took more than 30 s leaves the runner stopped |
| `jobs_dir` | the directory read from a log that is being written is kept although a better line follows |
| `config_restarts` | a user who goes to another runner while a change is written has that runner restarted for it |

### Other observations

Met while modelling, and reproducible with these modules by stating the property;
without a run of their own.

Parent and refresh:
- A tab chosen by a key before the size of the terminal is known is told twice that it
  is in front (`ui/keys.go:154`; `ActivationsBalance` with `Early = TRUE`).
- A start-up check that answers late replaces the newer count of the Doctor tab
  (`ui/hostreq/state.go:52-54`); the only one is issued for the first successful
  detection even when it found no runner (`:43`, compare `ui/startup/startup.go:47`).
- After `q`, a tab key or errand that is on its way before the program ends
  activates a page again, after it was shut down.
- Keys typed right after a tab key go to the tab that is left: the tab key comes
  back to the parent as a message (`page.BubbleKey`).

Runners tab:
- A second drain, started by keys that overtake the answers of the dialog, replaces
  the first without cancelling its wait (`ui/page/runnerop/drain.go:63`).
- The note of a report is one field: cancelling a drain while another operation runs
  makes that one report "cancelled" (`ui/page/runnerop/drain.go:127`).
- The end of any operation clears marks made meanwhile (`ui/page/runners/runners.go:130`);
  marked rows that the filter hides are operated on.

Config tab:
- While a job is in flight, choosing the tool's own configuration opens its form all
  the same, and what is saved there runs beside the job (`BusyIsOneJob` with `Kinds =
  {"copy", "self"}`, `Leaves = TRUE`).
- A second enter on a method starts applying the empty change, whose target is the
  runner chosen: of a copy its source (`ui/page/config/applyflow.go:105`).
- A repeated approval that arrives after the write has ended closes the question for
  the method (`ui/page/config/results.go:172`).
- A copy that failed stays pending; saving the tool's own configuration then offers
  to apply it (`ui/page/config/applyflow.go:28`).
- A form answered after its target was left builds a change without a runner
  (`ui/page/config/results.go:154`).
- Of duplicate keys in `.env` the form shows and sets the first
  (`config/envfile`); a temporary file of a killed save stays.

Setup tab:
- With keys that are not answered one by one (`yy`), the second approval closes the
  progress (`ui/page/setup/flow.go:168`); `a` and `u` are not guarded by a run.
- Adding again before the next detection plans a number that exists.
- Whether a runner was up is read when the plan is made.

Disk tab:
- With keys that are not answered one by one, an approval reaches a plan made anew
  (`ui/page/diskclean/diskclean.go:55`).
- A job that begins after the approval was handled is not spared.
- Two runners registered under the same agent name share the labels of their targets
  (`disk/scan.go:114`), and the progress marks the first row of a label: a report can count
  a target that is gone as not tried. Hence `Patient`.
- With keys that are not answered one by one two approvals start two cleanings; a command
  left waiting for the first can then take the closing of a third for its own, whose report
  is wrong (`ReportTrue` with `Hasty = TRUE`, three cleanings).

Logs and Jobs tab:
- A file made anew between `os.Open` and `w.Add` (`logs/tail.go:59-85`) is not followed:
  what is open is the old one, what is watched the new (`FollowsToEnd` with
  `Calm = FALSE`).
- Two replacements in a row (created, written, created) are two events for one reading:
  `reopen` compares no inode, so the newest file is read twice and its lines are shown twice
  (`logs/tail.go:133`; `ShownInOrder` with `Calm = FALSE`, three files).
- A reopening that fails stays with the old file until the next event.
- Lines written between truncation and the next read can be lost when the file has grown
  past the old place (`logs/tail.go:187`).
- Equal lines at the join of two journal excerpts may be dropped once.
- With two workers of one runner at a time (`MaxAtOnce = 2`) logs are taken for the
  wrong worker.

Doctor and discovery:
- A diagnosis before the first detection, or a unit attached by `.service` that has
  another `WorkingDirectory`, makes the Doctor tab call the unit of an existing runner
  an orphan; units with an empty `WorkingDirectory` are orphans of one and not of the
  other (`runner`, `doctor/hostcfg`).
- Runners whose units were not asked for in time look like runners started by `run.sh`.
- A probe of buildx that is cut off is reported as "not there".

External commands:
- The record of a command that runs when the program ends is lost.
- A child that holds the pipes for 5 s is reported as a failure to start
  (`exec/command`, `ErrWaitDelay`).

## Assumptions of the runs

- `Hasty = FALSE` (setup, disk), `FastTyping = FALSE` (runner operations): a key is
  pressed after the answer to the last one was handled. What happens otherwise is
  listed above.
- `Early = FALSE` (`tabs`): no key before the first size of the terminal; with it
  `ActivationsBalance` fails as listed above.
- `Leaves = FALSE` (`files`): the user stays with the runner while a job is in flight.
  `live` and `config_restarts` lift it.
- `Repeated = {"decided"}` and no `"self"` among `Kinds` (`files`): only the key that
  approves a diff may overtake its own answer, and the tool's own configuration is not
  edited between two changes. With either the observations about the Config tab show.
- `MaxAtOnce = 1` (`tabs`): a runner takes one job at a time, as GitHub's listener does.
- `Calm = TRUE` (`logs`): a log is replaced only when its opening and its last replacement
  were noticed. Logs of a runner are made anew by its next start, seconds apart; what
  happens otherwise is listed above.
- Others edit a configuration file while no save is between its backup and its rename;
  a rename onto a file of the same kind does not fail.
- `logrotate` does not rename between the comparison of the inode and the write that
  follows it and also archive the file before the write ends.
- A host does not change while a detection reads it (Discovery); that it changes
  between detections is in Refresh and RunnerTable.

## Plan

Built first: Refresh with its proofs, Services, RunnerOp, ConfigTab; then the tabs,
the files and the host as listed above; then the proofs.

Next:

1. The path guard of a cleaning (`disk/pathguard`) with links made meanwhile.
2. The network and version checks of the diagnosis, for what they say when they are
   cut off.
3. Process identities, for `kill` with the PIDs of an earlier detection.

## Not modelled

- Rendering, layout, wording and styles: no control of their own. The status line
  (`ChromeMsg`) belongs to it.
- The contents of results (sizes, check messages): abstracted to where they came from.
- Disabled tabs: the code can, but no tab of this version is disabled.
- Process identities: that `kill` uses the PIDs of the last detection is therefore
  not covered.
- The validation of single form fields, and the parsing of `/proc`, unit names and
  container cgroups: functions of one text, without control of their own.
- Text of reports, except who succeeded, failed, was skipped or cancelled.
- GitHub itself (paging, rate limits), docker, the kernel's limits.
- `buildconfig`: it checks the build files and has no run-time behaviour.
