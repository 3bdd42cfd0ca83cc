# Verification project for ptuf

ptuf is a guardrail for coding agents. An agent (Claude Code, Codex, Copilot,
Kiro, Cline, Cursor, Pi, OpenCode) is about to run a tool; the hook that ptuf
installed in it starts a `ptuf hook <agent>` process, which reads the tool call
from stdin, asks its engine for a decision (allow, monitor, ask, deny), appends
an audit record to a JSONL file and answers in the agent's own protocol.

This directory holds TLA+ modules of the parts of ptuf where the order of steps
matters, the TLC configurations that check them on small instances, and TLAPS
proofs of theorems that hold for every instance. Every definition is translated from
the source; `PROJECT.json` maps each of them to its lines. (The repository's
`formal/tla` has two small models of its own; nothing here depends on them.)

    tlc -workers 2 -config Audit_File.cfg MCAuditFile    # one run
    tlapm AuditFile_proofs.tla                           # one set of proofs

## 1. The system

| Component | State it keeps | Operations | Hard behaviour | What makes it correct |
|---|---|---|---|---|
| Decision engine (`src/engine`, `src/decision.rs`) | per call: the clock read once, what each rule returned, allowlist hits; for the process: audit sink, pending warnings | `decide`, the filters (pack, rule, allowlist), `aggregate`, demotion for monitor mode, `record_audit`, `drain_audit_write_warnings` | filters applied one after the other over two loops; entries that expire while the loop runs; demotion per decision and not of the aggregate; the audit write fails after the decision | a hardDeny deny always blocks; locked rules are never weakened; the answer depends on configuration, call and instant, not on the order of rules; what happened is recorded or warned about |
| Audit writer (`src/audit/mod.rs`, `writer.rs`) | the file, its advisory lock, the sink's Mutex | open, `record` (Mutex, `flock`, torn tail, `write_all`, unlock) | several processes and threads; a process killed in the middle of a record; each system call may fail; locks belong to the open file, not to the thread | one record per line; an acknowledged record stays readable; a kill costs at most one record; no writer waits for ever |
| Audit reader (`src/audit/read.rs`) | snapshot length, line buffer, counters, window of the newest records | `open_snapshot`, `scan_into`, `classify`, `read_filtered` | chunks cut a line anywhere; lines without end; a file that grows under the reader | every complete line is counted exactly once and as what it is; the newest matching records are returned; memory is bounded |
| Hook process (`src/cli/run.rs`, `output.rs`, `src/hook_output.rs`) | payload, decision, what was written on stdout and stderr, exit code | read, adapt, build engine, decide, drain warnings, answer | every step may fail; the host may kill it; ten protocols with their own idea of stdout, exit code and ask | whatever fails, the call is blocked; an ask is never an unprompted run; permitted calls run |
| Host bridges (`src/init/templates/*.ts`) | timers, the child's streams, signals in flight, the pending promise | spawn, write payload, timeout, SIGTERM then SIGKILL, read streams, evaluate, confirm | a timer races the answer; the child hangs or ignores SIGTERM; output over the capture limit; stdin breaks | a tool runs only on a whole, on-time, permitting answer; each call is settled; no process is left behind |
| Installer (`src/init`, `install_one` in `src/cli/run.rs`) | the host's files, the captured snapshots, per-agent outcome, exit code | capture, read/merge/write per adapter, verify, restore | a crash or an I/O error between two writes; a restore that fails half way; a host that edits its files; a second run over the first | rollback restores; the host's content and foreign files survive; the guard in force is never lost by an install; a rerun changes nothing |
| Configuration (`src/config`) | four scopes folded into one | discover, parse, confine, `merge` | precedence field by field; a file that is edited, broken or removed while it is loaded | each setting is that of the highest scope that sets it; a policy that is there is never left out; a failure gives no policy |
| Plugins (`src/plugin`) | compiled rules | load, reject duplicates, evaluate conditions | duplicate and reserved ids, several scopes naming plugins | a rule id names one rule; a plugin never takes a builtin's |
| Shell facts and the pipeline condition (`src/facts/shell.rs`, `src/plugin/dsl.rs`) | none (functions of the command line) | split into segments, join groups at pipes, parse carried lines, walk the pipelines | compound commands, code handed to another shell, substitutions and sinks, inside one another; the nesting budget | no command is lost or seen twice; a source that can reach a sink is matched; unrelated statements are not |
| Other facts and rules (`src/facts`, `src/rules`) | none | lexer, paths, URLs, patches; match | expansion budgets | at a limit the rules still see that something was cut |
| Self protection (`src/self_paths.rs`) | the protected paths with their kinds; while a line is walked, the directory of each shell and whether it is known | `collect`, `classify_input_prepared` (`candidate_targets`, `walk_shell`, the five ways to match) | `cd` moves a shell statement by statement; shells start where the outer one is; links, patterns, directories decided at run time; redirects are read in two places | a write the walk claims to follow is classified by the file it reaches; nothing else is |
| Update (`src/update`) | its private directory, the downloaded script, exit code | plan, download, attest, run, clean up | every step may fail or be killed; two updates at once; other users of the temporary directory | only the script that was checked is executed; 0 means installed; no silent downgrade |

How they interact: the bridge (or the agent itself) spawns the hook process and
talks to it through pipes, an exit code and signals; the hook process builds
one engine from the merged configuration and calls `decide`; the engine calls
the audit sink, which shares its file, through the kernel's advisory lock, with
all other hook processes and with `ptuf audit`; the installer writes the files from
which the agents start the hooks, and verifies by running a decision and a hook.
`ptuf update` replaces the executable they all start, by an installer script
or by cargo.

`PROJECT.json` lists the hazards of this code, each at the line where it bites,
and the properties that would catch it.

## 2. The modules

| Module | Models | Correspondence |
|---|---|---|
| `Decision` | `src/decision.rs`: the kinds and their order | shared by the next ones |
| `DecisionEngine` | `Engine::decide` and its filters | `BeginDecide` reads the clock and starts; `EvaluateRule` is one turn of the loop (builtin rules first, plugin rules after; both loops filter alike); `Finish` is demotion, aggregation, the outcome and `record_audit`; `Tick` moves the clock at any point; `DrainAuditWriteWarnings` is `drain_audit_write_warnings` |
| `PolicyDecision` | abstract: what a caller of `decide` is promised | one step from call to answer, over sets, without order; `DecisionEngine` implements it (`ImplementsPolicyDecision`) |
| `AuditFile` | the file, its writers and `open_snapshot` | one action per system call of `record`, with a failing alternative each; `Kill` closes the file wherever the process was; `Open` is a fresh process |
| `AppendLog` | abstract: an append-only log of whole records | `AuditFile` implements it (`ImplementsAppendLog`) |
| `AuditReader` | `scan_into` and `read_filtered` | the loop over chunks is `ReadChunk`; its three ways with a chunk are `PassOver` (an oversized line), `FinishLine` (a newline is in reach) and `Buffer`; `Finish` is what happens after the last chunk |
| `HookProcess` | `run_hook` and the answer in each protocol | one action per step of `run_hook`; `Envelope`, `adapt_hook_decision` and the exit codes are the tables of `output.rs` and `hook_output.rs`; `Killed` is the host's |
| `HostBridge` | the TypeScript of Pi and OpenCode, composed with `HookProcess` | `EXTENDS HookProcess`; `ChildStep` and `Killed` move the child, the other actions are timers, events and promises of the bridge |
| `InitInstall` | `run_init_with`, `install_one`, `capture`, `restore`, the writers and the adapters' `install` | an adapter is its plan: the sequence of reads, writes and removals its code makes; `ReadFile`, `WriteFile`, `RemoveFile` do the next of them |
| `PolicyFields` | what a policy, a layer and a scope are, and the effective value of each setting | shared by the next two |
| `PolicyLoad` | `load_with_layout`, `merge`, `PluginSet::load_paths` and what their callers make of a failure | `SkipScope`, `FindFile`, `ReadLayer`, `ReadFails` are the loop over the scopes (looking at a path and reading it are two steps); `Merge` folds one layer; `LoadPlugin`, `PluginFails`, `PluginsDone` are the loop over `plugins.enabled`; `Answer` is the caller; `EditFile` and `EditPlugin` are the world, at any point |
| `EffectivePolicy` | abstract: a load ends with the highest setting of each key and distinct rule ids, or fails without a policy | `PolicyLoad` implements it (`ImplementsEffectivePolicy`) |
| `Update` | `run_with_platform`, several runs at once | one action per step of the plan, each with its failing alternatives; `Kill` and `OtherUser` are the world; curl, gh, cargo and the installer are what `update` relies on of them |
| `ShellParse` | `facts::shell::parse` from the tokens on: `split_segments`, `join_piped_groups`, `parse_pipeline`, `parse_argv`, the carried lines, `Bash::commands` | a loop is a recursive function over its turns (`after`, `out`, `still`), the recursion through carried lines one over the budget (`InnerShell`); the step `Parse`, and `Use` for whatever later only reads the facts, so that every step of `ShellPipeline` and `SelfProtection` is one of `ParseSpec`; beside it the commands of the line and of the lines they carry (`Within`) |
| `ShellPipeline` | the shell's grammar and `walk_argv_for_pipeline_from_to` | `EXTENDS ShellParse`; the tokens of a line are those of a tree (`LineTokens`); a step `Evaluate` after `Parse`; beside it a reference that tells from the tree which command's output may reach which (`Flows`) |
| `SelfProtection` | `classify_input_prepared` and `walk_shell` over the parsed line, `from_bash_redirects` | `EXTENDS ShellPipeline`; `Classify` is the step of `decide` between `Parse` and `Evaluate`; beside it a reference that follows the shells through the line itself (`Run`) |

`MC*` modules hold the instances (`MCSelfProtection` extends the lines of `MCShellPipeline`). A rule's body, a payload's bytes and the text of
a settings file are data: a rule is what it returned for the call, a payload is
the class `run_hook` puts it in, a file is what ptuf reads of it (its own entry,
a count of the host's content, its mode). Control is kept: every early return
and error path of the mapped functions is a disjunct.

Choices a reader should know:

* **Two loops, one index.** `decide_with` evaluates builtin rules and then
  plugin rules, each through the same filters; `NRules` numbers both in that order.
* **The clock** moves between any two steps; `decide` reads it once.
* **A record in pieces.** `write_all` may be split by the kernel and by a kill: a record is
  `Pieces` pieces and a newline, and a line of the file remembers which records
  have bytes in it. The torn-tail check and its newline are two system calls made under the
  lock by which every writer is kept out; a kill between them leaves the file
  as a kill before them.
* **Locks** belong to the open file: a second thread of the process passes
  `flock` (`CanLock`) and only the Mutex keeps it out. An `unlock` that fails
  leaves the lock with the process until it closes the file.
* **Time is not modelled in `HostBridge`**: an armed timer may fire at any
  moment, which contains every real schedule.
* **Agents outside the repository.** `HostVerdict` says how an agent reads an
  answer; it is external, taken from `docs/design/cli-and-hooks.md` and
  `docs/design/kiro-cli.md`, and stands for no code of ptuf. Pi and OpenCode, whose
  reading is in the repository, are `HostBridge`.
* **Representative adapters.** Copilot installs by the same steps as Claude Code
  (one JSON file, merged, an entry of ptuf's left as it is), Pi as Cline (one file
  ptuf owns); Kiro v2, which rewrites an entry of ptuf's that is not as it would write
  it, stands for any number of agent files with two, and for Cursor and Kiro v3 with one.
  What a user added to ptuf's own entry goes with it and is not counted as the host's.
* **What a merge drops.** `user` counts what the host has in a file. One merge
  keeps less: where Codex's `config.toml` has a `features` that is not a table,
  `ensure_hooks_enabled` (`src/init/codex.rs:169`) puts a table in its place. Such a
  file has the hook `clash`, and `Kept` is what a merge leaves of it.
* **Scopes** are four: system, user, project, project-local. A setting is a key of
  the merged value (a field of one rule's override, the audit path), so
  field-by-field precedence is precedence by key; lists grow.
* **A version is compiled in.** `current[p]` is the version of the executable that
  runs as `p`, not what is installed by the time it compares: two updates at
  once may overtake one another, and `NoSilentDowngrade` is stated about the
  executable that decided. An unpinned update has no downgrade guard at
  all (`Refuses` asks for a pinned version), and cargo without a version
  installs what crates.io has.
* **A line and its tokens.** `ShellParse` takes a line as it is known by its tokens
  (`Tokens`, a parameter), of which it asks only that a command, which stands
  for its words, ends where a symbol comes (`Grammatical`), and that what a command
  carries is one of `Bodies`. `ShellPipeline` starts from a command line as a
  tree and prints its tokens (`LineTokens`): what the parser makes of
  them is compared with the tree. The lexer, assignments, prefix wrappers
  (`sudo`, `env`) and the output a line spells out for `echo ... | sh` are left
  out. `{` and `if` open a group only at the start of a segment, which is not where they
  stand after a pipe, so nothing is claimed of a compound command of
  words right after a pipe.
* **Redirects behind a compound command** are one token (`Redirect`), which belongs to no
  command but to its pipeline. It stays where it stands, so the pipe behind it
  is not the first token of its segment, and `ReadsGroupOutput` does not join
  `(curl URL) 2>/dev/null | bash`. Nothing is claimed of a pipe behind such redirects (`Feeders`), nor
  of a pipe or a sink that stands in a substitution, whose commands
  `walk_argv_for_pipeline_from_to` looks at one by one (`Inside`); section 6 has both.
* **Words as paths.** In `SelfProtection` a word is where it begins (the root, the
  home directory, where the shell is, a variable, `$(which X)`) and the names after
  it; a line says of each command which words it writes or removes, so the tables of writers,
  downloaders and git subcommands are data. Links are a function over existing
  directories. The properties are stated for what the walk claims to follow:
  a `cd` that is a statement of a shell's own line, with no redirect on it or on a group
  around it. Of a `cd` in parentheses, at a pipe or with a redirect,
  and of moves and redirects inside a substitution or a sink, nothing is claimed,
  and nothing of the name behind `$PWD` once the place is lost.
* **A `cd` may be skipped or fail.** `;` stands for `&&` and `||` too, and a directory
  may not be there. The code follows every `cd` as if it were run and had succeeded; the
  reference `Run` takes any set of them (`works`) to have done so, and
  `followed` says whether the shell still is where the code takes it to be. Where it is
  not, `WritesSeen` claims the words that need no place (absolute ones, `~`, variables), and
  all words again once a `cd` succeeds that needs none.
* **Verification's outcome** is a choice in `InitInstall`: the check runs
  decisions that the other modules model, and the installer must cope with both.

## 3. Runs

Every passing run ends within minutes; its bounds are CONSTANTS of the module.
`CHECK_DEADLOCK FALSE` is in every configuration because each of these systems
stops by itself: the calls or records of the bound are used up, the process has
exited, the file is read. What must not get stuck is stated as liveness.

| Run | Question | Bounds and why they suffice |
|---|---|---|
| `decision_policy` | what can configuration weaken, and does the loop refine the order-free promise? `HardDenyAlwaysBlocks`, `LockedRuleFloor`, `StricterOverrideNeverWeakens`, `AllowlistIdExplainsAllow`, `MonitorModeLeavesTrail`, `ImplementsPolicyDecision` | four rules, one of each kind that exists (overridable, hardDeny, locked, plugin), on both sides of the hardDeny one; overrides stricter and weaker than each rule, packs and rules switched off, both modes; two overlapping entries, one that expires at the instant 1 of a clock in 0..1 (so before and at expiry are reached), one without and one with an unreadable date; sinks on and off, failing. One call: a hook process makes one, and `decide` keeps nothing but pending warnings |
| `audit_file` | `OneRecordPerLine`, `AckedReadable`, `OneLossPerKill`, `LockedSnapshotTail`, `ImplementsAppendLog`, `NoWriterStuck` | two processes, one of them with two threads (Mutex and lock are both needed), one thread with two records (`Quota`: a torn tail is followed by a writer that finds it, also in the same process), records of two pieces, a reader, one kill, one failing call (of a writer or of the reader, whose failing unlock leaves it the lock), under `Fairness` |
| `reader_scan` | `CountersExact`, `NewestReturned` | every file of at most five bytes over the five kinds of byte, with a line limit of two bytes and chunks of up to three: a line is blank, fits, just fits, is one byte over, over within a chunk, across chunks and at the end; a limit of 0 and 1 |
| `hook_answer` | `DenyBlocks`, `AskNeverRunsUnasked`, `PermittedRuns`, `RecordedOrAnnounced` | all ten adapters, all payload classes, all decisions and audit settings, stderr read by the host or closed: nothing is cut |
| `bridge_call` | `ToolRunsOnlyIfPermitted`, `LateAnswerDropped`, `BlockExplained`, `NoOrphan`, `CallSettles`, `HungOpenCodeChildDies` | one tool call in each bridged host, every payload class, decision, prompt mode, under `BridgeFairness`; calls do not share state in the code, so one is enough |
| `init_runs` | `TreeRestored`, `HostContentKept` (the host's content and foreign files), `InstalledMeansGuarded` (and what the exit code tells), `RerunIdempotent`, `GuardKept` | `Scenarios`: each agent alone, over every tree of its files (Codex's `config.toml` with a `features` that is not a table among them) and one edit of the host; two agents in one run, in pairs that mix the one-file and two-file adapters; a second run over what a first, perhaps crashed, one left, for the upgrading adapters and the pairs; all options, failures and a crash anywhere |
| `policy_load` | `UniqueRuleIds`, `DiskPolicyInForce`, `ImplementsEffectivePolicy` | four scopes that each hold nothing, a broken file or one of up to three layers (two fields of one override set apart and together, an audit path inside and outside the repository), two plugin files with a shared, a repeated, a builtin id or broken, all four callers, one edit of any file at any point |
| `update_race` | `ExecutedAsVerified`, `ExitHonest`, `NoSilentDowngrade` | two runs with different options, two directory names (so that names collide), releases 0, 1 and a pre-release, another user, every step failing or killed. `Symmetry` over runs and names: all are bound by \E or \A |
| `shell_line` | is what the engine sees of a line what the shell runs? `NothingLost`, `FlowMatched`, `StatementsApart`, `WritesSeen`, `NothingElseFlagged` | every line of three commands with compound commands and carried lines two deep, of four one deep, of four with carried lines alone three deep, of five in parentheses one deep, of four in parentheses and `if` two deep; with redirects behind the groups, of two commands two deep, of three one deep, of three in parentheses two deep; two moves and a write in each of 15 arrangements of shells, groups (with a redirect behind them or not), pipes, substitutions and sinks, over six moves and 24 writes, and a move and two writes: 29,000 lines, and for each every set of its `cd` to be run. Four protected files, two of one name and parent name in different places and one at a link, so that a wrong directory gives a wrong kind; `NestingBudget` is 2 where the code has 3, so that lines at, below and above the budget occur, and lines of which only the middle is within it |

The runs leave out what theorems state and no run would add to: type invariants,
`MonitorBlocksOnlyByHardDeny`, `KeptForInspection` and `MemoryBounded`.

Three further runs each check one statement of a document or comment and are
expected to be violated; section 6 lists them.

For every property of every passing run `PROJECT.json` names a mutant: a
plausible bug in a mapped definition, under which TLC finds the property
violated. The mutants stand beside the definitions (`..._Xyz`).

### Fairness

* `AuditFile!Fairness`: a thread inside `record` runs straight-line code, so
  each enabled next system call is made; the kernel grants a lock that stays
  free; a hook process that has nothing left to do exits (`ptuf hook` is one
  shot, and this is what frees a lock whose `unlock` failed); a reader that
  holds the shared lock goes on to take the length and unlock, or to close the file. Nothing obliges
  anybody to start a record, and no failure or kill is fair. Only weak fairness is
  used: the bounds stop other writers in the end, so a lock that is contended
  becomes free. Starvation by an unbounded stream of writers is therefore not
  excluded by this run, and the code relies on the kernel's queue for it.
* `HostBridge!BridgeFairness`: timers fire, the host's event loop handles what has
  arrived, signals are delivered. Nothing is asked of the child (it may hang or be
  stopped for ever) or of the person at the prompt.

## 4. Theorems

| Theorem (module) | Statement |
|---|---|
| `LoopCorrect` (`DecisionEngine_proofs`) | the collections hold what the filters make of the rules evaluated so far |
| `TypeCorrect` | `Spec => []TypeOK` |
| `HardDenyTheorem`, `LockedRuleTheorem`, `MonitorBlocksTheorem` | `HardDenyAlwaysBlocks`, `LockedRuleFloor`, `MonitorBlocksOnlyByHardDeny` |
| `AllowlistIdTheorem`, `StricterOverrideTheorem`, `TrailTheorem` | `AllowlistIdExplainsAllow`, `StricterOverrideNeverWeakens`, `MonitorModeLeavesTrail` |
| `Refinement` | `Spec => ImplementsPolicyDecision` |
| `TypeCorrect`, `ExclusionCorrect` (`AuditFile_proofs`) | `TypeOK`, `MutualExclusion` |
| `OneRecordCorrect`, `AckedReadableCorrect`, `SnapshotCorrect` | `OneRecordPerLine`, `AckedReadable`, `LockedSnapshotTail` |
| `OneLossCorrect`, `LogRefinement` | `OneLossPerKill`, `ImplementsAppendLog` |
| `Invariance` (`AuditReader_proofs`) | the inductive invariant of the scan |
| `ReaderTypes`, `Bounded`, `Counted`, `Returned` | `ReaderTypeOK`, `MemoryBounded`, `CountersExact`, `NewestReturned` |
| `HookCorrect` (`HostBridge_proofs`) | the inductive invariant of `run_hook`, from which the next ones follow |
| `HookTypeCorrect`, `DenyTheorem`, `AskTheorem`, `PermittedTheorem`, `RecordTheorem` | `HookTypeOK`, `DenyBlocks`, `AskNeverRunsUnasked`, `PermittedRuns`, `RecordedOrAnnounced` |
| `HookComposed` (`HostBridge_proofs`) | `BridgeSpec => HookSpec`: beside the bridge the process is still `run_hook` |
| `BridgeCorrect` | the inductive invariant of the bridge beside the process |
| `BridgeTypeCorrect`, `RunTheorem`, `LateTheorem`, `BlockTheorem`, `OrphanTheorem` | `BridgeTypeOK`, `ToolRunsOnlyIfPermitted`, `LateAnswerDropped`, `BlockExplained`, `NoOrphan` |
| `TypeCorrect` (`PolicyLoad_proofs`) | `TypeOK` |
| `RuleIdsUnique`, `DiskInForce`, `LoadRefines` | `UniqueRuleIds`, `DiskPolicyInForce`, `ImplementsEffectivePolicy` |
| `UpdateTypes` (`Update_proofs`) | `TypeOK` |
| `VerifiedIsExecuted`, `ExitCodeHonest`, `ScriptKept`, `NoDowngrade` | `ExecutedAsVerified`, `ExitHonest`, `KeptForInspection`, `NoSilentDowngrade` |
| `Invariance` (`InitInstall_proofs`) | the inductive invariant of `ptuf init`, from which the next ones follow |
| `InitTypes`, `RollbackTheorem`, `ContentTheorem` | `TypeOK`, `TreeRestored`, `HostContentKept` |
| `RerunTheorem`, `InstallTheorem`, `GuardTheorem` | `RerunIdempotent`, `InstalledMeansGuarded`, the action property `GuardKept` |
| `ParsedHolds` (`ShellParse_proofs`) | once the line is parsed, `bash` is what it is parsed into |
| `NothingIsLost` | `NothingLost`, for every set of lines and every nesting budget |

Each says of its specification that the property is invariant (or, for the
refinement, implemented) for every value of the constants that meets the named
ASSUMEs of the module: well-formed configurations and requests and a natural
number of rules; a process for each thread, at least one piece per record,
natural bounds; snapshots that are sequences of bytes, filters that are sets of kinds, natural
limits and chunks of at least one byte; adapters that exist, well-formed calls; lists
of agents that are not empty and name each agent once (`run_init_with` takes the one asked
for or those `detect_agents` found, and exits before the loop when there are none; an agent
listed twice could fail and then succeed, and exit code 1 would no longer mean that
one was not installed); lines whose tokens are grammatical, whose commands have an identity and
carry lines of `Bodies`, and a natural budget. The bounds (`MaxCalls`,
`MaxRecords`, `MaxKills`, ...) are arbitrary naturals in the proofs.

How the arguments go:

* **DecisionEngine.** The decision is taken by a loop that collects survivors and
  hits while the clock moves. `LoopInv` says what the collections hold after
  `next - 1` turns, as a set comprehension over the rules seen; `AnswerInv` that an outcome
  comes from a whole loop. The properties then are statements about sets, and
  `MinIn` and `MaxIn` say that the `Min` and
  `Max` by which the code's "first" and "strictest" are written exist. The refinement maps the loop to
  stutters and `Finish` to `Answer`; its content is that demotion of each
  decision followed by `aggregate` is the strictest voice.
* **AuditFile.** `MutualExclusion` is not inductive: a thread in the critical section needs
  to be the Mutex's holder in its process and its process the lock's holder
  (`Locks`). `Content`, relative to `Locks`, says that every line is of one
  record already begun and only the last may be torn (`LinesInv`), that a
  record not yet begun is nowhere (`FreshInv`), that a writer's own fragment is
  the last line and as long as it thinks (`TailInv`), and that what has been reported
  as written is a whole line (`DoneInv`). `FreshInv` is what keeps two records out
  of one line, and `TailInv` what makes the last write complete the record.
  `LockedSnapshotTail` adds that while a reader holds the shared lock no writer is
  between its lock and its unlock. `OneLossPerKill`: a record without an answer is that of a
  writer inside `record`, and of the threads of one process only the one that holds
  the Mutex has bytes in the file, so a kill takes at most that one. The
  refinement (`LogRefinement`) rests on `Once`: no record has bytes in two lines, so
  each enters the log at most once, behind all that are there.
* **AuditReader.** The buffer is the open line of the file cut after the bytes seen
  (`LineOf(snapshot, Seen + 1)`), or the mark that this line is too long; the counters
  are the `Tally` of the lines that end among them; the window is that of the
  matching lines that end there. `Longer` and `Ended` say what a piece without
  and with a newline does to the open line, `WindowStep` what one more match does to the
  newest `limit`. At the last byte the cut file is the file.
* **HookProcess.** `EarlyInv` says that nothing is emitted before the engine has
  decided, `DecidedInv` that from then on the decision is what the call
  deserves and the answer is its envelope, `RecordInv` that the record or its
  warning precedes the answer. What a host makes of it is then a case
  analysis over the adapters.
* **HostBridge.** Every step of the composition is a step of the process or
  leaves it alone (`HookSimulated`), so `HookInv` carries over. `RunInv` says what a run,
  a prompt and a block rest on: while the process lives the answer is incomplete,
  and what is lost stays lost.
* **PolicyLoad.** `Reading` says which scopes have been looked at and that a
  layer is what was read, confined; `Folding` that the configuration so far is, key by
  key, the value of the highest scope merged that sets it, and its lists those of the
  merged scopes in order; `Loading` that the rules loaded are those of the
  plugins before `next`, with distinct ids, as long as nothing was edited. A merge
  step adds one scope on top, which is where confinement matters: a path
  that was dropped must not count as set. The refinement maps every step of the
  three loops to a stutter or to `Read`, and the last one to `Ready` or `Fail`.
* **Update.** `RunInv(p)` follows the plan: what is decided before the install
  (`Chosen`), that the directory is the run's own from `MakeDir` on (`Owns`), that it
  holds a whole script of the right release from the download on (`HasScript`),
  accepted from the check on. No other run disturbs it, because two runs that own
  directories own different ones: `MakeDir` takes only what is not there, and
  `OtherUser` cannot write in a directory that is not his.

* **InitInstall.** None of the properties is inductive by itself: what a rollback
  restores depends on what was captured, that on what the tree was when the turn began,
  and what is reported on what was read long before. The invariant (`IInv`) has
  a part for each: `PlaceInv` where the turn is; `ReadInv` that memory holds exactly the
  files of the plan's reads that are behind; `ContentInv` that what it holds of a file
  of ptuf's own is what the file was when the turn began, and of the host's no less than what
  a merge keeps (`Kept`) of what was there when it was read;
  `RollbackInv` that a restore has put back every file before `step`, or knows it
  could not; `OverInv` that what is reported installed is there, `TurnInv` the same of the
  steps of this turn; `ReportInv` that the exit code is that of the turns that are over.
  `PlanShape` is all that is used of the adapters: a file is read before it is
  written or removed, no target is left out, the legacy plugin goes last. A rollback
  could undo what another agent was told, or what an earlier run installed:
  it does not, because no two agents share a file (`TargetsApart`), and because an agent
  installed before finds nothing to write (`RerunIdempotent`) and is not rolled back.

* **ShellParse.** `NothingLost` is about the step `Parse` (the others leave the line and the
  facts as they are), so its proof is about what the
  functions of the parser compute for every input. A layer hands the next one what that
  rests on. The split: every segment is `Whole`, its commands and the current one's are
  those of the tokens read, no word follows a command or redirects (`SplitFacts`). The join: whichever segments it joins,
  it drops only the closing words at their front and adds only pipes
  (`KeptFacts`, `AddSegmentFacts`), so no command is lost however wrongly the extent of a group were
  computed: that `Joined` is the right set is no part of this theorem, but of `FlowMatched` and
  `StatementsApart`. The words: between two pipes only the last can be more than a reserved word, and
  peeling stops there (`WordsFacts`, `HeadWordIsLast`). The line: each of its commands has an argv that
  `Reads` it, each argv `Stands` for one, or for one that a sink brought up from a carried line
  (`PipelinesFacts`). The recursion: a command m levels down is read with m
  levels less of the budget. Because a sink's commands become stages of the line that carries it,
  an argv can be less deep than the command it reads; `Founded` therefore
  speaks of some level of the line and of the budget that is left there, `NothingMissed`
  of an argv no deeper than the command, and neither of equal depths.

  The library's induction theorems take an operator, which these provers
  cannot instantiate. The proofs use induction over a set, the numbers up to a bound that have
  the property (`UpTo`, from the well-foundedness of strict inclusion on finite sets); that a recursive function
  satisfies its equation is proved by it for each one (`SplitDef`, `JoinDef`, `WordsDef`,
  `FlattenDef`, `InnerShellDef`, `LevelsDef`, `ReachedDef`).

Only model-checked so far: `FlowMatched` and `StatementsApart` of `ShellPipeline`,
`WritesSeen` and `NothingElseFlagged` of `SelfProtection`, and that the tokens of a tree are those of its
commands (`TokensAssumption`). They compare the parser with a walk over the tree of the line,
which is a RECURSIVE operator over a structure without a bound: no module that is
proved about can use one. Liveness under fairness
(`NoWriterStuck`, `CallSettles`, `HungOpenCodeChildDies`) is out of the prover's reach too.

## 5. Plan

Order: first what decides and records, then what makes an answer an effect, then
what installs it, then what feeds the engine and what replaces it. Done:
`DecisionEngine`/`PolicyDecision`, `AuditFile`/`AppendLog`, `AuditReader`,
`HookProcess`, `HostBridge` (composed with `HookProcess`), `InitInstall`,
`PolicyLoad`/`EffectivePolicy`, `Update`, `ShellParse`, `ShellPipeline` and
`SelfProtection` (each composed with the one before); proofs of all but the last two.

What is left, in order:

1. `PolicyLoad` composed with `DecisionEngine` through `Configs`; the remaining
   conditions of the plugin language, which need an abstraction of strings; literal
   output and prefix wrappers in `ShellParse`; `AuditReader` over a file that `AuditFile` wrote; the calendar
   arithmetic of `audit/time.rs` over a bounded range.

## 6. What the violated runs show

| Run | Statement | What happens |
|---|---|---|
| `bridge_pi_kill` | `README.md:371`: a hung hook is aborted, then SIGKILLed | in Pi the abort rejects the promise first and `finally` clears the kill timer; a hook that ignores SIGTERM lives on |
| `init_mid_loop` | `docs/design/cli-and-hooks.md:307`: a crash of the install loop is rolled back | an error of the second write leaves the first in place: `?` returns before the rollback |
| `init_exact` | `src/init/mod.rs:265`: restore puts the tree back exactly | every restored file gets mode 0600 |

More disagreements were met while modelling and need no run to see: a Deny beside
an allowlist hit is recorded even without `includeDenied` (`src/engine/mod.rs:429` or-s
`should_record` with the hits), where `docs/design/audit.md:63` says a Deny is
recorded only with it; `docs/install.md:362` says `--force` is required to roll
back to an older tag, and an unpinned update to a `latest` that is older is not refused
without it;
the comments of `join_piped_groups` and `RawSegment::reads_group_output`
(`src/facts/shell.rs:1828` and `1758`) say a compound command on either side of `|` is one stage, and its
output the next one's input, which is not so of `(curl URL) 2>/dev/null | bash`, and the
`shell.pipeline` condition does not match `echo $(curl URL | sh)`, a pipe within a substitution; `walk_shell` follows
a `cd` that was skipped or failed (`src/self_paths.rs:811`), so that `true || cd /tmp; cp x
.claude/settings.json` is read in `/tmp` alone;
`ensure_hooks_enabled` (`src/init/codex.rs:170`) replaces a `features` that is not a table;
Cursor's Allow and Monitor are answered `{"permission":"allow"}`, where
`docs/design/architecture.md:123` says stdout is empty; an oversized payload is a
deny that exits 2, where line 197 of that file says 1 (line 242 says 2); OpenCode's
install removes the legacy plugin while it reports `AlreadyPresent`, and a failed
check does not bring it back, where `docs/design/cli-and-hooks.md:517` says no file is
touched.

`GuardKept` leaves out the steps of `restore`: rolling back OpenCode removes the
new plugin before it puts the legacy one back, so a crash between the two
leaves neither. The documents promise nothing for a crash during a rollback.

## 7. Not modelled

* **String functions without state**: the shell lexer, assignments and
  expansion, URL, patch and git facts, rule bodies, the plugin conditions other
  than `shell.pipeline`, redaction, time conversion, argument parsing,
  rendering and wording, the text of merged documents. They are most of the lines of the
  repository (`src/facts`, `src/rules`, `src/cli/parse.rs`) and what
  they compute depends on characters, which a model of control abstracts;
  the repository tests them with properties and fuzzing.
* **Audit record** (`src/audit/record.rs`, `redact.rs`, `time.rs`): as above.
* **Self protection**: how the protected paths are collected from the environment and the
  file system; `..`, files that do not exist behind a link, sets and leading dots in
  patterns; `eval`, which runs in the shell itself.
* **Failures that nothing in the code tells of**: when stderr is closed the warning of a lost
  audit record is lost as well, so `RecordedOrAnnounced` is stated for a host that keeps it open;
  an edit the host makes between ptuf's read and its rename is lost, so `HostContentKept` is
  about what ptuf read.
* **Input adapters**: `HookProcess` knows that a payload is accepted or refused, not
  what an accepted one becomes.
* **npm distribution**: packaging.
* **A machine that loses power**: the code does not sync and promises nothing.
* **A panic**: one inside `record` poisons the Mutex, after which records are dropped;
  nothing in the model panics.

`PROJECT.json` says of each component what is modelled and what is not.
