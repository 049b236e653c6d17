# Octate: a TLA+ verification project

Octate reviews a change of a Git repository. It takes the diff of a scope
(staged, working tree, commit, range), collects static diagnostics and context,
asks one to three reviewer models and a critic model, filters and ranks what
they say, and ends with an exit code that may block a merge. It is written in
TypeScript; one process runs one review, with an optional terminal UI.

The repository also carries the tools its agents develop it with: `gsd-tools` and
`gsd-oc-tools` under `.opencode/get-shit-done/bin`, which keep a project's phases,
settings and learnings in the files of `.planning/`. They make up more than half of
the code, and unlike Octate they are run by several processes at once.

Paths below are relative to the repository, line numbers refer to the commit
the models were written against. `PROJECT.json` lists the runs, the mutants,
the source lines every definition stands for, the hazards and the theorems.

Contents: [1 Inventory](#1-inventory) · [2 Modules](#2-modules-and-how-they-correspond-to-the-code) ·
[3 Runs](#3-what-the-runs-check) · [4 Fairness and deadlock](#4-fairness-and-deadlock) ·
[5 Proofs](#5-what-is-proved) · [6 Findings](#6-findings) ·
[7 Known divergences](#7-known-divergences-without-a-run) ·
[8 Not modelled](#8-what-is-not-modelled) · [9 Plan](#9-plan)

## 1 Inventory

How a review flows, and who shares what with whom:

```
bin/octate -> cli.ts -> commands/review.ts  --- AbortController (SIGINT) ---+
                          |                                                |
                          v                                                v  signal
                application/review.ts (ReviewUseCase.execute)
   repository/scope.ts -> repository/git.ts          diff, files, contents
   repository/filter.ts, ignore.ts                   what is left out
   analysis/parser, symbols -> symbol index          symbols
   intelligence/graph, resolver                      references
   analysis/diagnostics -> subprocess.ts             linters
   intelligence/context                              the prompt's budget
                          v
                review/engine.ts: dag.ts -> dedup -> evidence-validator -> critic
                                  -> dedup -> ranking -> evidence -> decision-gate
                          |            |
                          |            +-- model/providers/nvidia.ts
                          |                  -> resilience.ts -> cache/pool.ts -> HTTP
                          v
                application/policy.ts (exit code), renderers/ (console, JSON, SARIF, TUI)
```

JavaScript runs one task at a time. What makes this program hard is not two
threads but what may happen in an `await`: a signal, a key, another review, the
user's next commit, a timeout, a child process that does not die, a file system
call that fails.

With the planning tools it is processes: agents in parallel worktrees call a
command each, whenever they like.

```
agent --- gsd-tools <command>              agent --- gsd-oc-tools <command>
          |                                          |
   route: --ws, session pointer                oc_config.json, opencode.json
          v                                    (no lock; backups and rollback)
   .planning/ or .planning/workstreams/<name>/
     ROADMAP.md                 (.lock)
     STATE.md                   (STATE.md.lock)      ~/.gsd/knowledge
     config.json                (.lock, or none)     (learnings; no lock)
     REQUIREMENTS.md, phases/   (mostly none)
```

A process may be killed at any step, also inside a lock, and a write, a rename or the
creation of a lock file may fail.

| component | state it keeps | operations | hard behaviour | what makes it correct |
|---|---|---|---|---|
| Model client (`model/providers`, `cache/pool.ts`) | pool queue, attempt and repair counters per call, timeout and caller signals | `generate`, `execute`, `runWithRetry`, `sleep` | retry loop nested in repair loop, slot held in backoff, timeout against abort against late answer | no request after an abort, an abort is not blamed on the provider, every call settles, requests are bounded |
| Reviewer DAG (`review/dag.ts`) | findings, warnings, raw counts, failed reviewers | `executeReviewDAG`, `runReviewer` | two branches settle in either order, `Promise.all` rejects while one goes on | a return accounts for every reviewer; an empty review is never a clean one; abort is not degradation |
| Review command and use case (`commands/review.ts`, `application/review.ts`, `cli.ts`) | stage, signal count, exit code | nine awaits, two SIGINT handlers, `handleError` | a SIGINT or a failure in any await | exit code 0 is earned, a cancelled review gives no verdict, unverified findings stay inside |
| Finding triage (`review/dedup.ts`, `ranking.ts`, `evidence-validator.ts`, `critic.ts`, `decision-gate.ts`, `application/policy.ts`) | list of findings | cluster, validate, filter, consolidate, rank, gate | chains of overlaps, limits, merged findings nobody judged | nothing is lost by clustering, truncation drops the lowest, a block was approved |
| Disk cache (`cache/store.ts`) | directory, `currentSize`, `mutationQueue` | `set`, `get`, `delete`, `clear`, initialization | crash between write and rename, failing file system calls, overlapping mutations | accounting is exact but for the failures it swallows, entries are never torn, a failed `set` keeps the old value, the queue goes on |
| Interactive TUI (`renderers/tui`) | UI state, latest result, terminal mode, exit promise | keys, `updateResult`, re-review, traps | results replaced under the cursor, re-reviews nobody awaits, signals | terminal restored, `q` judges what is shown and ends the command |
| Diagnostics and subprocesses (`analysis/diagnostics`, `cancellation/subprocess.ts`) | pool, child processes | detect, `runTool`, `spawnWithSignal` | a child that hangs or ignores SIGTERM | limit on children, a cancelled collection settles, complaints are collected |
| Review scope (`repository/scope.ts`, `git.ts`, `filter.ts`, `ignore.ts`) | nothing but what it reads: status matrix, trees, files | resolve, diff, list, filter, read | the repository changes between two reads | diff, list and contents speak of one pair of trees; hunks tell the whole change to every reader |
| Context engine (`intelligence/`, `analysis/symbols`) | symbol index, reference graph, candidates, budget | index, link, collect, fill | limits: ten callers, four tiers, diff over budget | callers are shown, budget kept and shared |
| Configuration (`config/`) | none after the start | load, merge, validate | failing sources, precedence | later layers win, a broken layer is reported |
| In-memory LRU cache (`cache/lru.ts`) | a map and a linked list, `currentSize` | `get`, `set`, `delete`, `clear` | a long sequence of calls | map and list agree, the least recently used goes first |
| Model output (`model/schema`) | none | extract, coerce, repair | malformed answers | what is accepted satisfies the schema |
| Cache keys, identity, attribution, dependency graph | - | - | called by no part of the review | - |
| Doctor, init, prompts, logging, renderers | - | I/O and layout | - | - |
| Planning files (`phase.cjs`, `roadmap.cjs`, `state.cjs`, `milestone.cjs`) | phase directories, `ROADMAP.md`, `STATE.md`, `STATE-ARCHIVE.md`, `REQUIREMENTS.md` | add, insert, remove, complete, begin, plan, record, prune, sync, archive | read-modify-write by several processes, renumbering of directories, kills inside a lock | no update is lost, the files tell one story, executed plans and entries are kept, every command ends |
| Planning manager (`init.cjs`, `roadmap.cjs`) | none: what it reads | `init manager`, `roadmap analyze` | dependencies on phases shipped long ago | nothing to do means done |
| Workstreams, routing, settings (`workstream.cjs`, `config.cjs`, `core.cjs`, `verify.cjs`) | directories below `.planning/`, session pointers, `config.json` | create (with migration), complete, set, the `config-*` commands, `loadConfig`, health repair | files moved one by one with a rollback, unlocked rewrites | no work and no setting is lost |
| Model profiles (`gsd-oc-*`) | `oc_config.json`, `opencode.json`, their backups | `set-profile`, `update-opencode-json`, `allow-read-config` | two files changed one after the other | the agents run on the models of the profile |
| Learnings (`learnings.cjs`) | `~/.gsd/knowledge` | copy, prune, delete | create-then-fill, overlapping copies | what was stored is kept, once |

## 2 Modules and how they correspond to the code

One action is what runs between two points at which something else can come in
between: two awaits in Octate, two calls of the file system in the planning tools.
A check or a reaction that runs in the same task is part of its action.

### Octate

| module | models | variables and actions | abstracted |
|---|---|---|---|
| `ModelCalls` | the interface `ReviewModel.generate(request, signal)` | `settled[c]`, `aborted`; `StartCalls`, `SettleCall`, `AbortCalls` | prompt and answer to four outcomes |
| `ModelClient` | `nvidia.ts` over `resilience.ts` over `p-limit` | `phase`, `queue` (of the pool), `attempt`, `repairs`, `timedOut`; `Enqueue`, `Admit`, `RespondValid`, `RespondInvalid`, `TimeoutFires`, `Fail`, `Wake`, `AbortSleep` | HTTP answers to classes of errors, delays to timers that may fire at any time |
| `ReviewTriggers` | the triggers of the reviewers (`heuristics.ts`) | operators on a change | a file to what the heuristics see in its path and symbols |
| `ReviewDag` | `executeReviewDAG` | its locals `findings`, `warnings`, `failed`, and where it stands; `FastPath`, `Start`, `StructuralDone`, `BranchDone` | the change to the reviewers it triggers |
| `ReviewBounds` | - | the constant the DAG and the command share | - |
| `Configuration` | `loadConfig`, `loader.ts`, `schema.ts`, the error classes | operators on five layers | two settings of one section stand for all |
| `ReviewCommand` | `runReview`, `ReviewUseCase.execute`, `ReviewEngine.run`, `executeCriticStage`, `handleError` | `stage` is the await the program is in; an action per await, `FirstSigint`, `SecondSigint`, `Fault` | findings to whether there are any |
| `Findings` | `dedup.ts`, `ranking.ts` (pure) | union-find, merge, scores, stable sort, truncation | one file; texts to titles and lengths |
| `FindingTriage` | stages 2 to 6 of the engine and the policy | `raw`, `candidates`, `answer`, `ranked`, `disposition`, `exitCode`; `Deduplicate`, `Critic`, `Rank`, `Gate`, `EvaluateExitCode` | checks on texts to one flag each; the files evidence names to five statuses |
| `CacheStore` | `cache/store.ts` | `disk`, `currentSize`, `queue` and the locals of the running mutation; one action per file system call that changes something, `Crash` | contents to size, creation time, wholeness; what a swallowed failure hides to sets of files that are not counted or not listed |
| `LruCache` | `cache/lru.ts` | `cache` (the map), `order` (the list), `currentSize`; one action per method | a node to its size |
| `TuiSession` | `renderer.ts`, `app.tsx`, `state.ts`, `terminal.ts` | the reducer's state, `latest`, `quit`, `altScreen`, `review[r]`; one action per key, per end of a review, per signal | layout and what panes show |
| `Diagnostics` | `collectDiagnostics`, `runTool`, `spawnWithSignal` | `tool[t]` is the promise, `child[t]` the process | output to whether it is kept |
| `LineDiff` | the line diff of `git.ts`, `filterDiffToFiles`, and the three readers of a diff (pure) | LCS walk, hunks, headers; `ParseDetailedDiff`, `ContextRanges`, `HeuristicRanges` | lines uninterpreted |
| `ReviewScope` | `scope.ts`, the scope functions of `git.ts`, the filters | `commits`, `refs`, trees, `seen` (what the current pass read), `diff`, `files`, `contents`; one action per read; `Edit`, `Stage`, `Commit` are the user | file names to numbers, ignore patterns to verdicts |
| `ReviewContext` | symbol index, reference graph, import resolver, candidates, windowing, budget | one action per stage, one per tier | text to declarations, imports and mentions; a line is a token |

Composition. `ReviewDag` is an instance of `ModelCalls` with the three
reviewers as callers; `ReviewCommand` contains `ReviewDag` and a second instance
of `ModelCalls` for the critic, with one abort signal, and takes its settings
from `Configuration`. That `ModelClient` implements `ModelCalls` (property
`ImplementsModelCalls`, with its fairness) is what lets the DAG be checked
without the client. `FindingTriage` extends `Findings`, `ReviewScope` extends
`LineDiff`. `LruCache` shares nothing with `CacheStore`; `MCCacheStore` checks them
side by side in one run.

### Planning tools

| module | models | variables and actions | abstracted |
|---|---|---|---|
| `PlanningValues` | - | the values for what is not there | - |
| `PlanningFiles` | what a command makes of the phase directories, `ROADMAP.md` and `STATE.md` | operators: lookups, numbering, renumbering, completion, progress, pruning, synchronisation | a phase number to an integer and a decimal, with its spelling; a section to its checkbox, row, plans line and dependencies |
| `PlanningManager` | `roadmap analyze`, `init manager` | operators: status, current and upcoming phase, recommended actions | - |
| `PlanningProcess` | how commands run: the program of each (its steps in order), the two lock protocols, kills and faults | `lock`, `old`, `run[p]`, `killed`, `faults`; `Call`, `LockStep`, `Kill`, `Age` | time: a lock someone waits for may turn old, a wait has `MaxTries` tries |
| `PlanningTool` | the steps on phases, `ROADMAP.md`, `STATE.md`, `REQUIREMENTS.md` | `disk`, `archive`, `roadmap`, `state`, `required`, `pruned`; one action per file system call | text between sections |
| `PlanningSpace` | workstreams, routing, session pointers, `config.json`, health repair | `tree`, `pointer`; one action per file system call a command acts on | a work file to its text, a config to the keys set; settings no code treats in its own way stand for one another |
| `ProfileTool` | `gsd-oc-tools` | `settings`, `backups` | one agent for each kind |
| `KnowledgeStore` | `learnings.cjs` | `library` | a learning to its project and lesson |
| `PlanningProject` | the four together behind the same locks | `Step(p)` is a step of process p | - |

`PlanningProcess` holds the control (which steps, in which order, under which
lock); the modules that extend it say what a step does to the files. History
variables (`recorded`, `told`, `work`, `taught`, `usurped`, `together`, `lost`) only serve
the properties: `lost` collects what a failing write or rename has destroyed, `usurped` records that a lock was entered or freed against a
live owner, `together` which calls overlapped.

An operator directly above another, with a longer name and the same parameters
(`HeaderOfOldSide` above `Header`), is a mutant: a slip a programmer could make.
The specification does not use it; `PROJECT.json` pairs it with the property it
must break. Every property of a passing run has one.

## 3 What the runs check

| run | states | bounds | shows |
|---|---|---|---|
| `model_client` | 10,199 | 2 calls on 1 slot, 1 retry, 1 repair turn | `RequestsStayInBounds`, `AbortIsNotAProviderFault`, `EveryCallSettles`, `ImplementsModelCalls` |
| `review_command` | 137,584 | every change of one or two files, the DAG with 2 findings per answer, the critic's two calls, 2 SIGINTs, a fault in any await, 366 configurations | `ReturnAccountsForEveryReviewer`, `AnswersDecideTheVerdict`, `UnverifiedFindingsStayInside`, `CleanExitIsEarned`, `CancelledReviewHasNoVerdict`, `NoWorkAfterSigint`, `SettingsFollowPrecedence` |
| `triage` | 91,090 | all lists of up to 3 findings out of 15; some 14,000 answers of the critic; 1 slot in the result; 6 files evidence may name | `PreCriticSeparates`, `PreCriticForgetsNothing`, `TruncationDropsTheLowest`, `BlockNeedsApproval` |
| `cache_store` | 1,180,449 | 2 clients, 2 keys, 2 sizes, limit 2, `MaxClock` 0, `MaxCounted` 1; LRU: 3 keys, sizes 1, 2 and 5, limit 4 | `SizeIsExact`, `EntriesAreKeptWhole`, `SetMakesRoom`, `QueueIsServed`; `LruKeepsTheMostRecent` |
| `tui_session` | 118,918 | 3 results, 1 re-review, 2 SIGINTs, every key | `TerminalIsRestored`, `QuitJudgesWhatIsShown`, `QuitEndsTheCommand` |
| `diagnostics` | 100,752 | 3 linters on 2 slots | `ChildrenWithinLimit`, `AbortSettles` |
| `review_scope` | 1,264,856 | 2 files, 13 and 2 contents, 13 calls over 5 kinds of scope and 8 histories, 27 rule sets, 1 change by the user | `QuietReviewIsConsistent`, `DiffTellsTheWholeChange` |
| `review_context` | 248,832 | 4 files, 54 diffs, 32 sets of mentions, 3 sets of imports, 2 manifests, caller limit 2 | `BudgetIsShared`, `CallersAreShown` |
| `planning` | 697,441 | pairs of commands on small projects and some triples, 1 kill, 1 fault and one more in a rollback, 1 try per wait, 2 workstreams | the eleven properties of the planning tools, see below |
| `triage_fabricated`, `diagnostics_complaints`, `context_changed_body` | - | - | violated: see [Findings](#6-findings) |

The properties of `planning`:

| property | says | unless |
|---|---|---|
| `NoUpdateIsLost` | what a command read under a lock is what the file still says when it writes | the lock was usurped (a state lock that cannot be created counts as usurped: the code goes on without it), or the command reads before it locks (known) |
| `LockFileHasOwner` | a lock file is that of a call inside the lock, however other calls ended | its creator was killed, could create the file and not fill it, or a rollback of `workstream complete` put the file back |
| `EntriesAreKept` | a recorded entry is in `STATE.md`, in the archive or in the hands of the running call that prunes | usurped, late locking, two calls that prune, killed between the two files; cut from `STATE.md` before the append to the archive failed, or in a file that a failing write had emptied |
| `QuietPlanningIsConsistent` | between calls `validate consistency` has nothing to warn of, no number is taken twice, the current phase exists | disturbed (a usurped lock, a kill, a failing write), or phases were removed or archived |
| `NothingToDoMeansDone` | the manager runs out of actions only when all is done or one phase can never start; `roadmap analyze` has a current or next phase until then | phases were removed or archived |
| `ExecutedPlansAreKept` | an executed plan is only lost to a forced removal, `phases clear`, or a removal that looked before it was executed | - |
| `WorkIsKept` | no work file vanishes, whatever fails, is rolled back or killed; between calls what belongs together is together | two movers overlap; a file whose way back fails in a rollback is deleted with the target |
| `SettingsAreKept` | a setting `config-set` wrote is what `loadConfig` returns ever after | completed, usurped, raced by a command that writes unlocked, killed or failed between emptying and filling, shadowed by a key at the top level; of two calls that overlap, health repaired what the other had emptied, or a rolled-back create removed what the other wrote |
| `AgentsFollowTheProfile` | after calls that did not overlap, failed ones included, each agent runs on its model, the user's on their own | killed, or a first write failed |
| `KnowledgeIsKept` | what a copy stored can be read until it is removed, and once | (once:) copies overlap |
| `EveryCommandEnds` | every command ends, whoever was killed in a lock | - |

The exceptions are not conveniences: each is a behaviour of the code that the
model contains and that breaks the property without it, and section 7 lists it.

Why the bounds are enough for the questions asked:

- *Calls.* Two calls on one slot make one wait for the other, in its backoff and
  between its repair turns, where it queues again; one retry and one repair turn
  are the first iteration of each loop and the last one at once.
- *Reviewers* are all of the program's. Two findings tell "once" from "twice".
- *Configurations.* Each layer speaks of one setting, both or none, or is missing,
  invalid or out of reach; two directories are enough for the search upwards.
- *Findings.* Three are needed for a chain of overlaps A-B-C with A and C apart
  and for a union whose roots differ from its nodes; the limit of one slot makes
  every second non-critical finding compete. Evidence may lie on a changed line,
  elsewhere in the file, past its end, and in a changed file that only lost
  lines, an unchanged one with and without a link, a deleted, an excluded and a
  missing one.
- *Cache.* With limit 2 and sizes 1 and 2 a value fits beside another, instead of it,
  or only if both make room; `MaxClock = 0` gives all entries one `createdAt`, so that
  victims are taken in any order, which includes every order the clock could give. A
  set() may find any part of what it could evict, and the stat of an entry that is
  replaced may fail; each such failure makes the count larger without end, so it
  happens only while the count is at most `MaxCounted`: with 1, an entry of size 1 is
  counted twice and the count is over the limit. Three
  keys in the LRU cache make the middle of the list differ from its ends; size 5
  is over the limit.
- *TUI.* One re-review beside the first review gives both orders of delivery; a
  second one would only repeat that (and is in the proof).
- *Linters.* Three on two slots: the third starts into a slot an abort freed.
- *Scope.* Two files: what the readers of a diff can confuse is a deleted or
  binary file before another one and after it. Texts of up to five lines
  over two letters, with and without a final newline, make hunks at either end
  and in the middle, two hunks in one file and changes that share a hunk
  (`Around = 1`), both the LCS and the prefix/suffix script (`LcsLimit = 15`), and
  an empty file. The histories are those in which a merge base is an ancestor, one
  of the two, apart from both or missing. One change by the user is what makes two
  reads disagree; more would only be further disturbances, after which nothing
  is promised.
- *Context.* Limit 2 with three possible callers at three distances; a budget of
  26 lines, in which a tier overflows, a small item fits behind a large one, and
  a diff is over half of it.
- *Planning.* Every read-modify-write goes wrong between two processes or not at
  all; the third is for two that wait while a third is killed inside the lock. The
  projects are the smallest in which the numbering can go wrong: phases in order,
  shipped and parked (999.x) ones, a decimal, a directory without heading, a phase
  0, two plans in a phase; flat and with workstreams; profiles that are valid,
  unset, foreign, and one with a model nobody lists. On each project every pair of
  its list of commands is called, each command with itself included; left out are two pairs
  whose calls are the same and excepted by most properties (two completions of one
  workstream, and of one phase with pruning, at once), because they alone would be a quarter
  of the states. One kill and one fault can hit any step. A rollback is begun by a fault,
  and its renames back may fail as well, so there is one more in it (`FaultsAllowed`).

Properties are about what several steps or actors could break. `TypeOK` of a
module holds its types and the structural facts the others rely on.

## 4 Fairness and deadlock

Liveness is claimed where the code or its platform justifies it:

- `ModelClient`: the pool serves its queue, timers fire, a `fetch` whose signal
  fired rejects. Nothing is assumed of the provider: it may never answer.
- `ReviewDag`: reactions run; `generate()` settles, which is `EveryCallSettles`
  of `ModelClient`. (No run asks for its liveness: the command it runs in may be
  stopped in any await.)
- `CacheStore`: every file system call of a living process returns.
- `Diagnostics`: reactions run; a child that got a SIGTERM and does not ignore it
  ends. A child may hang.
- `TuiSession`: executions and loads end, a process without work terminates. The
  user need not press a key.
- `PlanningProject`: while some process can take a step, some process does. That is
  all an operating system owes; no process is promised its turn, and nobody has to
  call a command. `EveryCommandEnds` still holds, because every wait ends by itself.

`ReviewScope`, `ReviewContext`, `FindingTriage`, `ReviewCommand` and `LruCache` state
no liveness and need no fairness.

All configurations say `CHECK_DEADLOCK FALSE`: these systems stop. A review
returns, a process exits, every call has settled, the bounded number of
operations is used up.

## 5 What is proved

TLAPS checks eight modules of proofs. The only assumptions are those on the constants,
named in the modules that declare them; each says what the code's types and options
give, and TLC evaluates each on a run:

- `MaxFindings \in Nat` (`DagAssumption`); a finite set of calls, at least one slot
  and natural bounds (`ClientAssumption`); at least one slot and any number of
  linters (`DiagnosticsAssumption`); keys apart from temporary names, positive sizes
  and natural limits (`StoreAssumption`); natural sizes and a natural limit for the
  in-memory cache (`LruAssumption`); sources of a configuration in which only a file
  with YAML sets anything (`SourcesAssumption`); natural bounds and results in which an id
  names one finding (`TuiAssumption`);
- findings and files with the fields their schemas give them: files have a status and
  natural numbers of lines, changed lines lie within them, the file under review is
  changed and its hunk inside it; the options are within the ranges the
  configuration accepts (`TriageAssumption`, `FindingsAssumption`);
- "nobody" is no process and no workstream is called like one of the two lock files
  of `.planning/` (`ProcessAssumption`); a call is one of the commands and names a
  workstream where it needs one, the settings it may set are those of
  `VALID_CONFIG_KEYS`, a workstream is below `workstreams/`, where there are only
  directories; directories have finitely many files, each piece of work says whose it is,
  and what belongs together is in one directory; a phase directory has its
  fields and STATE.md its lists, a copy comes from a project and has sections to store, and each learning that
  is there at the start is there once, in a file no call has named; a profile says what
  gsd's agents run on, `oc_config.json` and `opencode.json` have their fields if they
  can be read, and the agents follow the current profile at the start
  (`SessionsAssumption`); a backup has a name (`ProfileAssumption`).

| module | theorem | statement |
|---|---|---|
| `ModelClientProofs` | `TypeCorrect` | `Spec => []TypeOK` |
| | `RequestsAreBounded` | `Spec => RequestsStayInBounds` |
| | `AbortBlamesNobody` | `Spec => AbortIsNotAProviderFault` |
| | `ClientImplementsCalls` | every step of the client is a step of `ModelCalls` or a stutter |
| `ReviewDagProofs` | `TypeCorrect` | `Spec => []TypeOK` |
| | `AnswersDecide` | `Spec => []AnswersDecideTheVerdict` |
| | `ReturnAccounts` | `Spec => []ReturnAccountsForEveryReviewer` |
| | `AbortNeverDegrades`, `AbortStartsNoReviewer` | once the signal is aborted no failure is recorded as a degraded reviewer, and no reviewer is called |
| `ReviewCommandProofs` | `AnswersDecide`, `ReturnAccounts` | the same, inside the command |
| | `CriticGuardsTheResult` | `Spec => []UnverifiedFindingsStayInside` |
| | `ZeroIsEarned` | `Spec => []CleanExitIsEarned` |
| | `CancelledEndsWithoutVerdict` | `Spec => []CancelledReviewHasNoVerdict` |
| | `SigintStopsTheWork` | `Spec => NoWorkAfterSigint` |
| | `SettingsAreLayered` | `Spec => SettingsFollowPrecedence` |
| `CacheStoreProofs` | `TypesAreKept` | `Spec => []TypeOK` |
| | `EntriesSurvive` | `Spec => []EntriesAreKeptWhole` |
| | `SizeIsAccounted` | `Spec => []SizeIsExact` |
| | `RoomIsMadeBySet` | `Spec => SetMakesRoom` |
| | `RecentValuesAreKept` | `LruSpec => []LruKeepsTheMostRecent` |
| `ReviewResourcesProofs` | `TypeCorrect`, `ChildrenAreLimited` | of `Diagnostics`: `Spec => []TypeOK`, `Spec => []ChildrenWithinLimit` |
| | `ScreenIsRestored`, `QuitIsFair` | of `TuiSession`: `TuiSpec => []TerminalIsRestored`, `TuiSpec => []QuitJudgesWhatIsShown` |
| `FindingTriageProofs` | `TypesAreKept` | `Spec => []TypeOK` |
| | `CriticSeesSeparateFindings`, `CriticSeesEveryFinding` | `Spec => []PreCriticSeparates`, `Spec => []PreCriticForgetsNothing` |
| | `WorstFindingsAreKept` | `Spec => []TruncationDropsTheLowest` |
| | `OnlyApprovedFindingsBlock` | `Spec => []BlockNeedsApproval` |
| `PlanningProjectProofs` | `LocksAreOwned` | `Spec => []LockInv`: two calls are inside one lock only if it was usurped |
| | `LockFilesAreOwned` | `Spec => []LockFileHasOwner` |
| | `UpdatesAreKept` | `Spec => []NoUpdateIsLost` |
| | `EntriesAreSafe` | `Spec => []EntriesAreKept` |
| | `ExecutedPlansAreSafe` | `Spec => ExecutedPlansAreKept` |
| `PlanningSpaceProofs` | `KnowledgeIsSafe` | `Spec => []KnowledgeIsKept` |
| | `AgentsAreServed` | `Spec => []AgentsFollowTheProfile` |
| | `SettingsAreSafe` | `Spec => []SettingsAreKept` |
| | `WorkIsSafe` | `Spec => []WorkIsKept` |

All follow one plan: an inductive invariant (`Init => I`, `I /\ [Next]_vars => I'` with
one step per action) and `I =>` the property. What the invariants add, and why:

- *Client.* A bound on all requests of a call says nothing of a call in the middle.
  `Sent(c)` bounds them by the repair turns and attempts used so far, phase by phase;
  that a repair turn keeps it needs `TurnsGrow` and `TurnsWithinBudget`, facts about
  a product. `QueueFits` says that only waiting calls are in the pool's queue, each
  once, so that admitting one does not disturb another. For the refinement,
  `settled[c]` is mapped from `phase[c]` and `result[c]`; a call that settles is one
  `SettleCall`, every other step stutters, and an abort maps to an abort.
- *DAG.* `AnswersDecideTheVerdict` speaks of the moment the DAG settles and says
  nothing of how `failed` came to be. `JoinedAfterSettling`, `FailedDidNotAnswer`,
  `FindingsFromAnswers`, `JoinedIsRecorded` and `StageFits` tie the bookkeeping to
  the promises. `Records` counts: findings per reviewer are `rawCounts`, a failed
  one has exactly one warning; it needs a lemma on the cardinality of the positions
  of a value in a sequence that is extended.
- *Command.* The invariants of the DAG are carried into the command rather than
  proved again: a step of the command is a step of the DAG or leaves its variables
  alone (`StepOfTheDag`), so all of them hold inside (`TheDagIsInside`).
  `DagHasItsTurn` says where the DAG stands at each stage, `CriticHasTheLastWord`
  that candidates pass only with the critic's answer, `SigintIsInTime` that a SIGINT
  ends the command with the await it came in.
- *Configuration.* A setting is merged layer by layer; `LayersWin` says that after any
  number of layers it is what the last one that spoke of it says, `LoadedLayers` that
  the layers that are merged are the ones the sources have, unless the command ends
  with an error, and the invariant (`SourceWaits`) only that the sources have not
  changed when they are read.
- *Cache.* `LocalsFit` ties the locals of the running mutation to the client at
  the head of the queue: what it evicts is not the entry it replaces, what it writes
  has a name of its own, and what it renames is whole. `Counted` relates the size the
  store keeps to the sum over the files that are there, with what the mutation under
  way has already changed, from both sides: not below it unless a failure left files
  out (`missed`), not above it unless a stat failed (`doubled`). A few lemmas say what
  a sum over a finite set does when one file is added, replaced or removed, or when the
  set is split (`SumOfParts`). `RoomIsMade` carries the outcome of the eviction loop to
  the rename: it ended with room, or what is left is torn, unlisted or replaced.
- *In-memory cache.* `LruGood` strengthens the property by what makes it inductive: no
  key is twice in the history of uses, so none is twice in the list, which is how that
  history begins. Lemmas on `RemoveFirst`, `Cons` and `SubSeq` carry "begins with"
  through every method, and the sums of the disk cache are used again for the sizes.
- *Diagnostics.* Slots are not children: an abort frees slots while children live on.
  `SlotsAreHeld` counts the tools about to spawn together with the living children;
  until the abort each living child has its slot, and after it no more tools get as
  far as spawning one than already held a slot.
- *TUI.* `QuitIsJudged` keeps what was judged when the user quit, `ShowsTheLatest`
  that what is on the screen is what the verdict is computed from.

- *Triage.* `TInv` describes what each stage hands to the next. Clustering is a
  union-find over positions: its forest has roots that are smaller than their nodes
  and its classes have no gaps, because the findings are sorted by file and line, so
  two findings of one file that overlap end in one class and the merged finding spans
  it. Ranking is a strict weak order, so a prefix of the ranked list holds the worst.
  A finding that blocks has passed every stage with the critic's word on it.
- *Planning: the locks.* Every command is a program of steps. `Modes` colours each
  program with what a call has in hand before each step: nothing, a lock, or what it
  has read under one; `Leads` says which step leads from which colour to which, and
  `ProgramsRun` that all 38 programs begin and end with nothing in hand. A step that
  is not about a lock is *local*: it goes on in the colours, jumps outside of the
  locks, or ends the call and leaves them (`Local`), and every action of the four
  modules is shown to be local or a step of the lock protocol. `LockInv` then needs
  no program by name: a lock file is that of a call inside the lock, of a killed one, or
  `Stray` (a failed write or a rollback left it), and a call inside a lock that nobody
  usurped owns its file. That holds at a creation that fails too: the planning lock's
  ends the call, the state lock's counts as usurping it. `ReadsStand` adds
  that what was read under such a lock is what the file says.
- *Planning: entries.* Only `phase complete` and `state prune` take entries out of
  STATE.md, at known places of their programs (`PrunePlaces`). `CutFits` says that a
  call has something cut only behind its own write, `FiledFits` that what it has read
  of the archive is still there when it writes, and `EntriesInv` that every entry is
  in one of the three places or in `lost`, where only a failing write puts it. It stands on `UpdatesAreKept`: the body that is
  written is the one that was read, so every other command only adds.
- *Planning: executed plans.* `PlansInv` says that a removal that has come to delete
  has looked first (`LookedAt`), and that directories keep their fields; `Grows`
  that every other step leaves each directory its name and its summaries.
- *Planning: learnings.* That a copy stores nothing twice is decided at its last look
  before it creates a file. `SearchFits` says that the text it is searching for is in
  no file it has looked at, `NewFilesFit` that the files a copy has yet to create are
  not there and the one it has just created is still empty, and `TogetherFits` that
  calls on the store that run at once have been noticed: while none was, nobody else
  can have stored that text behind its back (`LearntOnce`).
- *Planning: profiles.* Between the two writes of `set-profile` the profile and the
  agents disagree, so `AgentsFollow` is no invariant of the steps. `ProfileInv` says
  what holds instead, for calls that run alone: from its backup on a call can put back
  what it has kept and leave the files fit (`CanUndo`, over any settings in between
  that differ in what it writes); if it has kept nothing there was no profile to keep,
  which is why a failed first write is excepted. `ChoiceFits`, `BodyFits` and
  `TextFits` follow what it has read through its locals: the profile that will be
  current, what the agents will run on, and the user's agents. `After` gives the step
  that follows each step, so that the proof has one lemma per action instead of one
  per place in four programs.
- *Planning: settings.* A `config.json` is written by nine commands, and what one writes
  it has read some steps before. `Fits` says what a call has in hand before each step: a
  copy that says all that was set in that directory and is owed an answer (`Holds`), or,
  before it writes the defaults, that nothing is owed there (`Voided`); `Follows` and
  `Linked`, proved of each program block by block, say which step it may be at next.
  `Excused` collects what the property excepts and is shown to stay once it holds, so
  that a call may rely on it later. That two calls of config-set do not overwrite each
  other needs `StreamOwners`, the part of `LockInv` for the locks of workstreams, whose
  lock files move and vanish with their directories; that a directory's file survives a
  migration needs `MovesFit`: create moves work and no settings. A rewrite that fails
  on an emptied file is among the `Excused`, as a kill at that place is.
- *Planning: work.* Create and complete move files one by one, and undo it when one
  move fails; then the target goes with everything in it. `Placed` says before each step
  what lies where: nothing at the target before the first move and before it is
  removed (`NoWork`), and while files move, whatever is work at the target is in the
  list of what has been moved, and has left a place to go back to (`AwayFrom`), unless its way back failed and it is
  in `lost`; what is
  still to be moved is in the other list (`LeftIn`), so that the workstream is removed
  only when it is empty. That the target is fresh rests on the loop that picks the
  archive's number (`FreeArchive`: among finitely many directories one number is free)
  and, for create, on `workstreams/` not being there (`StreamsInside`, of the settings).
  `StepAfter` gives the step that follows each step of the two programs. In the middle
  the files of one project are in two directories, so "together" is no invariant of the
  steps: `Gathered` adds that a living call still `Bears` them, and `WorkGoesOn` that
  it goes on until they are in one place again. `MenderFits` is for health: the STATE.md
  it writes anew was not there. All other commands write no work at all (`OthersWork`).

Three things about the model came out of these proofs. `update`, a command on STATE.md,
shared its name with one of gsd-oc-tools, and the table of programs held only one of
the two: the latter is called `rewrite` now. `NewState` had two alternatives that
were both true when `phase complete` prunes. And `SettingsFollowPrecedence` said
that no invalid variable of the environment is passed over, which is false for one that
the command line overrides: no run had one, the proof could not do without it, and a
run has one now.

Only model-checked:

- liveness under fairness (`EveryCallSettles`, `QueueIsServed`, `QuitEndsTheCommand`,
  `AbortSettles`, `EveryCommandEnds`) and the fairness part of the refinement: out of
  the prover's reach, like everything about ENABLED;
- what RECURSIVE operators and folds compute: the LCS table (`review_scope`), budgets
  (`review_context`). (Where a recursive *function* had to be reasoned
  about, as in the sums of the cache and the classes of the triage, the induction is
  by the least counterexample, which needs no operator as a parameter.)
- of the planning tools, the numbering (`QuietPlanningIsConsistent`,
  `NothingToDoMeansDone`);
- `TypeOK` of the command and the TUI, of which the proofs only need parts.

## 6 Findings

Three runs are expected to end in a violation; the property quotes what the
repository says, the counterexample shows what the code does.

1. `triage_fabricated`: a finding on a line past the end of its file survives the
   gate, and may block, if its evidence is valid. The gate looks at the list of
   invalid evidence only; the anchor's fault is in `isValid` and `issues`
   (`src/review/decision-gate.ts:133`, against the comment at line 10).
2. `diagnostics_complaints`: the output of a linter that exits with 1 because it
   found something never reaches the review: `spawnWithSignal` rejects every exit
   code but 0 (`src/cancellation/subprocess.ts:150`, against `tools.ts:224`).
3. `context_changed_body`: a declaration that changed below the line of its name
   is not a changed symbol: the symbol's range is that of its name's node
   (`src/analysis/symbols/index.ts:99`, against `candidates.ts:73`).

## 7 Known divergences without a run

Met while reading; each is either contained in a model (M) as the code has it,
or lies outside of what is modelled.

Review command and model client
- `isAbortError` (`dag.ts:164`) and `handleError` (`cli.ts:109`) go by the text of an
  error: a provider's "connection aborted" ends the review as a cancellation (M).
- A SIGINT in the gate, in rendering or for a scope that turns out empty ends
  with 0 or 1 instead of 130 (M); a SIGINT or failure in a re-review ends with 5 (M).
- `bin/octate` calls `process.exit` for non-zero codes only.

Triage
- `introducedByPatch` and the critic's decision are written by the model and not
  checked against the candidates (M); consolidation is a single pass, so merged
  findings may overlap others (M).
- Any evidence in a changed file that only lost lines counts as a changed line (M).
- `attribution.ts`, `FileFilter.analyzeFile`, the dependency graph with
  `detectCycles`, the serializer, both LRU caches and, but for `doctor`, the cache
  keys are called by no part of the review.

Cache
- `lru.ts:55`: `set()` of a value larger than the cache on a key it holds unlinks
  the node but leaves it in the map; `get()` goes on returning the old value and takes
  the node out once more, which empties the list (M: `displaced`;
  `LruKeepsTheMostRecent` excepts it).
- A torn temporary file is counted and cannot be evicted, so the cache may stay
  over its limit (M: `SetMakesRoom` excepts it). So may entries `collectEntries` cannot
  read: a listing that fails is an empty one, and the set() succeeds over the limit
  (`store.ts:294-316`; M: excepted). An old entry whose stat fails is taken for no
  entry, and stays in the count after it is replaced (`store.ts:147`; M: `doubled`);
  a directory that cannot be read at the start is not counted (M: `missed`). Victims are taken by creation, not
  by use. Two processes on one directory each keep their own count.
- The comments on `iterate` and `drain` in `cache/pool.ts` promise more order than
  `p-limit` gives.

TUI
- `README.md:140` says that `r` reviews the latest edits; re-reviews are not
  serialized and the one that ends last is shown (M).
- The SIGTERM trap (`terminal.ts:75`) removes the default action; a modal opened
  behind the progress view takes `q` (M).

Diagnostics
- The SIGKILL timers of `spawnWithSignal` (`subprocess.ts:93`) never fire, because
  `child.killed` is true after the first signal (M); no linter has a timeout.
- `tsc`, `mypy` and `pytest` are parsed as JSON, which they do not print;
  `commandExists` is true for every tool with a name.
- `orchestrator.analyzeFiles` swallows an abort of the diagnostics.

Scope and diff
- A scope named by HEAD or a branch is resolved again in every pass, although
  `git.ts:889` speaks of the exact snapshot (M).
- `ignore.ts:107` appends the critical directories last so that nothing includes
  them again; `FileFilter` and workspaces append patterns once more (M). Ignore
  files are read from the work tree for historical scopes as well.
- `parseDetailedDiff` puts the lines a deleted file lost down to the file before
  it, and the context engine its line 0 (M; nobody reads the first, no symbol is
  on the second). An added line that begins with `++ ` is taken for a header.
- The "No newline" marker follows a context line if either side lacks the newline
  (`git.ts:597`).

Context
- `engine.ts:100` splits an oversized diff at `diff --git `, which `git.ts` never
  writes: it is cut at a line, and a file all hunks of which are cut counts as
  changed altogether (M).
- A callee's snippet shows its caller (M); a second declaration of one name and
  kind is dropped (M); two imports of one name spend two of the ten callers (M);
  `getTestsForFile` of a test returns what it tests (M); an import spread over
  lines is not seen (M); selected context plus diff may exceed the budget.
- In TypeScript the specifiers `.` and `..` are resolved as in Python; Python
  symbols are never exported; the heritage of JavaScript classes is lost.

Configuration
- An invalid global file is ignored, an unreadable one, like an invalid `OCTATE_*`
  variable, ends the review with 2 (M).
- `octate.yaml` is looked for from the working directory although `--dir` may name
  another repository; turbo and nx are not detected in a repository with npm
  workspaces.

Planning: locks and crashes
- Both locks are forced after the wait, and the holder is then not told: an update
  can be lost, although `state.cjs:939` says it cannot (M: `usurped`). The wait of
  `withPlanningLock` (10 s) ends before a lock counts as stale (30 s).
- `acquireStateLock` goes on without the lock when its creation fails for any reason
  but that it exists (`state.cjs:906`; M: counts as usurped). A planning lock that is
  created and cannot be filled is left behind by a call that ends with an error
  (`core.cjs:721`); the others wait for it, then force it (M: `Stray`).
- The check for a stale lock and its unlink are two steps; a lock taken in between
  is unlinked (M).
- `planned-phase`, `state sync`, `milestone complete` and the health repair read
  `STATE.md` outside the lock (M: `LateLocking`); `mark-complete` writes
  `REQUIREMENTS.md` without one (M); `loadConfig` writes `config.json` without one and
  in place (M).
- Pruning writes `STATE.md` before `STATE-ARCHIVE.md`: if the append fails, what was
  cut is in neither (`state.cjs:1566-1577`; M: `EntriesAreKept` excepts it). `phase remove` looks for
  summaries and deletes outside the lock (M).

Planning: phases
- After a removal, the loop that renumbers `ROADMAP.md` counts down from 99 and
  cascades: all later unpadded numbers, and the dependencies on them, end as the
  removed one (M; comment at `phase.cjs:656`). Decimals of later phases are renamed
  on disk but not in `ROADMAP.md` (M). A padded argument leaves the section and
  renumbers the rest (M). A conflict of names stops the renaming silently (M). The
  current phase is not updated (M).
- Directories with a project code are never renamed and belong to no milestone.
- Completing a phase twice counts it twice (M). The fallback of the next phase does
  not pass over the backlog (M). `**Plans:**` is matched by a prefix of the number (M).
- `state sync` counts all directories, `update-progress` those of the milestone (M).
  `phases clear` keeps the backlog's directories only (M). Rows of the metrics are
  never pruned (M).
- A half-executed phase is recommended by no action (M: `NothingToDoMeansDone`
  excepts it); a phase is added with a dependency on the number before it, which
  need not exist (M). Health warns (W011) after every end of a milestone.

Planning: workstreams, settings, profiles, learnings
- The rollback of a migration removes the target with everything in it: with two
  migrations or completions at once, or a rename back that fails and is swallowed
  (`workstream.cjs:57`, `314`), files are lost (M: `WorkIsKept` excepts both).
- A workstream that is completed while a command works in it is created again by
  that command's `mkdir -p` (M). Its lock file moves with the rest, so that the command
  has no lock any more, and the rollback puts it back, perhaps after the command has
  ended: then it is nobody's, and the next command waits until it is stale (M: `Stray`).
- `references/workstream-flag.md:76` calls `config.json` shared; `planningDir()` takes
  it from the workstream, so that after a migration settings fall to defaults (M).
- The health repair writes a flat `branching_strategy`, which `loadConfig` prefers to
  the nested one: a later `config-set` has no effect (M). The same holds of a flat
  `commit_docs`.
- The migration of a flat `multiRepo` turns a `planning.commit_docs` off that was set
  on purpose (`core.cjs:291`), which the comment at `core.cjs:355` wants respected (M).
- `loadConfig` swallows a rewrite that fails on the emptied file (`core.cjs:281`, `314`):
  all settings are gone, and every later command runs on the defaults (M:
  `SettingsAreKept` excepts it).
- `loadConfig` and health empty the file before they fill it, without the lock: a
  health call that looks in between replaces the settings by its defaults (M). A
  migration that is rolled back takes with it what was set in the workstream it had
  just made (M).
- An inline `set-profile` without an earlier `oc_config.json` is not rolled back; the
  rollback of the others restores whole files, and with them undoes what another call
  wrote (M); a failed write leaves a torn file, although
  `oc-profile-config.cjs:288` speaks of an atomic transaction (M).
- Overlapping copies store a learning twice; a killed or failed write leaves a file
  that nothing removes; pruning ends if another process removes a file first (M).

## 8 What is not modelled

- *Pure text*: prompts, JSON extraction and coercion, matching of patterns and
  paths, layout of every renderer, templates and frontmatter of planning files. They
  enter as outcomes (an answer is valid or not, a file is ignored or not).
- *I/O sequences without state*: doctor, init, logging, the clipboard; the planning
  commands that only list, check or print, and the `init` commands that collect
  paths for a prompt.
- *External*: tree-sitter, isomorphic-git's object reads, Ink, p-limit, Node's
  timers and the file system are modelled by what the code uses of them, and marked
  so in the map.
- *Dead code*: attribution, the dependency graph, cache keys.
- *Parts of modelled components*: renames (the diff never has one), file modes and
  locks in `git.ts`, references that do not resolve; several files of findings (dedup
  and ranking partition by file); several processes on one cache; TUI layout; letters
  and deeper decimals in phase numbers, custom ids, the quick-task and signal commands
  of `STATE.md`, the text of `MILESTONES.md`.
- *Failures of the planning tools that the models leave out*: writes, renames and
  creations fail, in their way back from a failure too; reads, stats, `mkdir` (but of
  a phase), `unlink`, `rmdir`, the writes of the session pointers and the deletion of
  phase directories do not. `atomicWriteFileSync` falls back to a direct write: one that fails may
  leave the file emptied (M), but that one which succeeds has emptied the file for a
  moment is left out, and a failed write of `REQUIREMENTS.md` leaves it as it was. `SettingsAreKept` and
  `EntriesAreKept` speak of what is lost for good, not of that moment.
- *One lock of `STATE.md`*: the `STATE.md.lock` of each directory is one lock in the
  model, and does not move when a workstream is completed; the `.lock` of each does. A
  directory that is gone fails the planning lock only (`LockInVain`).
- *Other commands of gsd-tools*: reports, scans, imports and templates, which write
  documents of their own, or none.
- *Hazards no property covers* are in `PROJECT.json` with the reason.

## 9 State of the plan

Done: the review, in the order model client, DAG, cache, triage, command,
TUI, diagnostics, scope (with branches and merge bases), context, triggers,
configuration, LRU cache; then the planning tools: files, processes and locks,
manager, workstreams and settings, profiles, learnings. Proved: the client and its
refinement, the DAG, the command, entries, sizes and room of the cache, the triage,
the limit on children, terminal and verdict of the TUI, the precedence of settings,
the recent values of the LRU cache; of the planning tools the
locks and their files, the updates made under them, the entries of STATE.md, the
plans that were executed, the learnings, the models of the agents, the settings and
the work that is moved.

What could come next:
1. `FindingTriage` over two files, so that the matching of paths by suffix and base
   name (`heuristics.ts:362`) can go wrong; findings on deleted files.
2. A proof of what is only model-checked of the planning tools: the numbering, which
   needs facts about folds over the phases.
3. `QuietReviewIsConsistent`, with the line diff abstracted; `BudgetIsShared` and
   `CallersAreShown`, with the recursive operators of the context as functions.
4. Several processes on one cache directory, each with its own count.
