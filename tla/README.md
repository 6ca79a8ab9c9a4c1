# Kstack verification

TLA+ models of Kstack, a collection of Pi extensions that publish, review and land stacks of
pull requests, run child agents, hold planning councils and keep session archives. Every module
is written from the code under `extensions/`; TLC checks small instances of it, and TLAPS proves
the theorems of the `*Proofs` modules for instances of every size. Paths below are relative to
the repository; `shared/` is `extensions/shared/`.

## Running it

    tlc -workers 2 -config PublicationLock_contention.cfg MCPublicationLock
    tlc -workers 2 -config Autopilot_run.cfg Autopilot
    tlapm PublicationProofs.tla

`PROJECT.json` lists the runs, what each shows, the lines of the code that each definition
stands for, the hazards the properties are aimed at, and for every property a faulty variant
of one definition (`\* Fault:`) that violates it. Small helpers whose lines lie inside those of
a definition in its map are not listed there.

# Inventory

Kstack is a set of single-threaded TypeScript extensions in one or more Pi processes. Nothing
runs in parallel inside a process, but every `await` is a point where other callbacks, the abort
signal, other processes, GitHub and people act. State that outlives a call is in the git or jj
repository, on GitHub, in lock files, in JSON and SQLite files, in the panes of herdr and, for the
length of a session, in the extensions themselves.

| Component | State | Operations | Interacts with | What makes it correct | Module |
|---|---|---|---|---|---|
| Repository publication lock, `shared/publication-lock.ts` | lock file, reaper file, pids | acquire, reap a stale lock, release | every publication, landing and council of every process | mutual exclusion; only stale locks are removed; stale locks are removed | `PublicationLock` |
| Stack transaction, `shared/stack/transaction.ts` | plan, confirmation, lock, outcome | plan, confirm, lock, re-plan, compare, apply, release | lock; the provider's plan and apply | what is applied is what was confirmed; honest outcomes; no lock kept | `StackTransaction` |
| GitHub publication, `github-stacked-prs/delivery.ts` | remote branches, PRs, progress | list, read, push, create, retarget, mark ready | transaction; git, gh | accounting agrees with the remote; others' commits survive; retries converge | `GitHubPublication` |
| jj publication, sync and inspection, `jj-stacked-prs/publication.ts`, `orchestrator.ts`, `stack.ts` | bookmarks, PRs, native stack | slice, plan, push, create, link, metadata, sync | transaction, gh, jj | as above; every line is cut once at each bookmark | `JjPublication`, `JjStack` |
| Commands, `jj-stacked-prs/process-runner.ts` | one child process, its result | spawn, collect, time out, abort, settle | git, jj, gh | a result claims an effect only where there is one | `ProcessRunner` |
| Graphite publication, `graphite-stacked-prs/delivery.ts` | Graphite's heads, PRs | submit, verify | transaction, gt, gh | an outcome names the PRs that are there | `GraphitePublication` |
| Land, one PR, `land/orchestrator.ts` | pinned head and base, status | inspect, ready, confirm, re-read, merge, poll | autopilot, GitHub, stack landings | only the reviewed head merges, into the reviewed base; honest report | `FrontierLand` |
| Stack landings, `github-stacked-prs/landing.ts`, `jj-stacked-prs/native-land.ts`, `land.ts`, `graphite-stacked-prs/landing.ts` | heads, bases, recovery refs, jj's operation log | merge, verify, rebase, push, repair bases, abandon, delete, advance | transaction, Land, `gh stack`, gt | bottom up; no PR that nobody retargeted loses its base; local history goes only after its PRs merged | `GitHubLanding`, `JjLanding`, `GraphiteLanding` |
| Land routing, `land/routing.ts`, `shared/stack/channel.ts` | the configured backend | one PR or the provider's landing | the four landings | no middle PR is merged alone; accepted merges are reported | `Landing` |
| Navigation comments, `shared/stack/topology.ts` | comments on the PRs of a stack | claim, adopt, update, finalize | GitHub comments | tables name the stack's members; others' comments survive | `StackNavigation` |
| PR autopilot, cycles, `pr-autopilot/driver.ts`, `autopilot-operations.ts` | record of retries, replies, handled items | triage, rerun, fix, reply, resolve | GitHub, child agents, git | nothing twice; nothing on an unreadable record; resolves only what it answered | `ReviewHandling` |
| PR autopilot, readiness, `observation.ts`, `pr-state.ts` | snapshots, verified head, budgets | observe, settle, poll, watch, mark ready | GitHub | merge-ready means two agreeing observations; the run ends | `PrReadiness` |
| VCS backends, `shared/vcs/` | checkout, branch, workstream | open, assert, update base, record, push | git, jj, gt; autopilot | results are true; no commit is lost; no forbidden path gets out | `PrMutation` |
| Planning council, `shared/council/` | `state.json`, ledger, `approved-plan.md` | start or resume a round, ask, vote, tally, override | lock; council host | an approval is earned; progress persists; rounds complete | `Council` |
| Hosted agents, `shared/herdr/agent-host.ts` | one pending request; panes | ask, deliver, resume, cancel; start, wait, clean up | herdr, skills, council | an answer is of its own request; panes are the host's | `HostedAgent`, `AgentHost` |
| Council host, `shared/herdr/council-host.ts` | manifest of seats | open, attach, close | herdr, people | a seat is asked in its own pane; no pane is left unaccounted | `CouncilSeats` |
| Children, `shared/child-agent-runner.ts`, `child-process-stop.ts` | a process group, a transcript | spawn, read, settle, time out, abort, stop | operating system | one settlement; what was stopped is gone or said not to be | `ChildRun` |
| Subagent sessions, `shared/subagent-sessions.ts` | session files, leases | reserve, spawn, finish, prune | other Pi processes | no session of a running child is pruned | `SubagentSessions` |
| Subagent history, `session-archive/subagent-history.ts` | tables | index, page | sessions, children that still write | a page is of nothing newer than what was found, and of no running child | `SubagentHistory` |
| Session archive, `session-archive/` | session files, SQLite catalog, restore journal | archive, restore, rebuild, recover | Pi sessions, other Pi processes | no text is lost; archived rows can be read | `SessionArchive` |
| Floor ledger, `openrouter-routing/floor-ledger.ts` | JSONL shards, append queue, pending lookups | append, prune, look up, flush | OpenRouter, other processes | limits hold; nothing within the retention goes; shutdown loses no known tier | `FloorLedger` |
| Handoff, `handoff/` | the published API, the new session, the prompt | prepare, create, choose a model, send, archive, read | session archive, Pi | the predecessor stays readable; the prompt is where the user finds it | `Handoff` |
| Console, `shared/subagent-console.ts`, `transcript-store.ts` | bounded transcripts, layout cache, scroll positions | note, emit, render, select, scroll, resize | children, terminal | bounds hold; what is cached is what is there; a scrolled view stays | `SubagentConsole` |
| Panes and parallel_agents, `shared/agent-pane.ts`, `parallel-agents/` | stack of runs, rows, workers | start, run a task, abort, shut down, return | console, children | rows tell results; the widget follows the runs; a task runs once | `AgentPanes` |
| Sessions and runs, `shared/session-lifecycle.ts`, `land/`, `pr-autopilot/index.ts` | generation, the running run, its controller | begin, end, abort, replace | all commands, Pi | the run that is known is the one going on | `SessionRuns` |
| Worktree plans, routing policy, steering swap, UI, configuration, skills, tools | none that outlives a call | - | - | - | - |

Hard to test, and therefore what the properties are for: the windows between a read and the
mutation it justifies (owner file and unlink, plan and apply, triage and resolution, evidence and
merge); commands that are killed after the remote took them; the death of a process between two
commits to different stores; a run whose second half fails after its first half changed GitHub;
replies, exits, timeouts and aborts that race to settle one request; processes that prune what
another still needs; and callbacks of what has been replaced. `PROJECT.json` lists each at its line.

# Modules

One module per component, named in the table above, and the compositions:

| Module | Composes | In the run |
|---|---|---|
| `RepositoryMutex` | what callers may assume of the lock: at most one holder, who may vanish. `PublicationLock` implements it, `StackTransaction` uses it | `lock_contention`, `transaction_race` |
| `Landing` | `routeLand` over `FrontierLand`, `GitHubLanding`, `JjLanding` and `GraphiteLanding` | `landing_aborted` |
| `Stacks` | `Landing`, `JjPublication`, `GraphitePublication`, `JjStack`, `StackNavigation`, `ProcessRunner` | `stacks_safety` |
| `Autopilot` | `PrReadiness`, `PrMutation` | `readiness` |
| `KeptRecords` | `ReviewHandling`, `SessionArchive`, `SubagentSessions`, `SubagentHistory`, `FloorLedger`, `CouncilSeats`, `Handoff`, `SubagentConsole`, `AgentPanes`, `SessionRuns` | `review_safety` |
| `SessionAgents` | `HostedAgent`, `AgentHost`, `ChildRun` | `session_agents` |
| `*Proofs` | theorems about the module they are named after, and the parts it is composed of; `PublicationProofs` is about `PublicationLock` and `StackTransaction`, `KeptPartsProofs` about six parts of `KeptRecords` | |
| `MC*` | the constants of a run that a cfg cannot write | |

In the last four, the components meet only in what one returns to another, which the other takes as any of the
outcomes it can have. A behaviour is therefore that of one component, chosen by `part` (or `route`); the
others keep an initial state, so the composed state space is the sum and not the product. The promises of the
parts are conjoined by kind: what outcomes say (`ReportsAreTrue`, `VerdictsAreTrue`), what is published
(`PublishedIsTheStack`), what is kept (`RecordsMatchTheirSources`), and what may never be lost
(`OthersWorkSurvives`, `BranchesSurvive`, `NeededIsNeverLost`). Each conjunct is stated, with its comment, in
the part's module.

How to read one: the variables are the state of the component and of what surrounds it (remote,
files, other people); `pc`, `step` or `phase` is the place in the code between two awaits; an action
is the code from one await to the next with its early returns as disjuncts. Variables that only
record history for a property come last and are commented as such. Actions of outsiders are
bounded by a `MaxDrift`, `MaxChanges` or the like; nothing in the code depends on these bounds.

**PublicationLock.** Attempts stand for owner tokens; `lockFile` and `reaperFile` hold an attempt, a
corrupt payload, something unsafe, or nothing. `Links` is the create-by-link, `Inspect`/`Judge` the
read and the probe of `isReclaimable`, `Recheck`/`Rejudge`/`UnlinkStale` the same again under the
reaper lock. `CalmNext` leaves out the one interleaving in which the code is wrong (see Findings):
the owner that was read exits between the read and the probe.
A release that cannot inspect its file, or not remove it, leaves it behind.

**StackTransaction.** A plan is identified by the repository state it was computed from, which is what
`plan-id.ts` compares. `Mutate` may happen any number of times while `apply` runs; the outcome it returns is
the provider's. A release that fails only adds a warning, which is left out. What it shares a name for with
the lock is called after the transaction (`TransactionInit`, `ReleaseLock`, `at`), so that one module can
prove about both.

**GitHubPublication.** The branches of the stack are read one by one, so that others may push between two
reads. `queue` is the set of actions left, executed in the order of `order`; each action ends by success, conclusive
rejection, an uncertain end (with or without effect) or, for pushes, a kill that the code does not
see. Heads are the local target, absent, or another commit.

**FrontierLand, GitHubLanding, JjLanding, GraphiteLanding, Landing.** Commits are the pinned one or another
one. In `GitHubLanding` others push, merge, close, reopen and retarget PRs; up to two may be merged before the
landing starts. `retargeted` has the PRs that others retargeted since the run last read or set their base.
`JjLanding` also covers `advanceStack`, which is not a route of `/land` but shares `applyAdvance`.
`GraphiteLanding` has the branches that `gt` may take for the stack: those below the one checked out; the
stack that the code walks down to is the chain from the trunk to the target.

**JjStack.** A line of changes, each with bookmarks, immutable parts, merges and conflicts, is read by the
pure operators of `stack.ts`: which top a request gets, which slices, which blockers. A slice is its
bookmarked boundary and the changes above the boundary below; `Missing` stands for no bookmark. Every line up
to the bound is an initial state. **JjPublication** applies the plan, one gh or jj command at a time, and its
sync; `queue` is the set of actions left, and the order is that of `First`. **ProcessRunner** is one such
command with its timeout, signals, output limit and pipes; **GraphitePublication** is one `gt submit` between
the verification of a manifest and of its PRs.

**StackNavigation.** Each pull request has its marked comments in order, by author, each with a table; a round
reads them all, keeps the ancestors that the longest table names, and writes what is new, while others
comment or delete and a second round may be of a later stack. In `JjPublication` every commit that others push is
a new one, so that a head that was seen is told from one that came later.

**PrMutation.** The workstream of one branch over git, jj or Graphite: `at` is where the checkout is, `local` and
`remote` the branch as sets of commits by whom, `dirty` the paths; every VCS command is a step.

**ReviewHandling and PrReadiness** divide the autopilot: the first has the mutations and the record
that keeps them from being repeated, with everything decided by an agent nondeterministic; the
second has the observations, with the work of a cycle reduced to what it does to the head.

**Council.** A finding is named by the seat that raises it; `mem` is the state object of the command,
`disk` is `state.json`; the seats that still answer a failed command are `Orphans`. Where those seats live is
**CouncilSeats**: panes, the agents found in them, and the manifest, with people who move agents and
commands that die.

**HostedAgent.** One pane, one pending request, the session file as what was appended to it; a prompt may
be delivered late, and the person at the pane may prompt the agent as well. **AgentHost** places agents in
panes along a plan and takes them down. **ChildRun** is a headless child with a helper in its process group:
signals, polls of the group, the end of the pipes, the result that is computed of all that.

**SessionArchive.** Texts are numbered states of one session. A step is one SQLite transaction or one file
check with the call that follows it at once. A crash may come between any two. **SubagentSessions** has leases
as files that name a process; a pruning reads a lease (`Scan`, `ReadLease`), probes its pid (`Probe`), lists
the sessions, and repeats the read (`Recheck`), the probe (`Reprobe`) and only then unlinks, each a step of
its own; `missed` has the running children that nothing names: their parent died before it marked them, or
marked them only after a pruning had read the lease. **SubagentHistory** pages a file by its fingerprint while
it is written: an exact read matches its row in one step and takes the entries in another, and `torn` has the
reads whose row another call changed between the two; **FloorLedger** counts lines per shard and day.

**Handoff.** A predecessor and its successor, their files, the API each runtime publishes, and the prompt as the
user edited it. **SubagentConsole** keeps, of an entry, how many rows it takes at each width, whether it has
a duration and how many bytes it counts; a view is a scroll position over the lines of one child.
**AgentPanes** has runs in the order they were pushed; a worker that takes a task is a step.
**SessionRuns** has three lifecycles and what each request holds in them: a request's `cut` is the set of the
aborted signals among those its innermost call was handed, and session events reach the extensions in turn.

# Runs

| Run | Instance | Shows |
|---|---|---|
| `lock_contention` | 2 attempts, 2 processes, calm | mutual exclusion as a refinement; holders keep their file; only stale locks go; stale locks do go |
| `lock_window` | 3 attempts | *violation*: outside the calm assumption a live holder is robbed |
| `transaction_race` | 3 transactions, 2 repository states | the confirmed, current plan is applied; self-decided outcomes changed nothing; the lock comes free |
| `publication_retries` | 2 slices, 2 foreign commits, 1 outside change, 1 abort, any number of runs | honest accounting; leases; convergence |
| `publication_killed` | same | *violation*: a killed push is not `indeterminate` |
| `stacks_safety` | landings of up to 3 slices with 2 outside changes and 1 abort on every route; publications of 2 slices with 1 event (jj) or 2 (Graphite); lines of 3 changes with 2 bookmarks; 3 PRs, 2 rounds of comments; one command | reviewed head only (one PR), right base, bottom up, no branch deleted under a PR nobody retargeted, local history dropped only after its PRs merged; outcomes and results are true; what is published is the stack, cut once at each bookmark; tables name the members |
| `landing_aborted` | landings as above | *violation*: an accepted merge reported as blocked |
| `readiness` | 2 heads, 3 outside changes, 2 cycles, 1 poll, all modes; 2 mutations per backend with 2 moves of people | merge-ready is verified, runs end; results are true, no work is lost |
| `council_rounds` | 3 seats, 1 raiser, 1 budgeted and 1 verify round, 1 edit, 1 failed write | approvals are earned; progress; completion |
| `council_orphans` | same | *violation*: an orphaned reply overwrites progress |
| `review_safety` | 1 review item, 2 heads, 2 versions, 1 reopening, 2 runs, 1 crash; 1 archived session, 4 texts, 2 deaths; 2 children of 2 parents, cap 1; 2 calls over a session; 2 processes on a ledger; 2 seats; a handoff over 2 models and efforts; 2 children and 3 events on a console; 2 calls of 2 tasks; 2 requests over a replaced session | nothing twice; the unreadable record; resolves only what it answered; what is kept or shown is what is there; nothing needed is lost |
| `session_agents` | 2 requests, 1 act of a person; 3 agents, 1 refusal; 1 child with a helper | answers are of their request; panes are the host's; what was stopped is gone; everything returns |

Why the bounds are enough. Two contenders suffice for every race of the lock but a stale verdict
about one owner acted on against another, which takes three (`lock_window`). Of three transactions
one can settle, one wait and one hold the lock; two repository states tell a current plan from an
old one. Two slices are the fewest with an order and a base; three the fewest where the remainder
after a landing is itself a stack. Two outside changes can disturb both sides of a window (a push
and a retarget, or a push and a close). A line of three changes has a bookmarked middle, an
unbookmarked one, and a part beyond the limit of two. Two rounds of navigation comments can each
find what the other left. Two autopilot runs are needed for a reply posted in the first and resolved
in the second. Three seats are the fewest that can dismiss a finding by more than half; findings do
not influence one another in the ledger. Two crashes allow one in an operation and one in the
recovery from it. Two parents over a cap of one child make each prune what the other runs. Two
requests to an agent are needed for a late reply to be taken for another's. Three agents are the
fewest that need a second column. Of two calls of `parallel_agents` one can return, or be shut down,
while the other runs. Two requests hold runs of the old and the new session at once, and four session
events replace a session and end the next.

Deadlock is checked where the system has no rest (lock, transaction, publication); in the other runs a
landing, an autopilot run, a council, a request or a child really ends, and their cfgs say so.

# Fairness

- `PublicationLock`: a running call proceeds (weak), a caller that left no file behind comes back as long
  as its process lives, and a file-system call that can succeed does not fail for ever (strong); that a file
  which is there cannot be inspected is transient. The
  code never blocks inside a call, and its callers ask to retry after busy.
- `StackTransaction`: every await of a transaction returns. Commands have timeouts, dialogs are answered or
  aborted; `Mutate` is exempt, since `apply` makes finitely many mutations.
- `GitHubPublication`: the user publishes again and GitHub does not refuse for ever what it could accept; no
  fairness for outsiders or aborts, which are bounded.
- `PrReadiness`: each gh command has a timeout, so the run takes its next step (weak); outsiders need
  not do anything.
- `Council`: an incomplete round is run again, each seat does answer if asked again and again, and
  commands do not die at the same place for ever.

- `HostedAgent`, `AgentHost`: every command to herdr has a timeout, so a request, an abort and a host take their
  next step; a person need not do anything.
- `ChildRun`: a run's own steps, its runtime limit and the failure of a spawn come. The limit is optional for the runner
  (`child-agent-runner.ts:510`), and both callers set one; nothing is assumed of
  the child, which may ignore every signal but SIGKILL.

`stacks_safety` and `review_safety` state safety only.

# Proofs

All theorems hold for every value of the constants allowed by the named assumptions, and no
fairness is used. The assumptions say that the bounds are numbers and that stand-ins such as `None`
or jj's `Missing` bookmark (`StacksAssumption`) are none of the things they are distinguished from. Those of
`KeptRecords` are one per part, next to its constants.

- `PublicationProofs`. Of the lock: `TypeCorrect`, `ReapersExclude` in every behaviour; `LockExcludes`,
  `HolderIsNotRobbed`, `OnlyStaleReaped` and `LockImplementsMutex` in calm ones. `IInv` says for every attempt
  what its place in the code implies of the files: whoever holds, or is about to unlink its own file, finds it
  in `lockFile`; whoever is under the reaper lock owns `reaperFile`; and what a reaper has seen is still there
  or is not alive. Exclusion alone is not inductive because the release and the reaper act on earlier reads.
  Of the transaction: `TransactionInv` is `TransactionTypeOK`, that the lock is held exactly in the locked
  half (`LockIsWhereItShouldBe`), what a transaction knows of its plan at each stage (`Knowledge`), and which
  stages precede any mutation (`Honesty`). From it: `ConfirmedIsApplied`, `SettlementIsHonest` and
  `ApplyIsLocked`.
- `StacksProofs`, over the composition. Of one pull request (`FrontierInv`): the pinned, verified and
  confirmed heads are tied to the place in the run, and the report to what GitHub took; `ReviewedHeadMerges`,
  `TargetIsKept`, `LandReportsHonestly`. Of a jj stack (`JjInv`): the steps each command can be at (`Steps`);
  that from the verification on the PRs are merged as pinned, which no outsider can undo (`Mergeds`); where
  the local history is and that its operation id is known before it goes (`Histories`); and when the run has
  certainly changed nothing (`Unchanged`). From it `JjOutcomesAreHonest` and `AbandonedAfterMerge`. Of a
  GitHub stack (`GitHubInv`): everything below the frontier has landed and nothing above the stack has, the
  base of what comes next follows as long as nobody retargeted it, a head that is pinned was ours and what was
  replaced is one the run read, and a tip that the run rewrote can be found again; so
  `GitHubOutcomesAreHonest`, `StackIsWhole` (in order, and no branch deleted under an open PR but those that
  others retargeted) and `ForeignCommitsSurvive`. With the Graphite stack (`GraphiteInv`: Graphite is asked
  last, what is watched as landed was merged at the verified head) every route of `/land` reports honestly
  (`StacksReportHonestly`). Of publications: `JjPublicationsAreHonest`, `SubmissionsAreHonest` and
  `CommandsAreConclusive` say the same of them. `OthersWorkStays`, which leaves out what `gt submit`
  overwrites, adds to `ForeignCommitsSurvive` that a jj push replaces no head that was not fetched and
  resolved (`UnseenInv`: a head that nobody here saw is neither in jj's view of the remote nor at the
  bookmark, until a fetch leaves the bookmark in conflict), and that a reconciliation of comments writes only
  its own, in the place it had. `ReportsHold` is all of `ReportsAreTrue`, `StacksTypeCorrect` the types of all
  parts. `StackIsPublished` says what is published, by three invariants more. `PublishedInv`, of a jj
  publication: while nothing else has moved, what is left in the queue and what GitHub has make up the plan,
  slice by slice and then link by link, so that an empty queue is a stack that is all there
  (`CompletedIsTheStack`). `InspectionInv`, of the cut into slices (`SlicesCutTheStack`): the highest change
  is bookmarked, so each change has a next boundary; that it has a lowest one is an induction on positions.
  `TablesInv`, of comments (`TablesNameTheStack`), needs more than a look at the tables: the first comment of
  ours is what a round finds, or, when the user's name cannot be read, the first with a marker, unless a
  stranger's came before it (`StrangersFirst`); each PR has at most one comment of ours and its table is
  complete (`MineAreComplete`); the lowest PR not merged names all that has landed (`LandedAreKnown`), or the
  next round would forget the ancestors; and what the first loop read is still there when the second writes
  (`LoopsGoOn`).
- `GitHubPublicationProofs`. The accounting is not inductive by itself: the invariant says which actions the
  plan had, that what is completed and what is still queued are apart, that the remote took every completed
  one and at most the one in doubt besides, and what the read of a branch still tells of it. From it
  `OutcomesAreHonest`; `UnseenWorkSurvives` needs that a lease is the head the plan read, however often others push.
- `CouncilProofs`. An approval is a fact about a snapshot that was reviewed rounds ago: the invariant says of
  the state object and of `state.json` alike that an approved status goes with the snapshot in
  `approved-plan.md`, that every seat reviewed it, and that no open finding counts (`ApprovalsAreEarned`); and
  that as long as no write failed, memory and file agree on the replies of the round (`CommandsKeep`).
- `AutopilotProofs`, over the composition. `BranchInv` says for each step of a request, of any backend: as long as
  nobody else moved, the branch is the one asked for, and then holds what was recorded on top
  (`BranchIsKnown`); what was fetched of the remote branch is in the local one that will replace it, or jj's
  bookmark is in conflict (`ReplacesWhatItHolds`); Graphite knew no branch on top (`TopOfStack`); and what a
  request has changed so far (`EffectSoFar`). `ReadyInv` says that a head to be confirmed is the one the
  observation before saw, that checks are of the head or a later one, as a head never returns, and that a
  cycle is left while the run goes on. From them all the safety that `Autopilot` states: `AutopilotTypeCorrect`,
  `VerdictsHold`, `WorkIsKept`.
- `SessionAgentsProofs`, over the composition. Of the requests: which one is pending at each place, that a
  prompt which was not delivered was not heard, that the answer file of a request that is not over is blank.
  Of the child: what a settlement leaves running, and what a stop still waits for. Of the host: starts queue in
  order, no two have one place, and every pane is the head's, a start's, or being split (`PanesAreAccounted`).
  From these `RequestsAreAnswered`, `ChildrenAreGone`, `AttachedPanesSurvive`, `NoPaneIsShared`, `PanesAreClosed`.
  `PanesTile` adds the sizes, and so all of `PanesAreTheHosts`. It needs the exact size of every pane after any number
  of splits, some of them cancelled (`PanesAreTiles`): each split takes one part of those its column or row
  has left. The model's unit of size is assumed to be divisible by every number of agents there can be, where
  the code has fractions.
- `KeptRecordsProofs`, over the composition.
  `ReviewInv` says that a plan is of the snapshot, that a pending reply was posted, and that a run on
  an unreadable record gets to no mutation; `CorruptFilesAreLeftAlone` and `OnlyAnsweredIsResolved` hold for any
  number of sessions. `NothingTwice` is for one session alone with its record, as two sessions do repeat
  each other's reruns (a hazard of the list). It needs `DoneOnce`: the record is what the run read or saved, the
  versions it saw are no newer than the thread's, every reply and rerun that GitHub has is in the record or
  about to be put there, and a reply that was retried is not pending.
  `LeaseInv`: a child that may run has a lease that would be found live, unless its run was settled or it is missed, and
  what a pruning has read of a lease, or found by its probe, is still true of it up to the unlink; so
  `LiveSessionsAreKept` for every number of sessions, parents and prunings.
  `RunsInv` says which run each extension and each request holds, through sessions that are replaced between an
  await and its continuation; `RunsServeTheirSession`.
- `KeptPartsProofs` has the invariants of six more parts of the same composition; the steps of each part leave
  the variables of the others alone. Index (`HistoryInv`): a call serves nothing newer than it found, and one
  that read a session exactly serves what it found unless it is torn; `PagesStayCurrent`. Archive (`MoveInv`):
  what is where at each step of an archiving, a restoration and a recovery, for any number of texts and
  deaths, but one process: nothing in the code keeps two apart (`ArchiveServesOneProcess`; the types hold for
  any number). Ledger (`LedgerInv`): an append under way has its line in the queue or the file and counts what
  it read under its lock; the total may be exceeded by one line for each process but one; `LedgerIsKept`.
  Seats (`SeatInv`): for each seat, what memory, manifest and snapshot say of its pane, and who books a pane
  just split (`SeatsAreServed`). Handoff (`HandInv`): which files the place in the command implies, and that a
  reader's cache is of the file with the size it saw (`HandoffServes`). Panes (`PaneInv`): the host holds each
  run once, the tasks below the next one are those that were taken, and the rows are those of the children as
  long as there is a UI (`PanesShowWhatRuns`).
- `KeptRecordsProofs` again, of the console. `ShowInv`: ids grow, so that a cached layout is never of another entry
  (`CacheHolds`); a transcript over its limits drops its oldest until it fits (`Fits`), and says so.
  `StayInv`: the first line last shown of a child is still the first of its window (`Stays`), through what comes in
  above and below it. The console counts bytes and lines with recursive functions (`Sums`, `Concat`). That such a function
  exists, and how its values grow, is shown by a least counterexample, as the theorem
  of induction cannot be instantiated here. From it `ConsoleShowsWhatIsThere`.
  With these `KeptTypeCorrect`, `RecordsMatch` and `NeededIsKept` state the three conjunctions of `KeptRecords` whole;
  the last two for one process at the archive, as in the run.

Only model-checked: liveness (`StaleLockIsReclaimed`, `LockComesFree`, `RetriesConverge`, `AutopilotRunEnds`,
`RoundsComplete`, `AllReturn`), which the prover cannot do. Every invariant and every action property of
a passing run is proved. With two processes at the archive, or two sessions over one autopilot record, the
properties are false of the code (see Divergences; TLC finds the counterexamples when `Procs` or `Sessions` has two),
so no theorem states them.

# Findings

Four statements of the repository that the code does not keep, each with a run whose
counterexample shows it; the quotations and lines are in `PROJECT.json`.

1. **A live lock can be unlinked** (`publication-lock.ts:225`). The reaper reads the owner, probes its pid
   later and unlinks by path. The owner that was read may exit in between, and a third process lock.
2. **A killed push is not indeterminate** (`github-stacked-prs/delivery.ts:377`). Only the exit code is read.
3. **An accepted merge can be reported blocked** (`jj-stacked-prs/land.ts:707`). Reads after the merge are
   outside any `try`; an abort makes them throw, and `/land` calls that a failed inspection.
4. **An orphaned reply overwrites progress** (`shared/council/round.ts:403`). When one write fails the lock is
   released while other seats still answer and write the memory of the failed command.

## Divergences without a run

Met while modelling. No run shows them; where a property would otherwise fail, its comment says what it excludes.

- A change the user amends during the confirmation or the queue watch of a jj landing is abandoned with the
  range (`native-land.ts:226`, `orchestrator.ts:423`); the operation id of `advanceStack` is recorded before
  its dialog (`:401`), so restoring it undoes an amendment made after that too. `AbandonsOnlyAfterMerge` is
  about the PRs only. `advanceStack` takes no lock.
- A `gh stack merge` that was killed and then cannot be inspected is `partial`, not `indeterminate`
  (`native-stack.ts:209`); a native landing whose verification fails leaves its frontiers `not-attempted`, so
  `/land` says blocked.
- A killed remainder push or base repair of a GitHub landing is `partial` (`landing.ts:652`, `:682`). The repair goes by
  the bases it pinned (`:671`): a PR that somebody points at the branch just merged is not repaired, and the cleanup
  deletes that branch; `NoChildIsOrphaned` excepts it. When two PRs were merged before the landing, the run pushes the
  second one's branch again and stops, `partial` (`:580`).
- Publication lock: an `lstat` or a read of one's own lock file that fails for once is taken for an unsafe file
  (`publication-lock.ts:113`, `:120`), and `release` then returns ok and leaves the file without a word (`:141`), to be
  reclaimed when the process has ended (`InspectForRelease`).
- A pending import whose session was continued can never be retried: `importSessionPending` refuses changed
  bytes although `reconcile.ts:159` advises a retry. A restore journal left by an earlier restore marks an intact
  row as an error at each start. Two Pi processes can recover the same session at once (documented).
- A comment that arrives between the last read of a review thread and its resolution is resolved with
  it; two sessions may both rerun one Actions run on one head.
- `docs/safety-and-recovery.md` and `docs/workflows.md` of jj-stacked-prs describe landings without a lock and one PR
  at a time; the code takes the lock and lands natively.
- jj publication: a refused link as the first mutation is `partial` with no completed actions
  (`docs/safety-and-recovery.md:80`); a link whose read-back fails is reported failed though it was accepted;
  `jj git push` pushes whatever the bookmark is by then; `syncStack` takes no lock; a request without a top on
  a stack over the limit infers a lower top from the truncated stack and drops the blocker
  (`orchestrator.ts:446`, `:168`).
- Commands: `runCommand` waits for ever when a helper keeps the pipes; output beyond the limit is `failed`
  although the command may have been accepted.
- Graphite: `gt merge` pins no heads; a failed `gt submit` that changed nothing is `partial` with the PRs that
  were there before; with an existing ready PR a publication is never `completed`; `gt submit` may
  replace heads that others pushed, so `OthersWorkSurvives` leaves this publication out.
- VCS backends: after a base update in jj the bookmark is on `@`, and later mutations of that checkout refuse
  until the user runs `jj new`; a move of the user between the assertion and the record or push puts the fix on
  another branch or publishes that branch's head; the result of `git merge --abort` is ignored.
- Navigation: when one PR's comments cannot be read, a longer table without history on another overwrites the
  history of the merged ancestors (`TablesAreTrue` excludes failed reads: `lossy`); when the user's name
  cannot be read (`topology.ts:267`) a stranger's marked comment that comes first decides the ancestors; an
  indeterminate comment write ends a jj publication `completed` with a warning.
- Handoff: with `--archive`, a refused archive or a failed finalization loses the edited prompt, and so does a
  new session that an extension vetoes; a path in the prompt may be stale once someone else archives.
- Subagent sessions: `shared/README.md:44` keeps a lease as long as the child lives; `finish` releases that of
  a child that survived its stop, and a parent that dies before `markSpawned` leaves its child without one. A
  pruning that read a lease before the mark and probes after the parent's death deletes the session of a live
  child, which the comment at `subagent-sessions.ts:318` says the second look prevents.
- Subagent history: a search accepts a hit by its file name alone (`subagent-history.ts:348`). An exact read
  matches its row (`:421`, `:454`) and reads the entries later (`:486`) outside a transaction: when another
  process replaces or drops the row in between, the page is of another version, or empty, and still passes its
  validation.
- Council: a death between `approved-plan.md` and `state.json` leaves the former ahead of the latter; after an override
  there is not even a round to resume.
- Floor ledger: processes may exceed the total by one line each.
- Console: a render between a streamed delta and its throttled announcement records the new line count
  without anchoring, so that a scrolled view jumps; only growth is anchored; with parallel tools a duration
  may go to the wrong tool (`transcript-store.ts:128`).
- `parallel_agents`: a call of an old session clears the status line of a newer one.
- Runs: `/land` takes the session that is there when its own run begins, not the one in which the user typed it;
  the landing of a stack stays admitted after its session until it returns, so that one of the next session is
  told it is busy; a returning landing clears the status line of a newer one.

# Not modelled, and why

- Text: PR bodies and templates, prompts, rendering, outlines, argument and output parsing. A message is
  a member of a small set or left out.
- What agents say: triage, classification, fixes and findings are any answer the parsers accept.
- How `gh stack`, `gt` and herdr do what they are asked; what they can answer, and what they may have done
  when they fail, is in the modules that call them.
- People who close or take the panes of a host of `AgentHost`; people act on the requests and on the council's seats.
- Settling jj's empty working copy (failures there are warnings only), Graphite's preflight, worktree
  plans, routing policies and the choice of models, paging and search of histories, Windows, and descendants
  of a child that leave its process group.
- `beginNextPhase` and `managedWorktree.remove`, which nothing in the extensions calls.
- The components that `PROJECT.json` lists as `not_modelled`: the UI, configuration, parsing, wording, skills, lint
  rules and scripts keep no protocol state.

# Plan

Every component with a protocol of its own has a module, and what the runs check of safety is proved. What is left
is larger instances where a run has room, and two processes at the archive and two sessions over one
autopilot record once the code keeps them apart.
