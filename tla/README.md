# Verification of agent-evolution-gym

TLA+ models of the gym's core: the simulated world an agent works in, the
agent's loop under its budgets, the processes and sessions around a world, the
runner that puts a run together, the splits and packages it is put together
from, the store that keeps it, and the tasks with the verifier that judges them.
The models are checked by TLC on small instances, and each of the eight state
machines they run carries TLAPS proofs for instances of any size: all invariants
of the passing runs, their action property and the three refinements they check
are theorems. Only liveness is left to TLC, and of that a half (work is finite,
or goes one way only) is proved too. All paths below are relative to
the repository's `src/` directory (so the Python package is at `src/agentgym`,
and the domain at `domains/confluence`).

Contents: 1 the system, 2 the modules, 3 correspondence with the code, 4 the
runs, 5 fairness, 6 the proofs, 7 where code and documents disagree,
8 observations, 9 what is not modelled, 10 the plan.

## 1. The system

A *run* takes a task and an agent package, starts a fresh world process from
the task's snapshot, lets the agent work on the world through tools, takes a
final snapshot, has a verifier compare the two snapshots, and stores the result.

```
 scenario generators --task--> Runner.run -----------------> run store, run index
                                 |  |  \--- verifier (initial, final, trajectory)
                         session |  | run()
                                 v  v
   world provider <--- control   ReferenceAgent ---- model endpoint
     | spawn/stop       channel     | tool call
     v                    |         v
   child process: raw API + control API on one store <--- tool executor, tools
                                                          (+ concurrency hook)
```

| Component | State | Operations | Talks to | Hard part | Correct when |
|---|---|---|---|---|---|
| Page store (`world/store.py`, `snapshot.py`) | pages, versions, histories, permission maps | add, update, append_version, snapshot, restore | called by both APIs | version bump and history append are separate calls; `restore` replaces everything | page, version and history agree; histories only grow |
| Confluence API (`world/api/routes.py`) | none of its own | get, list/search, versions, create, update | store; permission resolver | stale `If-Version`, requests handled after the client has gone | optimistic concurrency: no lost update, no spurious 409 |
| Control channel (`world/api/lifecycle.py`) | the key | snapshot, restore, human edit | store; used by provider and runner | runs between any two agent requests | only the owner of the key is obeyed |
| Baseline tools (`packages/baseline/mcp/server.py`) | none | five tools | raw API over HTTP | timeouts: the request outlives the call | writes that were acknowledged are kept |
| World processes (`world/process.py`, `world_entry.py`) | process handle, URL, key | start, probe, snapshot, restore, human edit, stop | OS, child | port reservation race, hanging child, cancellation | no child is leaked, none is mistaken for another's |
| World sessions (`runner/lifecycle.py`) | `started` | start, restore, yield, stop | provider | cancellation at each await | always stopped, always fresh |
| Budgets (`runner/budgets.py`) | four counters, a clock | check_*/record_* | the agent | limits tested at several places of one turn | distinct outcomes, never exceeded |
| Reference agent (`runtime/reference_agent.py`) | messages, had_tool_error | run | LLM client, executor, recorder, budgets | leaves its loop at many points, by exceptions | terminates; conversation, metrics, status agree |
| LLM client (`runtime/llm.py`) | none | complete | endpoint | malformed answers | answers or raises |
| Recorder (`runner/recorder.py`) | events | append, emit, flush | agent, executor, runner | keeps references to live data | events say what happened |
| Runner (`runner/runner.py`) | status, verdict, executor flags | run, execute, concurrency hook | everything | eight paths through the exception handlers | infrastructure faults never charged to the package |
| Run store (`storage/filesystem.py`) | five files per run | store_run, load_run | disk | five separate replaces, hashes on two | all or nothing |
| Run index (`storage/sqlite.py`) | two tables | insert_run, queries | disk | no transaction with the run store | lists stored runs only |
| Permission resolver (`routes.py`) | none | can_access_page, can_create_page, resolve actor | store | maps of no fixed shape, two scopes, two tables of words | read and write only as granted |
| Scenario generators (`domains/confluence/scenarios`) | none | one per family | fixtures, verifier config | body to expect after a race | tasks can be passed |
| Page edit verifier (`verifiers/page_edit.py`) | none | one verdict per family | both snapshots, trajectory | sees two snapshots, not the run | passes what was earned and nothing else |
| Fixture builder (`world/fixtures/builder.py`) | none | build | generators | keys the resolver does not know | — |
| Curriculum splits (`core/splits.py`, `runner/curriculum.py`) | a split's entries, the tasks so far | validate, materialize | generators, snapshot files | files named after tasks only, truncated and written; generators missing half way | all of a split or nothing, each task with its snapshot |
| Agent packages (`core/package.py`) | `package.yaml` and the artifact files | save, from_directory, verify_hashes | disk; runner and agent read the files again | files change between hashing and use | a run executes what the manifest vouches for |
| Docker world, telemetry/diagnosis | — | — | — | — | see section 9 |

Concurrency in this program: an agent's requests, the requests it gave up on,
the human edit and the runner's control calls interleave in the world process;
providers compete for ports; children crash and hang; a run's coroutine can be
cancelled at each await; runs side by side in one process share `os.environ`;
stores and loaders, curators and the authors of packages are separate processes
with files in common. Inside one run the agent makes one call at a time, and a
handler of the world has no await between its first read of the store and its
last write.

## 2. The modules

| Module | What it is | Uses |
|---|---|---|
| `VersionedPages` | abstract: atomic read-modify-write of histories that only grow | |
| `ConfluenceWorld` | store, raw API, control API, tools, network | instantiates `VersionedPages` |
| `ConfluenceWorldProofs` | its proofs | extends `ConfluenceWorld` |
| `ReferenceAgent` | the model/tool loop, budgets, recorder | |
| `ReferenceAgentProofs` | its proofs | extends `ReferenceAgent` |
| `Evaluation` | abstract: a world, at most one human edit, one outcome, a record that says the same | |
| `Runner` | `Runner.run`, executor, concurrency hook, handlers | extends `ReferenceAgent`, instantiates `Evaluation` |
| `RunnerProofs` | its proofs | extends `Runner`, `ReferenceAgentProofs` |
| `ProcessWorld` | providers, children, ports, sessions | |
| `ProcessWorldProofs` | its proofs | extends `ProcessWorld` |
| `SideBySide` | runs in one process: the executor, `os.environ`, the raw API | extends `ProcessWorld` |
| `SideBySideProofs` | its proofs | extends `SideBySide`, `ProcessWorldProofs` |
| `Curriculum` | splits, their materialization, snapshot files | |
| `AgentPackages` | package directories, an author, a loader | |
| `RunInputs` | what a run is made of, up to the first model call | extends `Curriculum`, `AgentPackages` |
| `RunInputsProofs` | its proofs | extends `RunInputs` |
| `RunArchive` | abstract: an archive that takes a run's record in one step, its index, answers | |
| `RunStore` | artifacts, index, loaders | instantiates `RunArchive` |
| `RunStoreProofs` | its proofs | extends `RunStore` |
| `PermissionResolver` | who may read, edit and create | |
| `PageEditTasks` | task families and the verifier, as operators | extends `PermissionResolver` |
| `TaskRun` | a run of a task from snapshot to verdict | extends `PageEditTasks` |
| `TaskRunProofs` | its proofs | extends `TaskRun`, instantiates `VersionedPages` |
| `MC*` | values of the constants for TLC | extend the module named |

`ConfluenceWorld` and `TaskRun` look at the same world from two sides. The first
has many clients, a network, timeouts and late requests, and reduces permission
to a relation. The second has the resolver, titles, owners, goals and the
verifier, and one agent whose calls follow each other. `ConfluenceWorld` shows
that whatever the network does amounts to atomic revisions, which is what
`TaskRun` takes for granted when it makes a call one step. Both are proved to
implement `VersionedPages` (`WorldImplementsPages`, `TaskImplementsPages`).

## 3. Correspondence with the code

**ConfluenceWorld.** `pages`, `page_versions` are the store's dictionaries; a
page that is absent has version 0, title and body together are one *content*.
`net` holds requests sent and not yet handled, `waiting[c]` what a client waits
for, `reply[c]` an answer on its way, `view[c]` the last text and version a
client was shown. `Send*` are the tools, `GiveUp` is the HTTP timeout (the
request stays in `net`), `Deliver` the answer's arrival; `Handle*` are the five
handlers, with the status codes in the order the code tests them;
`RestoreSnapshot`, `HumanEdit`, `CaptureSnapshot` are the control API; `phase`
follows the session (`restoring`, `open`, `closing`, `captured`). Two fields of
a history entry are not in the code: `by` and `seen` record the author and the
text it had been shown, if it claims one: the human's edit is made from the
initial snapshot and claims none, nor does an edit with a guessed version.
`acked` records the successes that reached a client. The world process starts
with the snapshot file's content, and is restored to the snapshot's content
again before the session yields.

**ReferenceAgent.** `pc` is the place in `run()`; one action is the code between
two awaits that suspend. `elapsed` advances by `Tick` at any moment and stops at
`MaxWall`; it is read only where the code calls `check_wall`. `events` and
`messages` have the order and type of what the code appends, and each event
keeps the conversation's length at its appending, to compare with what the
stored event shows.

**Runner.** `stage` is the place in `Runner.run`; the agent's actions are those
of `ReferenceAgent`, and the executor replaces its tool: `ExecuteTool`,
`UnknownTool`, `WorldAnswers`, `WorldUnreachable`, and for a task with a race
`ReadFiresHook`, `EditAnswers`, `EditFails`. `EnvironmentFails`, `SessionFails`,
`VerifierFails` and `StoreFails` are the exception handlers, `Cancelled` a
`CancelledError`, which passes all of them but the session's `finally`: the tool
call it interrupts does not return to the agent. For `Evaluation` the world is
`captured` between the final snapshot and the verdict, the edit is what the
trajectory has of it (`staged_edit`), there is an outcome from the stage
`completing` on (`Decided`), and the record is the manifest's status.

**ProcessWorld.** `step[p]` is where provider `p`'s session is, `handle` and
`port` are `_process` and `_port`, `reserved` and `reaping` are the locals of
`start` and `stop`; `child` is the operating system's view. A child may fail to
bind (`Boots` with the port taken), crash, hang or end at any moment. A control
request of `p` (ready probe, restore, capture) acts on a child in `Obeying(p)`:
one that serves `p`'s port and accepts its key.

**SideBySide.** The sessions of `ProcessWorld` with a body: `call[p]` is the
tool call of the run whose world `p` provides, with the values of the
environment it found and must put back, and the address and actor the tool reads
after them (`_world_api_url` reads `os.environ` when the request is made, in the
same step as `execute` sets it). `made` counts the calls of a run, `environ` is
the two variables. `astray` records the requests that were handled by a world
that is not the caller's (the raw API asks for no key), `judged` whose final
snapshots were taken. Calls end, and are cancelled, in any order.

**Curriculum, AgentPackages, RunInputs.** A curator is a process in
`materialize`, `curating[m]` its place in it, and a snapshot file under a root
is absent, torn (opened for writing) or whole, with the curator that wrote it.
The content of a snapshot is a function of the task (the generators are seeded),
so curators of one root write the same text and only the moment between
truncation and text is visible. An author edits files and saves packages, hash
by hash and then the manifest; the driver loads one, hash by hash. A hash is the
text it was taken of; `edited` holds the files changed after the loader had
hashed them and is not in the code. `run` is `Runner.run` from
`_resolve_snapshot_path` to `build_system_prompt`, with the second reading of
the snapshot by the world's process and the second reading of the package by
`_build_executor` and `_read_artifact`. `package_dirs` are the directories where
`_resolve_package_root` looks when the caller gives none: the `root` of the
package's metadata first.

**RunStore.** `disk[d]` is a directory's five artifacts, `written[r]` how far
`store_run` is, `rows` the index. `before[r]` is a history variable: the runs
that began to store in `r`'s directory before it. States stand for their own
hashes.
`WriteArtifact` is one `_atomic_write`, `ReadArtifact` one read of `load_run`
with its checks, `Fail` a crash or an exception at that point. `RunArchive` is
what the directories of one run each (`OwnDirs`) amount to: a record is at its
place when its manifest is, a loader has asked while it reads and is answered
when it returns; what happens in directories that are used again is a stutter.

**PermissionResolver, PageEditTasks, TaskRun.** An entry of a permission map is
the set of its clauses (a bare list, a list under a key, a word given to names),
and the words are those of the code's tables. Text is the set of a page's
fragments: two bodies are equal when they have the same fragments. `TaskRun`'s
actions are the tools with their handlers; `create_page` may name another owner.
`known` is what tools have shown the agent, and the agent writes only what it
knows or invents; `denied` are the pages it tried to read and was refused. An
answer is something it knows, or an `Explanation` that it was denied access.
`get_page` on the task's page performs the human edit as well, once, as the
executor's hook does before it returns. `AgentCompletes` ends the run and
applies `Verify`.

`PROJECT.json` maps every definition to the lines it translates.

## 4. The runs

State counts are distinct states. Runs and sessions end, so their final states
have no successor: deadlock is checked only in the two runs of `RunStore`, where
a loader can always begin again.

| Run | Instance | States | Shows |
|---|---|---|---|
| `world` | 2 clients (3 and 1 requests), 2 in flight, 1 seeded and 1 creatable page, 3 texts, human edits up to version 2, guessed versions 1, none and malformed | 225,516 | TypeOK, HistoryMatchesPage, NoLostUpdate, AckedWritesKept, ConflictHasWinner, refinement of `VersionedPages` |
| `agent` | wall 2, 3 turns, 3 calls, 3 tokens; 0–2 calls per response, 0–2 tokens per response | 3,501 | MetricsMatchTrajectory, ConversationComplete, StatusMatchesTrajectory, BudgetOutcomesDistinct, Termination |
| `runner` | wall 1, 3 turns, 3 calls, no token limit, a task with a race | 86,414 | CrashNotCharged, RecordsAgree, VerdictsAreEarned, RunEnds, refinement of `Evaluation` |
| `process` | 2 providers with 2 and 1 sessions, 2 ports, one tool call in each session | 285,222 | StoppedUnlessAbandoned, ObeyedIsHeld, FreshWhenOpen, CallsGoHome, StrayRunsUnjudged, SessionsEnd |
| `inputs` | a driver with 8 manifests, 7 of them wrong, and another curator, under one root or two; 2 package directories, 2 declarations, 1 edit or removal of a file, 1 save | 1,387,548 | MaterializedAsAllocated, StartsFromOwnSplit, RunsWhatItVouchesFor |
| `runstore` | 3 runs, 2 in one directory, one loader, two states | 252,552 | IndexedRunsStored, LoadsNotStale, StoreLeavesOneRun, refinement of `RunArchive` |
| `task` | 3 pages in 2 spaces, 3 users, 5 permission maps, all nine tasks of the five families, 4 tool calls, 4 bodies, 2 titles, a created page's owner may be an alias | 779,231 | WriteImpliesRead, AccessWasGranted, PassWasEarned, DutifulRunPasses, CollateralIsFlagged |
| `agent_recording`, `process_cancel`, `runstore_reuse`, `runner_silence`, `task_denial` | as the run they belong to (`process_cancel`: without tool calls; `task_denial`: the fixture's own permission map) | counterexample | section 7 |

Why the bounds are enough:

- *world*: a lost update needs a reader, an overtaking writer and a late writer.
  With two requests in flight, a client that gives up and sends again, and a
  human editor, each of the three can be each of the actors, its own earlier
  self included. A second seeded page would add no interaction: handlers look at
  one page, searching apart, and search is any subset of what is visible. The
  proofs remove the bounds.
- *agent*: two calls per response against a limit of three makes the budget run
  out in the middle of a batch and exactly at its end; two tokens per response
  against three overshoot the limit; the clock can stop at any point of it.
- *runner*: `MaxWall = 1` is a clock that has or has not run out, at any place;
  tokens are left to `agent`; three tool calls are enough to send the edit
  twice, if it could be, and to go on after it has failed.
- *process*: two providers and two ports let each provider take the port the
  other has reserved; a second session of a provider finds what the first left.
  One call in each session is enough for two to overlap, to end in either order
  and to leave the other's values in the environment of a third; safety was also
  checked once with two calls in each.
- *inputs*: one edit falls before, between or after any two of the loader's,
  the author's and the runner's steps; the save that is interleaved with it can
  be of either directory and either form of an artifact's path. The split's
  tasks are one that the other curator stages too and one that it does not. An
  author's steps before the driver has its tasks are left out, since the two
  share nothing and the steps may as well come later.
- *runstore*: a first and a second run in one directory, with each of the four
  combinations of final states, and a reader at each point between.
- *task*: read, race, edit and one call too many; the maps exercise page
  entries that restrict the space's, empty entries, words under an actor's own
  name, and bare lists. The proofs remove the bounds.

Every property of these runs has a mutation of the code's model, recorded in
`PROJECT.json`, under which the same run fails: dropped comparisons, swapped
orders, missing resets. They are the operators marked `Mutant:`, unused by the
specifications.

Action constraints and symmetry are not used.

## 5. Fairness

- `ReferenceAgent!Spec`: weak fairness of the agent's steps. Each await of the
  loop is a model or tool call through an HTTP client with a timeout.
- `Runner!RunnerSpec`: weak fairness of the run's own steps, for the same
  reason; nothing is assumed of crashes, cancellations or the clock. `RunEnds`
  also says that the world is down for good.
- `ProcessWorld!Spec`: weak fairness, per provider, of what it does by itself.
  The probe has a deadline, `stop` kills after five seconds, the session's body
  is the agent's run, which ends. Nothing is assumed of the children, which may
  hang in their start or ignore SIGTERM for ever, and no provider is assumed to
  begin another session. `SideBySide!SideBySideSpec` adds weak fairness of a
  run's tool call and of the session's body, for the reason given for the agent:
  each request has the HTTP client's timeout.
- `ConfluenceWorld`, `RunStore`, `RunInputs` and `TaskRun` make no liveness
  claim and have no fairness.

## 6. The proofs

### ConfluenceWorldProofs

Assumption: `WorldAssumption` (types of the constants; the trusted author is no
client). Theorems: `TypeCorrect`, `HistoryCorrect`, `NoLostUpdateCorrect`,
`AckedWritesCorrect`, `ConflictCorrect`, `WorldImplementsPages`: every property
the run `world` checks, for any pages, clients, texts, numbers of requests and
versions.

`NoLostUpdate` is not inductive: that a late request's `If-Version` matches says
nothing about the text it was written from unless that text *is* the page's
entry of this version. The strengthening `IInv` says so of everything that
carries a version and a text: each client's view, each pending or abandoned
update, each answer on its way (`RequestsHonest`, `ClientsOK`,
`AckedInHistory`), and what holds in each phase of a session (`Phases`). The
proof has two halves:

1. *The store* (`StoreSteps`): from `IInv`, a step leaves the store alone or
   appends one revision to one history, and a client's revision that claims a
   seen text has the current one; the human's claims none. This alone gives
   `HistoryMatchesPage` and `NoLostUpdate`, and it is what the refinement maps
   to: `Create`, `Amend` or `Overwrite` (a guessed version, the human's edit) of
   `VersionedPages`, or a stutter (`GrowthIsPromised`). A restore is a stutter
   because nothing has happened before it.
2. *The clients*: an entry of a history remains one (`Extends`), so whatever
   was shown stays shown; each `Send`, `GiveUp`, `Deliver` and `Handle` keeps
   its own client's part (`SendKeeps`, `GiveUpKeeps`, `DeliverKeeps`,
   `HandleKeeps`).

### TaskRunProofs

Assumptions: `ResolverAssumption`, `TasksAssumption` and `RunAssumption`. The
last two say that the requested text and the human's note are not in the
snapshot, that the agent can make up the text the goal states but cannot make up
seeded text or the note (it must have been shown those), and that an explanation
is text neither of the snapshot nor of the agent's making up. Theorems:
`TypeCorrect`, `WriteImpliesReadCorrect`, `AccessCorrect`, `CollateralCorrect`,
`PassCorrect`, `DutifulCorrect`, `TaskImplementsPages`, for any pages, users,
permission maps, drafts and number of calls.

- `WriteImpliesReadCorrect` follows from the two tables of words alone
  (`WriterReads`): every clause that grants writing grants reading.
- `StepKinds` reduces the steps of a run to four: the agent looks, the agent
  writes one page, the human writes the target, the agent completes. Each keeps
  the invariant `RunInv` by a lemma of its own. The invariant needs: that
  histories end in the page and begin with the snapshot (`HistoriesOK`),
  *provenance* of text (`TextsOK`: text is from the page's own seed,
  known to the agent, invented, or the note of a race that has been staged), at
  most one human revision of the target (`RaceOK`), and that the verdict is the
  verifier's on the state the run ended in (`OutcomeOK`).
- `PassCorrect`: why a verdict from two snapshots says anything of the history.
  The version delta bounds the number of revisions; in a race the note must be
  in the final body, and the note is only known when the race has been staged,
  so the one other revision is the human's; it precedes the agent's because the
  final text has what only the agent writes. `FirstIndex` (least index with a
  property) is proved by well-founded descent, as induction schemes with an
  operator parameter are not available.
- `DutifulCorrect` rests on `HistoriesPass`: the verifier's history assertions
  hold of every reachable state, so they can fail only if the world is broken.
- `TaskImplementsPages`: a write is `Create` or `Overwrite` of `VersionedPages`
  (`ToldWrite`), everything else a stutter. It needs that a history has as many
  entries as its page has versions (`HistoriesOK`). No revision claims the text
  it was made from, since the human's is computed from the snapshot and the
  agent may guess a version. No run checks it: TLC enumerates every content for
  every step, and it was checked once with two calls.

### ReferenceAgentProofs

Assumption: `AgentAssumption` (types of the budgets, batches and usages; a limit
may be absent). Theorems: `TypeCorrect`, `MetricsCorrect`,
`ConversationCorrect`, `StatusCorrect`, `OutcomesCorrect`, `RunsAreBounded`.

- What is recorded is counted by the cardinality of a set of positions.
  `EmitAdds` and `EmitKeeps` say what appending a batch of events does to such a
  set; the lemmas for the batches the loop appends (`FinishRecords`,
  `DispatchRecords`, `ReturnRecords`) follow from them.
- `ConversationComplete` is not inductive: in the middle of a batch the last
  message of the model has calls that are not answered yet. `ConversationOK`
  says how many are owed (`Owed`) at each `pc`, and that behind each message of
  the model stand its answers, as many as it asks for, and then no other.
- `StepKinds` reduces the loop's actions to seven kinds of steps (begin, stop,
  request, finish, ask, dispatch, return), each with a lemma. `AgentInv` also
  needs that nothing is decided before the end (`Undecided`), that a failed tool
  is recorded as such (`FailuresRecorded`) and what the last events were
  (`EndRecorded`).
- `RunsAreBounded` is the safety half of `Termination`: `Left` adds up the turns,
  tool calls and clock ticks not used yet and what the current turn still has to
  do; it is never above `Steps = 2*(MaxTurns + MaxToolCalls) + MaxWall + 2`, and
  every step lessens it. A run that takes its steps must therefore end.

### RunnerProofs

No further assumption than `AgentAssumption` and `RunnerAssumption`. Theorems:
`RunnerTypeCorrect`, `CrashCorrect`, `RaceCorrect`, `RecordsCorrect`,
`VerdictsCorrect`, `RunImplementsEvaluation`, `EvaluationsAreBounded`, for any
budgets, with or without a race. The agent's part of
a step is `AgentMovesKeep` of `ReferenceAgentProofs`; what the runner records
does not concern the loop (`OuterKeeps`), and what the loop records does not
concern the runner (`LoopRecords`). The strengthening `RunnerInv` adds

- `Placed`: what cannot have happened yet at each stage. It is why a crash is
  not charged: a world that went down never comes up again, the final snapshot
  needs one that is up, and so a run is judged only if nothing was lost;
- `RaceOK`: the edit has been sent exactly when the flag is up, and answered
  when the executor is done with it without an infrastructure error;
- `TrajectoryOK`: one first event, no last event before `completing`, and the
  manifest written together with it.

`RunImplementsEvaluation` maps every step to one of `Evaluation` or a stutter.
The agent's thinking is a stutter altogether; `EditStates` computes the abstract
edit from `RaceOK` (that it is sent at most once is part of the promise), and
that the outcome is one of `Judgements` follows from `Placed` and from what the
agent's result can be. `EvaluationsAreBounded` adds the stages ahead of the
runner, the edit and the crash to the agent's `Left`: a run takes no more than
`RunSteps = Steps + 16` steps.

### ProcessWorldProofs, SideBySideProofs

Assumptions: `ProcessAssumption`, `SideBySideAssumption`. Theorems:
`TypeCorrect`, `StoppedCorrect`, `HeldCorrect`, `FreshCorrect`,
`SessionsAdvance` for the sessions; `SideBySideTypeCorrect`, `SessionsCorrect`,
`CallsGoHomeCorrect`, `StrayRunsCorrect`, `RunsAreSessions` for the runs inside
them, for any number of providers, ports, sessions and calls.

- *Sessions*: `ProviderOK` ties a provider's place in its session to what its
  handle is, and `OnePerPort` says that a port is served by one child at a time.
  A child that obeys a provider was spawned by it (`ObeyingIs`), and is the one
  it holds (`ObeyingIsHeld`): unless a `stop()` was cancelled, none of its other
  children is alive but the one being stopped, and then it has no URL. Hence
  `HeldCorrect` and `FreshCorrect`. `SessionsAdvance` is the safety half of
  `SessionsEnd`: no step takes a session back to an earlier stage or a child
  back to life, so a session can only fail to end by standing still.
- *Runs*: every step is a step of the sessions or leaves them alone
  (`RunsAreSessions`), so the theorems about sessions carry over. `CallOK` says
  that a call under way carries its own session's address and actor, and that
  this session is not judged yet; the tool reads the environment in the step
  that sets it, which is why the other calls' resets do not matter. `AstrayOK`:
  whose request went astray has lost its own child; the dead stay dead
  (`DeadStay`) and give no final snapshot.

### RunInputsProofs

Assumptions: `CurriculumAssumption`, `PackagesAssumption`, `InputsAssumption`.
Theorems: `TypeCorrect` and one each for `StartsFromOwnSplit`,
`RunsWhatItVouchesFor` and `MaterializedAsAllocated`.

- The invariant says of each process what it has read or written at its place
  (`CuratorsOK`, `AuthorOK`, `LoaderOK`, `RunOK`), and that a snapshot file is
  below the root of the curator that wrote it, one for each task produced
  (`FilesAtHome`). An edit that could separate a file from its hash is
  remembered in `edited`; the proof is that nothing else can.
- `MaterializedCorrect`: the tasks so far are the first of those the split
  lists, and all of them at the end (`Allocated`); a torn file's writer is at it
  or has raised (`TornByWriter`). That a valid split lists as many as it counts,
  each from an entry that allots it, is a fact about recursive functions over
  the entries (`SplitAllots`). The library's induction schemes take an operator,
  so the induction is over a *set* of indices (`UpTo`), from the naturals'
  well-foundedness; `Recursion`, `Sums` and `Flattened` are what it shows of the
  functions.

### RunStoreProofs

Assumption: `RunStoreAssumption`. Every invariant of the run `runstore`, its
action property `StoreLeavesOneRun` and its refinement `ImplementsArchive` are
theorems for any runs, directories and loaders. `store_run` writes the manifest
last, and `load_run` reads it first: a loader that has found the manifest of a
directory no other run writes to finds everything else of it in place
(`ManifestsLast`, `LoadsOK`). `Exclusive` says that one run at a time stores
into a directory, `Held` that what a run has written is there as long as no
other has written after it, `StagesOK` what a run has done by its stage,
`Predecessors` that who began to store in a directory earlier does so no more
and has nothing left where a run has written (so `LoadsNotStale`), and `KindsOK`
that a file holds what its name says, of a run given that directory.
`StoreImplementsArchive` is what that order is for: five replaces amount to one
`Store`, at the manifest's (`WriteIsPromised`), and five reads to one answer
that is whole and is what is there when it is given (`ReadIsPromised`).

### Model-checked only

The three liveness properties (`Termination`, `RunEnds`, `SessionsEnd`): fairness
and `ENABLED` are outside what the proof system can do. That work is finite, or
goes one way only, is proved (`RunsAreBounded`, `EvaluationsAreBounded`,
`SessionsAdvance`); that no step which is due is left undone is TLC's to show.

## 7. Where code and documents disagree

Each is shown by a run that ends in a counterexample; `PROJECT.json` has the
lines and the wording.

1. `agent_recording`: `recorder.append` copies a payload's top level only. A
   `model.request` event keeps the loop's own message list and is stored with
   the conversation of the run's end.
2. `process_cancel`: cancelled while the world becomes ready, `start()` does not
   stop the child (`except Exception` does not see `CancelledError`), and the
   session does not yet count as started. `StoppedUnlessAbandoned` is what does
   hold: this, and a cancellation of `stop()` itself, are the only leaks.
3. `runstore_reuse`: in a directory that is used again a load may return one
   run's manifest with another's trajectory and verification, without an
   integrity error, when their states are equal. `LoadsNotStale`
   (never anything the manifest's run found there) and `ImplementsArchive` (in a
   directory of one run) are what does hold.
4. `runner_silence`: a tool call that times out against the world makes the run
   a `tool_error`, although environmental failures are not to be attributed to
   the package. For crashes it is kept (`CrashNotCharged`).
5. `task_denial`: a `denied_read` task can only be passed with text its actor
   may not read. An agent that tries to read the page, is refused, answers with
   an explanation and changes nothing fails it.

## 8. Observations

Met while modelling; no document says otherwise, so they are no findings.

- A run whose only failed calls are 409s it recovered from still ends as
  `tool_error`, also when its verdict is `passed`.
- After a cancelled `stop()`, a provider that is used again may have two
  children of one key, and one of them may bind the port the other was to have;
  `FreshWhenOpen` and `ObeyedIsHeld` exclude this case by name.
- The fixtures grant writing under the key `writers`, which the resolver does
  not know. Their writers can write because they own the pages.
- In every family a change of the title passes the verifier, and in the
  `allowed` mode so does dropping the rest of the page. `PassWasEarned` says
  what a pass does mean.
- A run that does nothing is `partial`: the invariants count towards its score.
- The wall clock is looked at between calls only: a call may overrun the budget
  by its own HTTP timeout.
- Two concurrent `start()` of one provider would both find no process and spawn
  two children; the runner never does this.
- The race of a `concurrent_edit` task is staged after `get_page` only. An agent
  that reads the page by `search_pages` or `get_page_versions` and edits it is
  not raced, and by `PassWasEarned` cannot pass, although
  `domains/confluence/scenarios/concurrency.py:40` promises the update "after
  the first read".
- The raw API asks for no key, unlike the control API. When a world has crashed
  and another run's child has its port, the first run's tool calls revise the
  second run's world (`SPEC.md:1971` wants a fresh world for each evaluation).
  What holds is that calls leave for their own world's address (`CallsGoHome`)
  and that the run that went astray is not judged (`StrayRunsUnjudged`); the run
  whose world was written to is.
- Overlapping tool calls may leave another run's address in `os.environ` when
  all are done. Nobody reads it: each call sets its own values first.
- An artifact listed as `knowledge/x` is hashed at `knowledge/x`
  (`core/package.py:295`) and read at `knowledge/knowledge/x`
  (`runtime/reference_agent.py:332`): such a package loads and then fails as an
  environment error, or is prompted with a file no hash covers.
  `RunsWhatItVouchesFor` excludes this form by name.
- The runner verifies no hash. A file edited between load and run is used, and
  the stored `package_hash` is of the manifest as it was loaded. The declared
  capabilities of a package are not covered by any hash, and a package that
  declares none gets all that are granted.
- `core/package.py:298` compares a tuple with strings and never refuses
  anything; the path it would refuse is then looked up below its own layer, and
  is not found.
- The scenario modules `concurrency` and `concurrent_edit` both export the
  generator `concurrent_edit`: a manifest that names the first alone raises a
  `KeyError` in the middle, with the snapshots of the tasks before it staged, and
  one that names both is refused.
- An agent that edits after reading by search, and then reads with `get_page`,
  has its edit overwritten by the human body, which was computed from the
  snapshot and is sent with whatever version the page has. `NoLostUpdate` speaks
  of API clients only.

## 9. What is not modelled, and why

- *Agent packages*: the confinement of paths to their layers and the refusal of
  symbolic links (path arithmetic), `domain.yaml`, and `core/mutation.py`, a
  contract that nothing applies yet.
- *Scenario registry*: `materialize` does not use it.
- *Docker world*: every operation raises. *Telemetry, diagnosis*: set-up and
  data contracts without behaviour.
- *Recorder's* `flush`, which nothing but its tests calls (the runner hands the
  events to `store_run`), and `load`'s skipping of corrupt lines, which
  `load_run` does not ask for.
- *Data without control*: the parsing of the endpoint's JSON,
  prompts and message texts, pagination windows and query matching (any subset
  of the visible pages), the seeded choice of pages and wordings.
- *Verifier configurations the generators never produce* and
  `verification.assertion` events.
- *Power loss*: a crash is that of the process; the order in which a file
  system makes renames durable is not in this code.
- *`start_world`/`stop_world`* have no caller.

Permission maps are data of arbitrary nesting; the search for an entry is
abstracted to the entries it finds. `GlobalAdmins` and `SpaceAdmins` are fixed,
since no handler changes users or spaces.

## 10. The plan

Done, in this order: world and its abstract specification; agent and budgets;
processes and sessions; run store; runner; permissions, tasks and verifier;
proofs of the world and of a task's run; runs side by side; splits, packages and
what a run takes from them; proofs of the inputs, the store, the sessions and
the runs inside them, the agent and the runner.

Then the abstract run and the abstract archive, with the proofs that the runner
and the store implement them; what a split allots; the bounds on an agent's and
a run's work; sessions that only advance; the task's run as revisions of
versioned pages.

Next:

1. *Trajectory files*: incremental `flush` and a write that fails half way, once
   the runner uses it.
2. The verifier's refusals of malformed configurations.
3. An abstract session (one world, up once, gone for good) that `ProcessWorld`
   implements unless `start()` or `stop()` is cancelled, and on which `Runner`'s
   `world` rests.

The set of runs is kept at one per question; a new property replaces a
shallower one rather than lengthening the list.
