# RAGbench-MY in TLA+

A model of the parts of RAGbench-MY whose correctness depends on order: the
document library and its ingestion runs, the preparation of a document's text,
document intelligence, evaluation runs, sweeps over configurations, scheduled
regression checks, evaluation datasets and the question pipeline. Every module
is translated from the Go and Python sources; TLC checks each on small
instances, and TLAPS proves the most important invariants for every value of
the constants.

Contents: [the system](#the-system) · [modules](#the-modules) ·
[runs](#what-the-runs-show) · [fairness](#fairness) ·
[proofs](#what-is-proved) ·
[disagreements](#disagreements-with-the-documentation) ·
[not modelled](#what-is-not-modelled) · [plan](#plan)

## The system

A Go API (`backend/`) owns the PostgreSQL schema (`db/migrations/`) and serves a
Vue frontend. Long work is done by Airflow DAGs (`airflow/dags/`) in Python,
which either write to the same database (ingestion) or drive the API over HTTP
(document intelligence, evaluations, sweeps, regression checks). There is no
message queue: everything meets in PostgreSQL rows, in dagRun requests to
Airflow, and in HTTP calls from Airflow back to the API.

| component | state | operations | talks to | what is hard |
|---|---|---|---|---|
| **Document library** `documents/store.go`, `httpapi/documents.go` | `documents`, `index_revisions`, `ingestion_jobs`, files on the upload volume | upload, reprocess, retry-dispatch, record dispatch, delete | Airflow (dagRuns), workers (tables), analyses (cancelled by delete) | late or ambiguous dispatch results, deletion and replacement under running workers, requests whose commit is uncertain |
| **Ingestion workers** `ragbench/pipeline.py` | the same tables, `doc_chunks`, an advisory lock per job | `run_stage` for five stages, `mark_failed`, `task_failure` | embedding provider | READ COMMITTED snapshots, retries, attempts that outlive Airflow's patience, callbacks in another process |
| **Retrieval corpus** `searchable_chunks()` | a view over revisions and chunks | read | retrieval | never partial, older or deleted |
| **Normalization, chunking** `ragbench/content.py` | pure | `normalize`, `chunk` | called by workers | offsets, blank windows, last window, citations |
| **Document intelligence** `documentintelligence/`, `ragbench/intelligence.py` | `document_analyses` | create, dispatch, five stage calls (claim, work, complete or fail), `mark_failed`, cancel | LLM provider, Airflow | answers lost after their commit, overlapping calls, deletion during provider work |
| **Evaluation runs** `evalrun/`, `ragbench/evaluation.py` | `eval_runs`, `eval_results` | create, dispatch, execute case, finalize | pipeline, judge, Airflow | status from results counted outside the update, terminal statuses while cases remain, ambiguous dispatch |
| **Experiments** `experiment/`, `rag_parameter_sweep.py` | `experiments`, `experiment_combinations` | create, `Advance` (config, reindex, launch, watch, finalize), the DAG's bounded loop of steps | reindexing, evaluation runs | each step is several autocommitted statements; crash between effect and record; steps are bounded, what they wait for is not |
| **Reindexing** `documents/index.go` | none of its own | `ReindexNeeded`, `DispatchIndex` | document library | partial progress, refusals halfway |
| **Comparison, policies** `comparison/` | `comparison_records`, policies | compare two runs | evaluation runs | incomplete runs, rule precedence |
| **Regression checks** `regression/`, `ragbench/scheduled.py` | `scheduled_regression_checks` | start, finish | evaluation runs, comparison | verdicts written in the wrong order, or earned by too little |
| **Retrieval and answers** `rag/`, `trace/` | `rag_traces` | ask | providers | the corpus moves between statements; fusion, citations, an uncertain commit |
| **Datasets** `evaldata/` | `eval_datasets`, `eval_cases` | create, new version | document library, connection pool | overlapping edits, immutable versions, a pool shared with their own look-ups |
| **Scoring, judge, financial validation** | pure, plus a provider call | score, aggregate, validate | pipeline, analysis | missing is not zero |
| **Configurations, profiles, traces, metrics, health** | their tables | create and read | — | immutable rows, read-only queries |

What makes each correct is stated in the modules; `PROJECT.json` lists under
"hazards" the places where the code could go wrong in ways tests would hardly
reach, with the properties that cover each.

## The modules

| module | models | proofs |
|---|---|---|
| `Corpus` | abstract: what the library promises to search | |
| `Ingestion` | library API, Airflow runs, workers, callbacks | `IngestionProofs` |
| `Normalizing` | `normalize`, section by section | |
| `Chunking` | `chunk`, window by window | |
| `Content` | composes the two as `compute_stage` does | `ContentProofs` |
| `AnalysisLifecycle` | abstract: what an analysis promises its readers | |
| `Analysis` | document intelligence: API, Airflow run, stage calls | `AnalysisProofs` |
| `RunLifecycle` | abstract: what an evaluation run promises its readers | |
| `EvalRun` | evaluation runs: API requests, DAG, case and finalize calls | `EvalRunProofs` |
| `Comparison` | policies and verdicts, as operators | |
| `Regression` | composes `RunLifecycle` and `Comparison` with a scheduled check | `RegressionProofs` |
| `SweepMatrix` | the expansion of a matrix into cells | |
| `Experiment` | a sweep: `Advance`, reindexing, launching, on `SweepMatrix` | `ExperimentProofs` |
| `SweepDag` | composes `Experiment` with the DAG task that drives it, and the page | `ExperimentProofs` |
| `Answering` | the question pipeline over a moving corpus | `AnsweringProofs` |
| `Datasets` | dataset edits on a bounded connection pool | `DatasetsProofs` |

`MCIngestion`, `MCContent`, `MCAnalysis`, `MCEvalRun`, `MCRegression`,
`MCExperiment`, `MCAnswering` and `MCDatasets` give the small sets.

### Ingestion

*State.* `docs`, `revs`, `jobs` and `chunks` are the tables, without the columns
nothing here tells apart. A job belongs to one revision (a unique key), so jobs,
chunks and Airflow runs are indexed by the revision; the dagRun id is derived
from the job. `artifacts` is the set of stages whose handoff the job row holds,
`chunks[r]` says whether rows exist and whether they have vectors. `handlers`
are API requests between their transactions, `posted` the dagRun requests on
their way, `runs` and `callbacks` what Airflow knows, `workers` the task
processes inside `run_stage`.

*Actions.* A transaction whose first statement locks the document row is one
action: `createRevision` (`CreateDocument`, `Reprocess`), `RecordDispatch`,
`Delete`. Between `Create`'s commit and the dispatch the code reads the document
again (`GetAndDispatch`): what is dispatched may be a newer job, or nothing.
Airflow's answer to a dispatch may be lost while the request is still processed
(`DispatchErrored` leaves `posted` alone).

`run_stage` takes an advisory lock (`AcquireLock`), and then two transactions
with the computation between them. Each starts with `snapshot()`, *one* statement
that joins job, revision and document and says `FOR UPDATE OF d`. Under READ
COMMITTED a statement that waited for a row lock re-reads the locked row only:
the document is fresh, but job and revision are those of the statement's start.
The model therefore splits every snapshot in two (`ReadJob`/`OpenStage`,
`RereadJob`/`StoreOutput`..., `FailRead`/`FailStage`,
`CallbackRead`/`CallbackMark`): the first half records what `inactive()` will
see of job and revision, the second uses it with the current document. Workers
of one job are serialized by the advisory lock; the failure callback does not
take it, and that is where the two halves matter.

*Airflow* is external: five tasks in order, `Retries` retries each, a failure
callback after the last failure, which runs in a process of its own and may die
unless `CallbackReliable`. `AttemptLost` is Airflow giving up on an attempt for
want of heartbeats; at most `MaxLost` times that attempt is still alive.
`ClearTask` is the operator's retry of a failed run, taken when the callback has
ended.

### Normalizing, Chunking, Content

A character is "visible", "blank" or "control", all that `normalize_text` and
`strip` distinguish (NFC composition happens before and is left out). The state
of the loops is the code's: offset, parts and locations; start and chunks. Python
slices are start/end pairs. `Content` runs `normalize` on whatever the parser
returned and hands its result to `chunk`, so the assumptions chunking makes of
its text (no two blanks together, none at an end, something visible) are checked
rather than assumed.

### AnalysisLifecycle, Analysis

`AnalysisLifecycle` is what a reader of an analysis may rely on: its status and
stage, the stages that succeeded and their answers. A stage begins and fails only
when those before it succeeded and it has not; it may be published again, but its
answer is final once a later stage has begun; a completed or cancelled analysis
stays so. A job whose dispatch failed reads as one that still waits, which is
what retry-dispatch makes of it (`ViewOf`).

*State.* `rows` is `document_analyses`: job state, status, current stage (0 is
"dispatch"), the stage metrics, and the five outputs. An output is the number of
the answer it is (`answers` counts them), and `from` remembers which answer it
was computed from: content, usage, cost and spans are abstracted to that.
Analyses share nothing but their document, so there is one document.

*Actions.* A stage call is `claimStage` (`Claim`, `ClaimDone`, `ClaimRefused`),
provider work, then `CompleteStage` and on an error `FailStage`; the Airflow side
is `run_stage`'s call, its `mark_failed` and the task failure callback. Each
transaction locks the analysis row first. `claimStage` locks analysis, document
and revision together, so it re-reads all it looks at, and no split is needed
here. A call may go on unheard: the client gives up after 150 s, the server
writes for at most 180 s, and a stage takes at most 120 s. `MaxLost` bounds the
calls whose caller never learns what they did.

### RunLifecycle, EvalRun

`RunLifecycle` is what the run page, a sweep and a regression check may rely on:
a case is stored once and for good, a refused dispatch stays visible, and any
other status is the outcome of *some part* of the stored results. It is weaker
than one would like, and no stronger statement is true: `finalizeStatus` counts
in one statement and updates in another, and the count runs after every stored
case.

`EvalRun` has one action per statement the API commits. `requests` create a run,
mark it, post the dagRun and record the answer; `dags` is the `rag_evaluation`
DAG with its two tasks (`cases` reads the pending cases once and then asks for
them one by one; `finalize`); `calls` are execute and finalize calls inside the
API: look up a stored result, work, insert on conflict do nothing, count, update.
`lost` counts calls that go on after their attempt gave up on them, `manual` the
finalize calls an operator makes.

### Comparison, Regression

`Comparison` holds the pure part: policy validation, corpus identity, the rules'
verdicts with the quality-gain exception, and the outcome a check draws from
them. A metric is a sequence of at most one integer, `<<>>` for a missing value;
the code's floating-point numbers, compared with an epsilon of 1e-9, are the
abstraction. `Regression` runs the scheduled task (start, poll, compare, finish,
with Airflow's retries) and the start endpoint statement by statement against
one check row. The candidate runs behave as `RunLifecycle` says: a run that
finishes is whatever a reader of `EvalRun` can see.

### SweepMatrix, Experiment, SweepDag

`Expand` is the nested loop of `matrix.go`, two recursive functions: over the
dimensions, and over the settings found so far;
`Combinations`, the set it stands for, is the reference it is compared with.
`Experiment` is one sweep. A call of `Advance` reads the experiment, then the
cells (two statements), and takes the first open cell one step on: create or find
the configuration, reindex, wait, launch, link, refresh, finalize. Each committed
statement is an action, and the row a call works on is the one it *read*
(`Row(k)`), not the current one. `docs` abstracts the library to the active and
latest index of each document; `runs` to a status that shows "partial" from the
first case on. `trouble` records what has gone wrong, so that the properties can
say under which trouble they hold: `overlap` (two calls at once), `crash`,
`dropped` (an update whose error is ignored), `misread` (a read of a linked
configuration or run failed).

`SweepDag` says who makes the calls. The one task of `rag_parameter_sweep.py`
posts `Advance` steps back to back until one answers a terminal state; it raises
after `MaxSteps` of them, on an error, and on the answer "failed", and Airflow
retries it `Retries` times (`drive` is the task: its attempt, the steps the
attempt has posted, whether one found a reindex or a run going on). `Post` is a
request, `Step` a statement of the call it started, with what the loop makes of
the answer when that was the last one. `Page` is somebody clicking *Advance* on
the Experiments page; its hundred steps are single calls, nobody has to make
them. When the DAG's task is over, nothing but the page takes the sweep on.

### Answering

One request of `rag/pipeline.go`, one provider call or statement a step, while
revisions are published and documents deleted between them. Fusion scores are
exact fractions, texts are the sequences of evidence numbers they cite, the
reranker and the model may answer anything the code must be ready for, and
`Persist` may commit without the caller learning it. `torn` remembers the
requests for which the corpus changed between the two branches of a hybrid
retrieval. Rankings (a branch's `ORDER BY` with its filter, the sort of the fused
candidates, the order in which evidence is first cited) are all `Listed`: the
element at place i is the one that the order puts i - 1 others before.

### Datasets

`CreateDataset` and `NewVersion` as transactions that hold a connection:
`InsertDataset` (a unique name) or `LockDataset` (`FOR UPDATE`), then for every
evidence reference a look-up on *another* connection (`Resolve`), the insert of
each case, and the commit. A rolled-back transaction leaves nothing. What a
request asks is chosen at the start from `Edits`, sound and malformed.

### Left out everywhere

Logging, wording, timestamps, metrics and counters no guard reads, and requests
that change nothing (lists and reads). Ids are drawn from finite sets, so a
system that has used them all stops, and a request may end for good: all
configurations but that of `Content`, whose last step stutters, say
`CHECK_DEADLOCK FALSE`. What must not get stuck is stated as liveness instead.

## What the runs show

| run | instance | shows |
|---|---|---|
| `one_revision` | 1 document, 1 revision, 2 requests, 2 workers, 2 retries, 1 clear; fair, nothing lost | the served revision stays ready; an exhausted failure is visible; dispatch records never take a job back; every run settles |
| `replacement` | 2 revisions, 1 request, 2 workers, 1 live attempt given up, no retry, callbacks may die | rows agree; revisions are ordered and only the latest is pending; superseded revisions are never touched; until an attempt is lost, `Ingestion` implements `Corpus` |
| `lease_lost` | 1 revision, 2 workers, 1 retry, 1 live attempt given up, callbacks may die | handoffs and vectors are there when the next task needs them, though attempts of two tasks overlap; files are kept |
| `content` | all sources of 2 sections of ≤ 3 characters and of 3 sections of ≤ 2, sizes and overlaps 0–4 | offsets are those of the joined text and nothing visible is lost; windows cover and advance; slices overlap and cite correctly; the stages end, with chunks exactly when possible |
| `analysis` | 1 analysis, 2 calls, 1 lost answer, 1 clear, callbacks may die; fair | columns agree, reports are complete, outputs chain, successes, ends and progress are kept; until an answer is lost, nothing is stranded in processing, nothing is published for a deleted document, and every run settles; throughout, `Analysis` implements `AnalysisLifecycle` |
| `eval_run` | 1 run, 2 cases, 2 calls, 1 retry, 1 call unheard, 1 manual finalize | a completed status is real, a successful DAG run is whole, and `EvalRun` implements `RunLifecycle` |
| `regression` | 2 runs of 2 cases, 1 start request, 1 retry, 1 lost answer, completed and partial baselines, 2 corpora | the row's verdict is that of its last run; a pass is earned |
| `experiment` | 2 accepted and 2 refused matrices (2 cells, 1 cell), 2 documents, ≤ 3 runs, ≤ 1 kind of trouble, a DAG of 9 steps an attempt and 1 retry, the page once the DAG is over; fair | one run per cell, nothing undone, a completed sweep has every cell linked to a run that shows a result, runs use their cell's index, a sweep settles or the DAG used up its steps while something it waits for went on |
| `answering` | 1 request, 3 configurations, 2 documents, 4 revisions, 5 chunks, texts of ≤ 2 citations | answers are traced and grounded, the context is the best ranked that fits, of one revision a document; fusion keeps an order both branches agree on |
| `datasets` | 1 dataset, 2 documents, 3 edits on 3 connections; fair | versions are whole payloads and never change; every edit ends, unless the pool is exhausted |
| `lease_lost_active`, `incomplete_pass` | the smallest instances | a documented promise fails ([below](#disagreements-with-the-documentation)) |

*Why these bounds.* Two revisions of one document are what fencing is about; two
documents meet only in the checksum index, which guards `CreateDocument`. Two
workers are the attempt given up and its successor, or the attempts of two
revisions. One lost attempt, answer or call is what breaks the promises that
break, and most properties that survive it are proved for any number. One clear
adds a second life to a failed run; more repeat it, and in `analysis` the cleared
task plays the retry (`Retries` is 0 there; the theorems hold for any number).
With texts of up to eight characters and sizes up to four there are several
windows, windows that end at, before and past section ends, and an overlap of
every width. Two cases are the fewest with a status between the first result and
the last; two calls are the heard one and the unheard, or the operator's. The two
runs of `regression` are those of an attempt and its retry. The two cells of
`experiment` need different indexes, the second the one the library had before
the first cell's reindex, over two documents, so that a reindex can stop halfway;
three runs leave room for the duplicate that must not be launched. One kind of
trouble at a time is enough to break each promise that one breaks; the theorems
hold for any `MaxTrouble`. A cell that waits for nothing takes four steps
(configuration, index, launch, refresh) and finalizing one, so `MaxSteps` is
4·2 + 1, as the code's 1000 is more than the 4·64 + 1 of the largest matrix it
accepts: in both, only waiting uses the steps up. With one element in
`Calls`, the page's calls come after the DAG's. The chunks of `answering`
have an old and a new revision of each document, one of another embedding
identity, equal distances, and sizes of which the budget takes two or three. Three edits
on three connections are the smallest pool in which an edit, one that waits for
its row and one more can starve each other.

`incomplete_pass` is `regression` with no retry and nothing lost. Liveness is
checked without symmetry. The symmetry sets permute revisions, workers, requests,
runs, cases and calls, none of which the modules tell apart.

## Fairness

`Ingestion`: weak fairness of the scheduler starting a queued attempt, of a task
process taking its next step, of a callback, of a result being noticed, and of a
lost heartbeat being noticed. Airflow's scheduler loop and PostgreSQL's lock
queue give these; `execution_timeout` turns a step that hangs into
`AttemptDies`. `Analysis`: the same, and the stage calls, each bounded by its
context's timeout. `Content`: the loops go on. `SweepDag`: the task's attempts
run, Airflow retries one that raised, the API answers its steps, and the reindex
and evaluation DAGs end, each of which has its own timeout; all of it only while
nothing has gone wrong, and `Advance` is called no more often than the bounded
loop does. Nobody has to use the page. `SweepSettles` therefore promises no more
than that a sweep settles or the last attempt ran out of steps after it had to
wait ([disagreement 14](#disagreements-with-the-documentation)); that a step
which waits for nothing gets the sweep on is what it excludes. `Datasets`: a request that can go on does; clients need not
disconnect. Nothing is assumed of users: a document may never be dispatched, and
only what exists must settle.

## What is proved

All theorems hold for any sets of documents, revisions, requests, workers,
analyses, runs, cases, datasets and calls, any matrices and policies, any number
of retries, lost attempts or answers and cleared tasks, and whether or not
callbacks are reliable. The only assumptions are the named ones of the modules:
bounds are naturals, edits have their type, a source is a sequence of section
texts and a configuration two naturals, base settings and matrices are of naturals, `None` is none of the identities,
policies are valid, finitely many revisions are ever created, a corpus
snapshot maps finitely many documents, a chunk fits the context budget, each
branch of a retrieval lists a chunk once, and the limits and the rank constant of
a configuration are positive (`ragconfig/config.go:232-275`). Where a promise of the code ends with the
first lost attempt or answer, the theorem says so in its statement (`lost = 0`,
`Alone`), as the property does; the counter-examples of TLC show that it must.

**IngestionProofs**, the tables (`TypeCorrect`, `RowsAlwaysAgree`,
`RevisionsAlwaysOrdered`, `SourceAlwaysKept`, `FencedForever`,
`DispatchForward`). The inductive invariant
`IInv` is type correctness; `RowsAgree`, `PendingIsLatest`, `LatestIsNewest` and
`SourceBytesKept`, which need one another; and what ties processes to rows: a
stored revision has a stored document (`RevisionsOwned`), runs, callbacks,
workers and requests refer to stored revisions only (`RunsRefer`,
`HandlersRefer`). `RowsAgree` alone is not inductive: a stale snapshot that says
"not settled" lets `SetStatus` overwrite a row, which is harmless for agreement
only because the overwritten revision is the latest of a live document, which is
`PendingIsLatest` and the fresh half of `Inactive`. Numbers are increasing
because `NextNumber` exceeds the latest's, which `LatestIsNewest` says is the
maximum. There is one lemma per kind of writer of the tables (creating a
revision, recording a dispatch, deleting, setting the status, publishing) and a
case per action. `FencedForever` (`OutputFenced`) and `DispatchForward`
(`DispatchNeverRegresses`) are the action properties that follow from the
invariant.

**IngestionProofs**, the attempts (`ActiveStaysUsable`, `FailureAlwaysVisible`,
`WorkAlwaysPresent`, `ServesForward`). `AttemptInv`, on top of `IInv`, is about
processes: the attempt Airflow watches carries its run's stage (`Paired`); the
advisory lock keeps attempts of one job apart, watched or not (`LocksExclude`),
so a snapshot that found a revision not ready is still right when it is used
(`SeenFresh`); what a document serves is its own and embedded (`ActiveWhole`);
while nothing was given up on, every attempt is watched and a callback knows its
revision (`Watched`). `WorkKept` says what an attempt leaves for the next: its
stage's handoff, or a settled revision. It is inductive only where `Safe` holds:
no attempt was lost, or nothing was cleared and the run has not failed, because
a callback with a stale snapshot can undo a publish. So `WorkPresent` is proved
for `lost = 0 \/ cleared = 0`, which covers the instance that checks it and is
as far as it is true (disagreement 10). `ServesForward` is the refinement of
`Corpus`: every step either stutters for the library's readers or is the `Serve`
or `Remove` of one document, `NumbersCount` giving the served number its bound.

**ContentProofs** (`TextAlwaysKept`, `SlicesAlwaysFaithful`, `ContentSound`,
`ContentTyped`, `ContentEndsRight`; of chunking on its own `ChunksTyped`,
`ChunksSound`, with its parts `ChunksCover` and `ChunksAdvance`). What `strip`,
the collapsing of blanks and the joining of sections compute is defined by
recursion over their input. The library's induction takes an operator, which the
provers cannot instantiate; here it comes from the least number of a set
(`Least`, `Reached`), and so does the fact that a recursive function satisfies its
equation (`Recursion`). With these `NormalizeTextFacts` says that a cleaned text
is neat (no two blanks together, none at an end, no control character) and has as
many visible characters as the section, and `JoinedFacts` what joining does to
lengths and visible characters. `JoinInv` then follows `normalize` from section to
section: each recorded range holds its section's text in the joined one, and the
visible characters so far are those of the sections read. In `chunk` the invariant
says where the loop stands (`Progress`): everything visible up to `start` is in a
chunk, and the chunks so far start and end before the next window does. That
slices overlap by the configured width and cite their sections (`Faithful`) holds
only of texts `normalize` hands over: in an arbitrary text a blank window can be
skipped between two chunks, in a neat one no window of more than one character is
blank. `ContentInv` carries that from one stage to the next. `ContentEndsRight` is the
safety half of `ContentPrepared`: when the stages have ended there are chunks
exactly when something is visible and the configuration is possible.

**AnalysisProofs** (`TypeCorrect`, `RowsAlwaysWhole`, `OutputsAlwaysChain`,
`RowsAlwaysForward`, `ImplementsLifecycle`, `NeverStranded`,
`DeletedAlwaysFenced`). One row is the
unit: `RowInv` holds of a row what the
properties say of it, `Kept` relates a row to its successor, and one lemma per
writer shows `GoodStep`, both together. `IInv` adds that Airflow's run is never
behind its row (`RunsLead`), that a call belongs to a stage its run has reached
and, while it works on the current stage, has the persisted input
(`CallsFollow`), and that an attempt waits for its own call (`WaitsForItsCall`).
`OutputsChain` rests on the last conjunct of `CallFollows`: a claim of the
current stage cannot survive a change of the stage's input, because outputs
change only at the current stage and stages only go forward. The action
properties follow from `Kept` at every step, and the refinement from `Moved`,
the third part of `GoodStep`: what a writer makes of its row is a move of
`AnalysisLifecycle`, or nothing a reader sees. It needs `Created` (requests, runs
and calls are about analyses that exist), and of `RowInv` that the stages
that succeeded are those before the current one, with or without it. The last two theorems are about
analyses whose answers are all heard. `HeardAt` says what is true of each then:
its calls are those its run waits for, and work on a row in processing or
cancelled; once the document is deleted its job has ended; a run that failed has
a callback to come or an ended job; and a success of the run's own stage is about
to be heard. The last conjunct is what makes the others inductive: without it a task could fail on a stage that
succeeded, which nobody may fail any more.

**EvalRunProofs** (`TypeCorrect`, `FinishedAlwaysWhole`, `ImplementsLifecycle`).
A stored result never changes, so what a call counted is the outcome of a *part*
of the results that are stored now (`CountsReal`), however late it is written;
that a completed status is real (`CompletedIsReal`) follows, because a part that
is complete is the whole. The refinement needs that no count is written before
the run was started (`Created`, `MarkedFirst`); its step is `Settle` with the
counted part as witness. The second half of `FinishedIsWhole` says what the last
count of a successful DAG is worth: `DagsFollow` relates what the DAG still has
to do to what is stored, and `LastCountFinal` says that while no call goes on
unheard, the only call that can write after the last case is the finalize call
the DAG waits for.

**RegressionProofs** (`TypeCorrect`, `PassAlwaysEarned`, `VerdictAlwaysOfLastRun`,
`EvidenceKept`). Only an enabled check on a completed baseline creates a run,
and nothing is compared that was not created (`RunsCreated`); a run is in the
hands of one start request or of the task (`OneHolder`). So what `Passing` says
of the verdict the task holds and of the row is inductive: a pass rests on a run
of the baseline's very corpus, terminal, with a completed case, and recorded as a
pass; and `EvidenceKept` says that no step takes any of that away. It uses of
`Comparison` only which outcome a verdict becomes, whatever the metrics are.
`RowFollows` is about checks whose answers all arrive: the task waits for the
only request in flight, and a run that is being polled is the row's and has no
verdict yet.

**ExperimentProofs** (`TypeCorrect`, `NothingIsUndone`, `OneRunPerCellAlways`,
`AlwaysExpandsOnce`, `SettledAlwaysWhole`, `RunsAlwaysUseTheirIndex`, `DagDrivesTheSweep`), for any
matrix, any number of documents and of calls. `Advance` reads and writes in statements of its own, so
everything depends on what was read being still so. `Quiet` says for how much
this holds while calls do not overlap: a cell is dispatched, then ready, then
linked (`Ordered`), and the rows a call holds are the stored ones but for its
own writes (`Fresh`). On it stand three invariants, one a trouble: `RunsKept`
(a run is linked, or its cell is marked failed, or its call is about to link it)
when no call died and no update was lost; `WholeInv` (a completed sweep is done
in every cell and failed in none) when no read failed; `ServedInv` (a document that moves, moves
to the index the first open cell needs, and is there when the cell is ready)
when no failure was lost and no cell failed. `AlwaysExpandsOnce` is about the
matrix alone: `Expand` lists every combination that an accepted matrix stands
for, none twice. It is an induction along both loops by the same lemma
`Recursion`: the settings after so many dimensions list (`Lists`) the
combinations of those dimensions over the base (`Chosen`), because varying one
dimension of distinct settings gives distinct settings (`WithDiffers`).
`SettledAlwaysWhole` rests on it, and on two invariants that hold through any
trouble but overlap. `LinkedInv`: a link names a run launched for its cell, a
status that counts as done has a link, and a result the row shows was shown by
that run (`Shown`, which no step of a run takes back, though a run that shows
`partial` may go on). `RefusedInv`: unless a call died or lost an update, a row
that shows a refused dispatch has a failure, or its call is about to store one.
`DagDrivesTheSweep` says that `SweepSpec` implements `Spec`, whatever the DAG's
steps and retries: each of its steps is a step of `Experiment` or leaves it
alone, so every theorem here is about the driven sweep too.

**AnsweringProofs** (`TypeCorrect`, `ReplyAlwaysTraced`,
`CitationsAlwaysGrounded`, `ContextAlwaysRanked`, `AlwaysOneRevisionPerDocument`,
`FusionAlwaysKeepsOrder`). The pure parts come first. `Listing`: by any strict
total order `Listed` has every element once, earlier ones first, because the
elements before one are fewer than those before a later one. `PrecedesOrders`
shows that the comparison of fused candidates is such an order (scores are
compared by cross-multiplication, with `Cross` and `Scale`), `AboveScoresHigher`
that being ahead in both branches, where a missing rank is behind every rank,
means a higher score; so fusion keeps the order, and what the limit cuts off is
behind. `ContextFacts` says that the selected context is the longest prefix
that fits, not empty because any one chunk fits; `CitedFacts` that what the
mapping accepts is grounded. The invariant is one condition for each request:
`Sound` (evidence is ranked when it is chosen, and a success is grounded),
`Traced` (nothing is stored or said before `Persist`, and what is said was
stored), and, while the corpus stood still between two branches, `OfOneCorpus`
(the candidates were searchable at one moment, when every document had one
active revision). `OneRevisionPerDocument` speaks of a corpus that has since
moved on, and is inductive only with this memory of the moment of retrieval.

**DatasetsProofs** (`VersionsAlwaysWhole`, `HistoryAlwaysKept`, `NeverStuck`). `OneOwner`: the
row lock, or the unique name of an uncommitted insert, gives a dataset at most
one transaction between taking its version number and committing. So the number
a transaction holds is the next one until it commits (`RowsOwned`), which makes
the commit add a version and leave the others (`CommitAdds`). `RowsOwned` also
says which rows a transaction has inserted so far, `EvidenceSeen` that the
references it has checked were live when it began, and `VersionsStored` that
every version is the payload of a request that committed it. `NeverStuck` is the
safety half of `EditsEnd`, for a pool of any size and any number of edits: as long
as one of them is not over, one can go on, unless the pool is `Exhausted`.
`CanGoOn` says what the next step of a request waits for, and because ENABLED is
out of the prover's reach, `StepExists` shows that there is such a step by naming
the state it leads to (`After`).

**Only model-checked.** Liveness (`RunsSettle`, `RunsSettleUnlessLost`,
`ContentPrepared`, `SweepSettles`, `EditsEnd`), which the prover does not reach.
Every invariant and action property that a passing run checks is proved; so is
the type invariant of `Analysis`, which its run leaves to the proof.

## Disagreements with the documentation

Two have a run whose counterexample TLC finds.

1. `lease_lost_active` — docs/API.md:307-309 says the active revision stays usable
   after a replacement's failure. When the last attempt is given up while it
   publishes, the failure callback's snapshot waits for the publish, then judges
   by the old columns and fails the revision that has just become active
   (pipeline.py:50): search loses the document.
2. `incomplete_pass` — docs/API.md:650 says incomplete runs are never a clean
   pass. A run shows `partial` as soon as its first case is stored, the scheduled
   check stops polling then, and `ToRegionAggregates` (evalrun/aggregate.go:71)
   does not notice a case without a result: the check passes on one case.

The others bound the properties above, each of which says in its statement what
it leaves out.

3. docs/API.md:342-343 says an exhausted failure becomes visible. An attempt given
   up may still open its stage after the callback (pipeline.py:74) and sets the
   failed revision back to pending; when it then dies, neither retry-dispatch nor
   Reprocess accepts the document. `FailureVisible` is checked with nothing lost.
4. documents/store.go:272-274 says deleting fences document-intelligence workers.
   Deletion spares failed jobs, and `CompleteStage` (documentintelligence/store.go:501)
   looks for neither failure nor deletion, so a call that goes on unheard
   publishes. `DeletedFencedUnlessLost` excludes it.
5. docs/API.md:381-382 and runner.go:94-96 promise a terminal state. When the
   answer to a stage that succeeded is lost (intelligence.py:137), the run fails,
   nobody may fail the stage, and the analysis stays in processing.
   `NotStrandedUnlessLost` excludes it.
6. experiment/advance.go:42-43 says Airflow retries never duplicate runs. Two overlapping calls of
   `Advance`, or one that ends between the launch and its link, launch a second
   run for a cell. `OneRunPerCell` names these.
7. docs/DATA_MODEL.md:240 says a failed reindex never evaluates against the wrong
   corpus. When the answer
   to a reindex dispatch is lost (documents/index.go:109-124), the cell fails, but
   the document is indexed all the same, under the cells that follow.
   `RunsUseTheirIndex` is about sweeps without a failed cell.
8. A run whose `MarkRunning` fails is returned as created and nothing ever
   dispatches it (httpapi/evalruns.go:54).
9. As many dataset edits as the pool has connections can wait for one more
   connection each (evaldata/store.go:185) until a client gives up; the API has no
   deadline of its own. `EditsEnd` names this state, `Exhausted`.
10. `WorkPresent` also fails when a lost attempt and a cleared task combine; the
    run that checks it has no clear.
11. experiment/store.go:72-73 says a cell is done when its run reached a terminal
    state. A run shows `partial` from its first case on, so a sweep completes, or
    the next cell's reindex moves the library, while the run executes the rest.
    `SettledIsWhole` asks for a run that shows a result, not for one that ended.
12. experiment/advance.go:216-217 says failures of the matrix are reported visibly.
    When a linked run cannot be read, its cell is failed (advance.go:178-182), but
    `finalize` in the same call counts the cell as it was read before: if its
    run had no failure then, the sweep completes with a failed cell.
    `SettledIsWhole` says so for `misread`.
13. experiment/advance.go:159 keeps the link visible when a dispatch was refused.
    Its status is stored first (advance.go:161) and makes the cell done; a call
    that dies before the failure is stored (advance.go:164), or whose update is
    lost, leaves a sweep that completes with a run that never ran.
    `SettledIsWhole` names a crash and a lost update.
14. rag_parameter_sweep.py:31-32 says every step is a safe re-entry and the
    experiment converges. A step that finds a reindex or a run going on answers at
    once, so both attempts may post their thousand steps before it ends; the task
    then fails and leaves the sweep unsettled until somebody advances it, which
    `SweepSettles` names. After a call that ended between a link and its status, the
    task also raises on the answer "failed" that step 5 gives for one cell
    (advance.go:183-186), though the sweep goes on.

## What is not modelled

*Extraction* (PDF, DOCX, OCR) is library I/O: `content` starts from what it
returns. *Financial schema and validation* are pure checks of one report against
a policy, with exact decimals: a property could only restate each comparison; in
`Analysis` they are a stage's answer or its failure. *Metric formulas and judge
scores* are floating point; which results count and when a run is complete is
modelled. *Provider clients* keep no state; callers' cases for them are in
`Answering` and `Analysis`. *Configurations, model profiles and settings* are
single rows inserted or updated once. *Trace and metrics queries, the upload
reconciliation report, startup, health and HTTP plumbing* change nothing. *The
frontend and the seeding scripts* are clients of the API. *Lock order*: a cycle
of row locks makes PostgreSQL abort a transaction, which the modules have as a
failing step. Two overlapping `Advance` calls are in the module but not in its
run (`Calls` has one element), since no property survives them.
Nothing in the API starts the sweep DAG: an operator triggers it, and `SweepDag`
begins when one has.

## Plan

What is left: the reconciliation rules of financial validation as operators, with
exact decimals, checked against a reference; and a safety half of `SweepSettles`
like `NeverStuck`: every step of the DAG that waits for nothing takes a cell on.
