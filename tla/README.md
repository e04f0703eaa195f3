# sentilyzer in TLA+

sentilyzer is a sentiment service. A Go API fans a question about a topic out to social platforms and news,
has the texts classified by a Python worker, and returns scores. A Python pipeline on Modal distils the worker's
student model from a corpus that a Go harvester collects around the clock. This directory holds TLA+ modules of
the parts where order, time and failure decide whether the system is right, the TLC configurations that check
them, and TLAPS proofs.

`PROJECT.json` lists the parts, the runs, the hazards and, for every definition, the source lines it stands for.

    tlc -workers 2 -config MCCorpus.cfg MCCorpus      # one run
    tlapm Corpus_proofs.tla                           # the proofs

## 1. The system's parts

### Harvester (`api/internal/harvest`, `api/cmd/sentilyzer-harvest`)

*State*: one gzip part file per kind (documents, tombstones) and UTC date, the compressor's buffers, the cursor in
memory and the cursor file. *Operations*: `Run` connects to the Bluesky firehose from the cursor less five seconds,
hands each event to `handle`, which writes a document or a tombstone, saves the cursor every few seconds and after
every stream, backs off and reconnects; a signal or `-duration` ends it and `main` closes the writer. *Interacts*
with the firehose (redelivers from a cursor), the disk, and with training through the files. *Hard*: five places
hold a notion of "where we are" (server, last event read, cursor, cursor file, what the files really hold), and a
connection, the disk or the process can break between any two of them. *Correct when* no resume passes an event
that was not written; rows are lost only in calls that say so; files follow the date; deletions reach the files
before their cursor is final; and a running harvester gets everything written. The RSS and
GDELT modes are single best-effort passes over the same writer: a feed that fails is counted and passed over, a writer
that fails or a signal ends the pass, and only an exit through `main`'s end closes the files. *Correct when* a pass that
exits with 0 has written exactly what it was given.

### Preparation of the training set (`pipeline/prep.py`)

*State*: none; one DuckDB query over the corpus files: anti-join with the tombstones, length bounds, one row per
content, a cap by hash. *Correct when* no revoked text is in it, no live one is lost to a revoked duplicate, and
the result does not depend on the order of the files.

### Orchestration (`pipeline/modal_app.py: run_pipeline, lock_decision, unlock`)

*State*: a record in a shared `modal.Dict`: `run_id`, `started_at`, `beat_at`, the Modal input. *Operations*: get,
decide (fresh, resume, skip), get again to keep the run's age, put, a thread that puts a new beat every minute, the
stages, pop. *Hard*: no two of these are one step; containers are preempted and their input retried under the same
run; beats are late; any orchestrator pops whatever lock there is. *Correct when* two orchestrators are never at
work at once, only silent runs are taken over, only living ones refuse, and the three hours count from a run's birth.

### Stages on the shared volume (`modal_app.py`, `label.py`, `label_aspects.py`, `kd.py`, `hn_archive.py`)

*State*: a Modal volume that several containers mount, each with the view of its last `reload`; `commit` publishes
changed files, last writer wins. Label files rewritten per window, a training set per run, a checkpoint, an export,
a report. *Hard*: an orphan of a displaced run keeps committing next to its successor; timeouts retry a stage half
done; a month of an archive is several files. *Correct when* labels are never lost, the gate scores rows the student
has not seen, and a resumed stage continues what it began.

### Topic service (`api/internal/service`, `api/internal/cache`, `api/internal/inference`)

*State*: an LRU cache of answers with a TTL, shared by all requests; per request the fan-out's results. *Operations*:
look up, choose the platforms the caller may use, one goroutine per platform under a budget of 3 s, classify (and
classify aspects) under 30 s, aggregate, cache a complete answer. *Hard*: concurrent misses, credentials of the
caller, platforms that fail or hang or answer in part, deadlines of four layers. *Correct when* an answer is one to
the caller's own question with its own credentials, is fresh, arrives within the budgets, and a failure is seen by
the caller that met it and is not pinned for everybody.

### Model store (`ml/sentilyzer_ml/model_store.py`, `ManagedBackend`, `Ready`)

*State*: the backend that answers and its run's name, a lock, and a cache directory that outlives the process. In the
bucket: artifacts and the pointer `students/current.json`. *Operations*: `refresh` reads the pointer, downloads,
checks the hash, loads, assigns backend and name; `start_polling` repeats it. *Hard*: requests and `Ready` read
between any two steps, downloads break off half done, the publisher writes meanwhile. *Correct when* requests see
nothing but whole promoted models, failures change nothing, and what is promoted arrives. The worker as it is started
today serves a fixed directory (`StaticStudent`); the store is what it is built to be given.

### Connectors (`api/internal/connectors`, `api/internal/config`)

*State*: two of the ten share something between searches: GDELT the time of its next free slot, Reddit a bearer token
behind a mutex. *Operations*: `Search` turns a query into one request to a platform (limit, window, language, place,
key) and its posts into documents. *Hard*: slots that are taken and given up, a mutex that is locked outside the search's
context, ids that are unique only per author or feed, windows that the platforms know only coarsely, and keys of
operator and caller that must each go to their own host. *Correct when* GDELT is never asked too soon, no search waits
or uses a token beyond a bound, each post counts once, and a key goes where it belongs.

### Inference client (`api/internal/inference`)

*State*: none. `Classify` and `ClassifyAspects` sort texts by length, cut them into calls the worker accepts and put the
scores back. *Correct when* every score comes back to its own text and aspect, and an answer of the wrong length is an
error.

### Transports (`api/internal/server`, `api/cmd/sentilyzerd`)

*State*: the buckets of the rate limiters, the open requests, and how far a stop of the process has come. *Operations*:
REST, GraphQL and gRPC handlers over one service; negotiation of the format; credentials from headers; shutdown on a
signal. *Hard*: limits shared by two groups of routes, three layers of deadlines of which GraphQL and gRPC lack one, HTTP
drained before gRPC, and four ways of asking that ought to mean the same. *Correct when* a budget is one budget, a stop
ends and cuts off only what is too slow, a response has the format asked for, and a question means the same whichever
way it comes.

### The rest

The encoders, text heuristics, numerics and generated code hold no state that a model could say something about.

## 2. Modules

| module | models | builds on |
|---|---|---|
| `CorpusWriter` | `corpus.go` | |
| `Harvest` | `bluesky.go`, `jetstream.go`, cursor file, `main.go` of the harvester | extends `CorpusWriter` |
| `TrainingSet` | `prep.py` as a definition of what the query returns | |
| `Preparation` | preparations of any corpus while it grows, and what they must keep | extends `TrainingSet` |
| `Corpus` | the harvester and the query over the files it leaves | extends `Harvest`, instance of `TrainingSet` |
| `RunLock` | `lock_decision`, `run_pipeline`, the beat thread, `unlock` | |
| `TrainingStages` | `prep`, `label`, `label_aspects_stage`, `train`, `evaluate`, the `try` of `run_pipeline`, the flushes of `label.py` and `label_aspects.py` | |
| `ServedModel` | what the worker promises of the student it serves | |
| `ModelStore` | `model_store.py`, `served_run_id` and `Ready` | implements `ServedModel` |
| `TopicService` | `service.go`, `cache.go`, the deadlines around them | |
| `Gateway` | `main.go` of sentilyzerd, the routes of `rest.go`, `ratelimit.go` | |
| `GdeltThrottle` | the slots of `connectors/gdelt.go` | |
| `RedditToken` | the token of `connectors/reddit.go` | |
| `BatchHarvest` | `harvest/rss.go`, `harvest/gdelt.go`, the end of `main.go` | extends `CorpusWriter` |
| `Harvesters` | `sentilyzer-harvest` with any source | extends `Harvest`, `BatchHarvest` |
| `Serving` | `sentilyzerd`: topic analyses, gateway, throttle and token side by side | extends the four |
| `Orderings` | sorted numbers, the places of a list, and those of a list that pass a test, as Go's loops compute them | |
| `Searches` | the ten connectors' requests and documents, `config.go`, `factory.go` | |
| `InferenceBatches` | `client.go` and `batch.go` of the inference client | |
| `Analysis` | `AnalyzeText`, the second half of `AnalyzeTopic`, the aggregator, `fake.go` | extends `InferenceBatches` |
| `Negotiation` | `negotiate.go` | |
| `Surfaces` | `rest.go`, `graphql.go`, `grpc.go`, `creds.go`, `errors.go`, `export.go` | extends `Negotiation` |
| `Algorithms` | what the modules without state promise, each against a reference said in another way | extends `Surfaces`, `Analysis`, `Searches` |
| `TrainingStages_proofs`, `ModelStore_proofs`, `TopicService_proofs`, `RunLock_proofs` | theorems about the module of that name | extends it |
| `Corpus_proofs` | theorems about `Harvest`, about the batch pass of `Harvesters` and about `Corpus` | extends the three |
| `Serving_proofs` | theorems about `Gateway`, `GdeltThrottle` and `RedditToken`, and about `Serving` as a whole | extends `Serving`, `TopicService_proofs` |
| `Algorithms_proofs` | theorems about `Preparation`, and about the batches, the negotiation and the searches of `Algorithms` | extends both |
| `Answers_proofs` | theorems about an answer as a whole: the surfaces, and every post from its platform on | extends `Algorithms_proofs` |
| `MCHarvesters` | the instances of `Harvesters` | extends `MCHarvest`, `Harvesters` |
| `MCServing` | the instances of `Serving`: its parts share no variable, so one of them moves in each behaviour | extends `MCTopicService`, `Serving` |
| `MCAlgorithms` | the bounded inputs of the modules without state | extends `MCTrainingSet`, `Algorithms` |
| `MC...` | the instances TLC checks | the module of that name |

Operators commented *Seeded bug* are not part of any specification. Each is a definition with a plausible mistake
in it; put in the place of the definition that follows it, it makes one of the properties fail, which shows what
that property is able to see.

### The corpus writer and the harvester

A row is named by the position of its event in the firehose, and a position stands for `time_us`. `part[k]` is the
field `docs` or `tomb`: the rows still inside the gzip stream (`buf`), the date of its directory, and whether stream
and file still work. `disk[k]` are the rows a reader gets out of the part files. `Encode` moves any number of the
oldest buffered rows to the disk, because the compressor emits blocks when it pleases; only closing a part moves all
of them. `Rotate` is the body of `part()`, error paths in the order of the code. `accepted` remembers the rows
whose call returned nil.

`Harvest` has one action per thing that can happen to `Run`: `Dial`/`DialFails`, `Deliver` (one event: `last` moves,
the handler writes, the cursor may be saved, or the writer's error ends the stream), `ConnectionDrops`, `Reconnect`,
`StopInBackoff`, `Exit` (the deferred `Close`), `Crash`. `EndStream` is all of what `Run` does after `Stream` returned.
The save of the cursor is a choice (`cursorFile' \in {cursorFile, pos}`), because it is due by the clock and its error
is only logged. What `handle` ignores or the filter skips is one kind of event, `other`. The filter samples by a hash
of the post, so a redelivered event gets the same verdict.

### The training set and the corpus

`TrainingSets(rows, tombs)` is the set of results the query may return; ties that the query leaves to the engine are
choices. `Preparation` adds rows and tombstones in any order, as the two `Write` methods of `corpus.go` do, and compares
what `Prep` keeps with a definition that knows nothing of stages: each live text of legal length once, up to the
cap. `MCTrainingSet` gives it the rows. `Corpus` runs the query on the files of the harvester and asks what a
revocation in the firehose means for the set.

### The run lock

Times are in minutes of the heartbeat. `Decide` is the first get and the decision, `KeepEpoch` the second get of a
takeover, `WriteLock` the put and the start of the thread, `BeatBegins`/`BeatLands` the two ends of a beat under way,
`StagesEnd` and `PopLock` the `finally`. The stages take any time. `run` carries the moment the run was born and who
drew it: two executions that draw within one minute may draw the same `run_id`, as the code's may within a second.
`raced` and `overrun` record that an invocation decided between the get and the put of another, or that a lock outlived
the cap while an orchestrator was busy: the one in the Dict, or one that an orchestrator, or its last beat, is still to
write (`OverCap`). Both happen in the code, and `DoubleFiresAreStopped` fails without them being excluded.

### The stages of a training run

`vol` is the committed volume, file by file: the corpus, a training set per run, one labels file per labelling stage
that all runs share, and a checkpoint, a model and a report per run. `view[c]` is the volume as container `c` sees
it: `Enter` loads it (`volume.reload()`), the container's own writes change it, nobody else's do. `Commit` puts one
file of that view in the place of the committed one. If the one that is replaced is not the one the writer had
seen, the kind of file goes into `clobbered`; `crowded` remembers that two stages have been at work at once. Both are
histories that no action reads. A container keeps no view between calls; an idle one is given the oldest view it
could have, which is what `StaleView` would then work on.

`orch[r]` is how far the orchestrator of run `r` is, `waits[r]` the container it waits for. `Call` starts a stage;
`Prep`, `LabelWindow`, `LabelEnds`, `TrainSaves`, `TrainEnds` and `Evaluate` are what the stages do to the volume,
`Unfit` the ends for want of what a stage needs, `Raises`, `TimesOut` and `Preempted` those that come from outside.
`Answer` returns from any of them, to an orchestrator that may have died (`Dies`) and been replaced (`Resume`)
meanwhile. The lock is what `RunLock` shows of it: one orchestrator at a time, taken over only when dead, or beyond the
cap if `Overruns` says so.

What the data stands for: a label is whether, and how often, the file has a row for a document, so a window is one
document and the aspect pairs of a document are one item. A model is the set of rows it was trained on, together with
those of the checkpoint it went on from. The holdout is computed as the code does, from the number and the order of
the joined rows. A corpus is what may be trained on, since `TrainingSet` settles the rest. `ckpt` is saved by
`kd.distill` in its loop and committed by Modal in the background.

### The model store

A build stands for the content of a model file and for its hash. A refresh is a thread that goes through `Poll`,
`DownloadModel` and `DownloadTokenizer` (or `NoDownload`, if the directory has a model), `Verify`, `Swap`, `Name`, and
`Breaks` wherever a call may raise. A poll that finds no change, or cannot read the pointer, changes nothing and is no
action. The threads are the poller and any other caller of `refresh`. `ReadyAsks` and `ReadyAnswers` are the two reads of
`served_run_id`. The tokenizer is there or not: it is the teacher's in every run. `ServedModel` has one variable for
what answers; the refinement maps it to `current`, the only thing a request reads.

### The topic service

One caller's `AnalyzeTopic` is `Ask` (lookup, selection, start of the fan-out), one `SearchReturns` or `SearchCut` per
platform, `Gather` (`wg.Wait` and what follows it), `Classified`, `AspectsClassified` or the two inference failures.
The cache is the sequence of its entries by recency. Deadlines are timers that `Tick` runs down together: the
connectors' budget, the inference call's, the request's over REST. A caller may hang up at any time. An answer is
what it was computed for, which platforms are missing from it, which it names in its warnings, and its age since
the search began; scores are left out. The cache key is what `buildCacheKey` makes of a question: the topic folded (`Folded`),
the platforms, the credentials, and the aspects joined with commas (`Joined`), which names survive that are
not blank and have no comma (`Plain`), and others need not. A platform's name with a comma selects nothing, so lists of platforms are sets here.

### The gateway

A request is `open` with the stage it is in, the time the stage has left, and over the API routes the time the request
has left (`middleware.Timeout`). `Unlimited` begins probes, GraphQL and gRPC, `Refused` is `negotiateMedia`, which comes
before the limiters, and `Limited` the limiters' three outcomes. `StageEnds` goes from search to scores to aspects or
answers; what is computed is left to `TopicService`. `Signalled`, `ShutdownReturns` and `Exit` are the end of `main`,
`StartAgain` the container's next process. `handled` is a history that the limits are judged by.

### The throttle and the token

`GdeltThrottle` counts from now: `ahead` is the time until `next`, `slot[s]` until the slot a search waits for. `Throttle`
is the whole of the critical section; `GiveUp` leaves `ahead` alone, as the code does. `RedditToken` has the mutex with
the two modes Go's has: in normal mode a newcomer may overtake the waiter that was woken (`Lock` before `Woken`), and a
waiter that lost starves the mutex, which is then handed on in turn. `CheckToken` is `tokenFor` under the mutex,
`FetchToken` and `FetchFails` the request it makes while holding it.

### The batch harvesters

`asked` counts the feeds or queries that `Run` has been through, `items` are what is left of the present answer,
`stats` the counters, `owed` a history of all rows with words in them. A feed answers or `Fails`; an item is skipped or
written by `CorpusWriter`'s action; a writer's error ends the pass (`OnWriteError`). `ExitZero` closes the writer,
`ExitOne` is `os.Exit(1)`, which does not. The two sources differ in what counts as text and in when they look at
the context.

### The modules without state

`Searches`, `InferenceBatches`, `Analysis`, `Negotiation` and `Surfaces` are operators named after the functions they
stand for. A text is what the code looks at in it: whether it has words, its length, a media type, a name's parts between
commas. The worker's answers are constant operators (`Scores`, `AspectScores`), so any worker can be given.
`Algorithms` has one variable, `given`, the case an algorithm is given, and compares the operators with references that are
stated another way: RFC 9110's most specific range for the negotiation, one score per document for the batches, the documented
table for errors, the contract of `Query` for the searches. `MCAlgorithms` makes a state of each bounded case. Loops that
filter a list are said by the places that stay (`AtPlaces`, `Those`), which the proofs can count.

## 3. Runs

| run | shows | bounds |
|---|---|---|
| `harvest_faults` | `ResumeNeverSkips`, `LossIsReported`, `PassIsAccountedFor` with everything failing | 1 post, 3 events (create, delete, other), 2 dates, rewind of 1, 1 break beyond the cancelled ones, file writes and opens fail and heal, crashes; a pass over 2 feeds or queries, up to 3 rows of up to 2 items an answer |
| `harvest_rotation` | *violated*: `RotatesOnDateChange` | 2 events, 2 dates, one open that fails |
| `corpus` | `CleanStopIsDurable`, `DeletesAreHonored`, `OnlyRevokedAreMissing`, `EventuallyHarvested` | 2 posts of 2 authors, 3 events with deletions and deactivations, 1 break, no crash |
| `corpus_crash` | *violated*: `DeletesAreHonored` when the process may be killed | the same with crashes |
| `algorithms` | `TextsAreTheLiveTexts`, `NegotiatesAsAsked`, `EveryScoreComesBack`, `AggregatesAddUp`, `SurfacesAgree`, `AsksAsAsked`, `EveryPostCounts` | every corpus of up to 3 of the rows and 1 of the tombstones in `MCTrainingSet`; headers of 3 ranges over 9 media types; formats by name; 4 documents with up to 3 aspects in calls of 2 texts and 8 aspects, and workers that are right, fail, lose or add a text, or are wrong about a text's aspects only; questions with lists of 2 names, documents with and without metadata; windows at the edges of every unit and of a `Duration`; 2 posts of any platforms |
| `run_lock` | `OneAtWork`, `TakeoversAreOfTheDead`, `RefusedOnlyByTheLiving`, `CapIsAbsolute` | 2 executions of one input and 1 of another, beats 1 apart and 1 late, stale at 5, cap 7, clock to 7 |
| `run_lock_race` | *violated*: `DoubleFiresAreStopped` | 2 rivals |
| `stages` | `GateScoresUnseenUnlessLost`, `StagesInTurnLoseNothing`, `LabelsAreUnique`, `StudentsAreNotLost`, `TrainsOnAllOfIt` | 2 runs, 2 containers, 3 documents of which 1 is there at first, both labelling stages, holdout of at most 2 rows and half, 2 labelled rows at least, 1 death, 1 failure |
| `stages_gate` | *violated*: `GateScoresUnseen` | 1 run, 2 containers, 3 documents, one labelling stage, 1 death, no failure |
| `model_store` | `ImplementsServedModel`, `NamedOnlyOnceServed`, `NameIsTheBackends`, `PromotionsArrive` | 2 runs, 2 builds of which 1 loads, 2 callers of refresh, 5 writes of the publisher, 1 fault, 1 restart |
| `serving` | `AnswersTheCaller`, `AnswersAreFresh`, `AnsweredInTime`, `WarningsStayPrivate` of the analyses; `OneBudget`, `OnlySlowHttpIsCut`, `StopsInTime` of the gateway; `SlotsAreSpaced`, `LockWaitIsBounded`, `TokensOutliveTheirUse` of what connectors share | 2 callers, 5 questions (REST and gRPC in two spellings, aspects, a platform that only one has a key for), 3 platforms, cache of 1, TTL 1, budgets 1 each, handler 3; 2 requests of 2 addresses, limits 2 and 3, drain 2; 3 searches of GDELT, 3 apart, budget 2, slots up to 4 ahead; 3 of Reddit, budget 1, tokens that live 2 or 3 |
| `topic_feeds` | *violated*: `CachedIsComplete` | 1 caller, TTL 2 |

In `serving` and `harvest_faults` a behaviour is one of a single part, chosen at the start: the parts of a process share
no variable, only the time they allow each other, which is in the constants. Each has a type invariant of its own
(`ServingTypeOK` is that of all four). `RunLockTypeOK` and `ModelTypeOK` are in no
run; they are proved.

**Why the bounds are enough.** A lost row needs one event before the loss, one that carries the cursor past it and
one more for the rewind to bite: three events, with two dates so that a rotation lies between them. A revocation
needs a post, the revocation and one event that moves the cursor on, with a second author whom it must not touch.
Two executions of an input and a stranger give a takeover, a takeover of a takeover, and a beat or a pop of each of
them arriving late; the clock passes the cap once. A stage is overtaken once one orchestrator dies and another calls
the next, which takes two containers, and more of them would only add bystanders; three documents leave, after one of
their labels is lost, enough rows for a holdout, and one of two rows is the smallest share that holds any out. A second
run shares the labels with the first and sees a corpus that has grown. The containers are interchangeable, which
makes their symmetry sound. Five writes upload two runs, promote both and roll back, or promote a run, replace it and
promote it again; a second build is the wrong one and the one that does not load. The cache's order matters as soon as two keys compete for one
entry; two callers give the slow answer that overwrites the quick one, and symmetry between them is sound because no
definition tells them apart. The budgets keep the code's order, connector (3 s) below handler (15 s) below two
inference calls (30 s each). In the gateway three requests in a window pass what two addresses may have together and one
may not, and the budgets keep the code's order, connectors below the drain, the drain below the request, the request
below an RPC's own bound. Three searches are the least of which one can take a slot while another waits and a third has given up,
or be overtaken on a mutex while a third holds it; more wait in the same queue. Negotiation looks at three ranges at once
at most: the one that wins, one that is as specific and one that is more so. A batch is cut inside a document when its
aspects are more than what is left of a call.

**The violations** are differences between what the code does and what its comments or documents say; the findings in
`PROJECT.json` quote both. They are checked as stated by the document, in a run of their own each:

* `harvest_rotation`: a rotation that fails to open the new part leaves the closed one in the writer. Every later write
  tries to close it again and fails, although the disk is well.
* `corpus_crash`: the cursor is saved by the clock while the rows before it are in the compressor. After a crash the
  resume starts beyond them, so the window is not "re-harvestable", and a deletion among them is lost.
* `run_lock_race`: the get and the put of the lock are two calls.
* `stages_gate`: `train` and `evaluate` each join the labels as they find them. The labelling stage of a dead
  orchestrator rewrites the labels from its own snapshot; when that lands between the two, `evaluate` joins fewer rows
  and holds out some that `train` used. Nothing else does this: `GateScoresUnseenUnlessLost` is the same property
  without such a commit, and it holds.
* `topic_feeds`: RSS swallows the errors of feeds when another one answers; the degraded answer is cached.

**Differences without a run.** The model follows the code in these; the text says otherwise, or callers may not expect it.

* `rest.go:24-27` takes the handler's 15 s to be above the inference client's deadline, which is 30 s.
  `AnsweredInTime` gives the bound that results.
* `service.go:338-339` calls the connector's budget "a *ceiling* on everything: a connector that exceeds it is dropped and
  reported, not waited for". `reddit.go:108` waits for the token's mutex outside the context, up to twice the budget
  (`LockWaitIsBounded`), and `fanout` waits with it. `Overrun` is that time in `TopicService`.
* `docs/oracle-deployment.md:299` lets the poller swap "within one interval", but a download that broke off after the model
  file is taken for complete at every later poll, and a run uploaded anew under its name is not looked at. That is the
  exception `Spoiled` in `PromotionsArrive`.
* `prep.py:128-135` removes duplicates by content only. A feed item edited under the same GUID, two feeds with a common GUID
  (`harvest/rss.go:139-142`) or a GDELT title that changed (`harvest/gdelt.go:177`) leaves two rows with one
  `(platform, doc_id)`. `label.py` labels both under that key, the joins (`modal_app.py:123-130`) give four rows, two of them with
  the other text's label, and the order that "always cut[s] the same held-out tail" ties between them. `TrainingStages`
  takes the ids of a training set to be unique, which the firehose's are.
* A batch pass that is interrupted before its last feed exits with 1 through `os.Exit`, and what it had buffered is gone.
* The beat thread tests its event and then puts. A run that ends while a beat is under way has that beat land after its
  pop (`modal_app.py:633-665`), over the lock of whichever run came next, with the older `started_at`. If that one is
  near the cap, a third trigger takes the lock for stale and starts while the second run is at work, which has not been up
  for three hours, as the comment on the cap (`modal_app.py:627-629`) has it. It takes three inputs, so `run_lock` does
  not show it; `overrun` counts the record such a beat carries.
* No documents: 400 by REST, an empty answer by gRPC and GraphQL. A list of blanks (`platforms=,`) means all platforms by
  GET and none by JSON. A name with a comma is two names to GET. A number that does
  not parse is left out by GET and refused by POST and GraphQL. A field nobody knows is refused by JSON and GraphQL and
  skipped by XML, GET and gRPC. XML and GraphQL carry no metadata of a document (`domain.go:47`). `SurfacesAgree` is about questions
  without such things, and about documents up to their metadata.
* `docs/architecture.md:101-102` has the cache key results "by `(topic, platforms, limit, language, since, aspects)`". The key joins the
  aspects with commas (`service.go:426-428`), so a question about the one aspect `fee,ui` finds what was computed for `fee` and `ui`.
  `Key` does the same. `AnswersTheCaller` compares the aspects of two questions where all their names are plain.
* A window of more than 292 years wraps in `time.Duration(SinceSeconds) * time.Second`. Bluesky, Hacker News, Twitter and YouTube are
  then asked for posts from some other moment on, possibly one to come, and Mastodon's and the feeds' filters drop what they should
  keep. No transport refuses such a window (`rest.go:178`, `rest.go:210-213`, `grpc.go:64`). `Duration` wraps in whole seconds, at `MaxDuration`;
  `AsksAsAsked` and `EveryPostCounts` leave out exactly these windows of exactly these platforms. GDELT and Reddit compare numbers.
* `/graphql` and gRPC pass no limiter. GraphQL requests have no deadline of their own.
* A header that ranks `text/html` literally first gets JSON, even when it gives JSON a q of 0.
* A slot of GDELT's that a search gives up is not given back: with a budget of 3 s and slots 5 s apart every search that
  has to wait more than the budget waits in vain and moves the next slot on.
* A 401 does not make Reddit's connector drop its token. StockTwits and the demo ignore window and place; Reddit, Hacker News,
  RSS, Mastodon and StockTwits ignore the language. A Hacker News comment of markup alone becomes a document without text.
* `config.go:59-61` has both sides of `SENTILYZER_ML_MAX_BATCH` agree; 0 or less is 32 to the gateway and what it says to the
  worker (`ml/sentilyzer_ml/config.py`). The check at `config.go:86` cannot fail, since both addresses have defaults.

## 4. Assumptions

* *Disk*: a row is on disk once the bytes of the gzip stream that hold it are in the file; readers recover the prefix
  of a broken stream. A failed file write makes the gzip writer fail from then on. The cursor file is saved wholly or
  not at all.
* *Firehose*: positions are distinct and delivered in order from the resume point, again where it overlaps.
* *Modal*: one get, put or pop of a Dict is atomic. An input is executed again only when its container is gone.
  A beat lands, and a pop is done, within `Late` of being due, and `BeatEvery + 3 * Late < BeatStale`: 60 seconds and
  three delays are less than the code's 300.
* *Modal's volume and calls*: `reload` shows the last commit, `commit` replaces whole files and the last one wins; a
  call goes on when its caller's container is gone, and a preempted one is executed again. `max_containers=1` makes a
  second call of `train` wait.
* *Bucket*: a file arrives in the cache directory wholly or not at all (boto3 downloads to a temporary name), and in the
  order in which the bucket lists a run's files, the model before the tokenizer.
* *Data*: the ids of the documents in a training set are unique (see above).
* *Slots and tokens*: Reddit's tokens live longer than a search may take, and are given up at least that long before they
  expire (`TokenAssumption`: 30 s against 3 s). A mutex starves after a waiter has lost it once: Go's threshold of 1 ms is less than
  a request takes.
* *Contexts*: a call whose context is done returns before time goes on, and a reply is read at once.
* *RPCs*: a client that opens an RPC sends its message. One that never does holds `GracefulStop` for as long as it likes, outside of
  any budget of the code; `StopsInTime` and `StopIsBounded` do not cover it.
* *Clocks*: `Get` of `RunLock` reads the lock and the clock (`time.time()`) in one step. Times are minutes there, and no
  property depends on which comes first.

**Fairness** is assumed in the runs `corpus` and `model_store`. In `model_store` the poller's loop comes round, since a
daemon thread that catches everything runs it, and a refresh that has begun goes on; publishers and restarts are
free, and faults bounded. In `corpus` it is assumed for what a running harvester does by itself: it dials, delivers the
events there are, reconnects after its backoff, and exits once it is closing. Each is a goroutine or a timer with
nothing to wait for but itself. Nothing is assumed of the operator who starts and stops it, of the firehose, the disk,
or a connection; breaks are bounded because without a bound a connection that always breaks before its first event
delivers nothing. `AnsweredInTime` is the topic service's liveness, put as a bound on a clock.

## 5. Proofs

The proofs cover every value of the constants that the modules' assumptions (`WriterAssumption`, `HarvestAssumption`,
`StagesAssumption`, `NullAssumption`, `CorpusAssumption`, `StoreAssumption`, `TopicServiceAssumption`,
`JoinedAssumption`, `ThrottleAssumption`, `RunLockAssumption`,
`GatewayAssumption`, `TokenAssumption`, `PreparationAssumption`, `BatchAssumption`, `NegotiationAssumption`,
`DurationAssumption`) allow: types, that what stands for
an absent value (`NULL`) is no document and no author, that a tombstone of an account names it
(`harvest/bluesky.go:80-87`), that a call takes at least one text, that plain names can be told
apart once joined (`JoinedAssumption`), that a `Duration` holds some window (`DurationAssumption`), that a full weight
is more than none, that the absence of a media type (`NoType`) is none of the formats, the order of the budgets, and that a run with enough rows to train on holds some out (`MIN_LABELED_ROWS` is 2500, the
share one in five).

`Corpus_proofs` proves of the harvester, for every firehose, length, rewind, set of disk faults and with or without crashes:

* `HarvestTypeCorrect`: the type invariant.
* `HarvestNeverSkips`: `ResumeNeverSkips`. By itself it is not inductive, since it speaks of the cursors only, and a
  cursor takes its value from `last` and `pos` of the stream. `HarvestInv` adds: while a stream is read, `last` is
  before `pos` and everything kept between `live` and `pos` is accepted, but for `last` itself when its write failed;
  and both cursors *cover* only accepted events (`Covers`). `HarvestInvariant` is its theorem, one lemma per action
  that touches a stream (`DialStep`, `StreamEndsStep`, `DeliverStep`), one for those that do not (`QuietStep`).
  The rewind must hide the one event whose write failed: this is where the proof uses that the resume subtracts it.
* `HarvestReportsLoss`: `LossIsReported`, from what one `Encode`, one `WriteRow` and one `Close` do to the rows a writer
  holds (`EncodeStep`, `WriteRowStep`, `CloseStep`).
* `CleanStopKeepsAll`: `CleanStopIsDurable`. It speaks of stopped processes only, so `DurableInv` says of running ones, on a
  disk that takes writes, that every accepted row is in the files or in a part that can still be closed, and of a stopped
  one that no part is open: `Run`'s last save and the deferred `Close` leave none. With `HarvestInv`, what the cursor file
  has passed is accepted.

and of the corpus and the batch passes, for every number of rows, answers and authors, and any firehose:

* `BatchPassIsAccountedFor`: `PassIsAccountedFor`. It compares the counters of a finished pass with the rows in the files, so
  the invariant `BatchInv` says of an unfinished one what the loop keeps: rows are numbered as they are seen (`Numbered`); all rows with
  words that are behind the loop are accepted, and all that are ahead are still owed (`Owes`); the writer
  holds what it accepted, on the disk or in a part that can still be closed (`Holds`); and a pass that ended with zero
  has closed it (`Ended`). The writer's part rests on what one `Encode`, one `WriteRow` and one `Close` do exactly
  (`EncodeIsExact`, `WriteRowIsExact`, `CloseIsExact`).
* `HarvestersReportLoss`: `LossIsReported` for any source, the batch sources by the same lemmas as the firehose.
* `FilesHoldEvents`: every row in a file is an event of the firehose of the file's kind, also after crashes and torn
  writes: buffers only ever pass on what `Deliver` put into them (`EncodeAddsOnly`, `WriteRowAddsOnly`), and what is
  forgotten adds nothing.
* `CorpusHonorsDeletes`, `CorpusKeepsTheRest`: `DeletesAreHonored` and `OnlyRevokedAreMissing`, where processes do not crash and the disk
  takes writes (`Sound`). They join three results about one stopped harvester: the cursor has passed accepted events
  only (`ResumeNeverSkips`), accepted events are in the files (`CleanStopIsDurable`), and files hold nothing else
  (`FilesHoldEvents`). `CorpusIsAHarvest` takes them over to `CorpusSpec`. Without `Sound` the first is false, as
  the run `corpus_crash` shows.

`TrainingStages_proofs` proves, for every number of runs, containers, documents, deaths and failures:

* `StagesTypeCorrect`: the type invariant. One lemma for each way an action changes the volume, which is a record of
  functions that `Commit` updates by the name of a field.
* `StagesLabelOnce`: `LabelsAreUnique`. It is not inductive, because what a commit publishes is the writer's view. The
  invariant `LabelsInv` says of every view what it says of the volume (`Unique`), and that a document on a labelling
  container's list has no label in that container's view (`Listed`). That list is made once, from a fresh view, and
  each window takes one document off it and labels it (`EnterLabels`, `WindowLabels`); whatever others commit in
  between only exchanges one file without duplicates for another.
* `StagesKeepStudents`, `StagesInTurn`: `StudentsAreNotLost`, `StagesInTurnLoseNothing`. Both speak of what was lost; what
  keeps a commit from losing anything is what its writer has seen. `SeenInv` says that train runs in one container at most
  and that this one sees all checkpoints and students there are; and, while stages have run one at a time, that whoever is
  at work sees all files. A stage that begins reloads (`BegunSeesAll`), and a commit adds to the volume what its writer
  sees as well.
* `StagesScoreUnseen`, `StagesTrainOnAll`: `GateScoresUnseenUnlessLost` and `TrainsOnAllOfIt`. `GateInv` is `LabelsInv`, what
  an orchestrator's next call may rely on (`Called`), and either something was lost or `Gate`: a stage that runs sees files that the
  volume still has, or more (`Before`); what a model or a checkpoint was taught are joined rows of its run
  outside the holdout (`Learned`); and a report's holdout is the one these rows leave. The joins must not change between
  train and evaluate. They do not, because `run_pipeline` calls these two only once every row of the training set is
  labelled by every stage (`ReadyFor`), and labels that arrive later add nothing to a join that is complete (`SameRows`).
  A commit by a writer that had seen less is what would take labels away; that is what was lost then.

`ModelStore_proofs` proves, for every number of runs, builds and callers of `refresh`:

* `StoreImplementsServed`: `Spec => Served!Spec`. A swap assigns what came out of the cache under a pointer read several
  steps before, so the invariant `StoreInv` carries through a refresh that its thread alone holds the lock and its pointer
  was promoted (`Holds`), and that what it is about to assign has the promoted hash (`Proven`), which stays so because
  only the lock's holder writes to the cache.
* `StoreNamesTheBackend`, `StoreNamesOnlyServed` and `ModelTypeCorrect`, from the same invariant.

`TopicService_proofs` proves, for any callers, platforms, credentials, cache size and budgets:

* `AnsweredAsAsked`, `AnsweredFresh`, `WarnedOnce`: what the cache holds was computed under its key, which for plain names of aspects
  (`Plain`) says which they were, and is complete as far as
  warnings go, and its age and what it has left to live add up to at most a time to live and the longest analysis
  (`Good`). That sum is why an entry that is overwritten by a slower analysis, and gets a full time to live again, is still
  no older than the bound: `AnswersAreFresh` by itself says nothing of entries that nobody has asked for yet. `GetKeeps` and
  `SetKeeps` carry it through eviction and the moves to the front.
* `AnsweredSoon`: the age of a request and what its present stage has left are together at most the stages so far
  (`InBudget`). `TickKeeps` is the step that uses that nobody is overdue when time goes on.
* `TopicInvariant` is the conjunction (`TopicInv`), one lemma per action.
* `TopicTypeCorrect`: the types, of which the cache's is no matter of types: it holds one entry per key and no
  more than its size (`Lru`). `Set` removes the key before it puts it in front, and evicts from the end only if
  the key was new (`SetKeepsLru`); `Get` removes what it moves (`GetKeepsLru`).

`Serving_proofs` proves of the throttle, for any number of searches, interval and budget: `SlotsSpaced`. Two calls to GDELT are made by two
searches which may have taken their slots long ago, so `SlotInv` says of every slot waited for that it lies an interval
after the last call, an interval before the next free slot, and an interval from every other; time moves all of them
together, and who gives up only takes one away.

`RunLock_proofs` proves, for any executions, inputs and times (`BeatEvery + 3 * Late < BeatStale < LockStale`):

* `TakeoversOfTheDead`, `RefusedByTheLiving`: that an orchestrator at work has beaten lately is not inductive, because the
  record in the Dict may be another's, written over its own. `LockInv` therefore speaks of the lock and not of its writer:
  whoever still owes it a beat or a pop is due no later than `BeatEvery + Late` after the lock's last beat, or began to let
  go no later than `BeatEvery + 2 * Late` after it (`FreshInv`). With the `Late` that the beat or the pop itself may take this
  is the assumption's three. `WriterInv` says that somebody wrote the lock, and was at work until its last beat.
* `OneIsAtWork`, `CapStaysAbsolute`: from `OrderInv`, which holds until invocations race or a lock outlives the cap: one
  execution at most is past its decision and not done, it holds a young lock of its own input, or of one that is done and
  will not come again (`HeldOk`), and a last beat still on its way belongs to a run older than whoever is at work
  (`EpochInv`). What a late beat can put in the place of a successor's lock came out of this proof.
* `RunLockTypeCorrect`: the types.

`Serving_proofs` proves of the gateway, for any requests, addresses, limits and budgets:

* `OneBudgetForAll`: both buckets together count at least what is handled (`Counted`).
* `StopIsBounded`, `NobodyIsCutEarly`: every running request has a bound on what it still takes, the rest of its stage and the
  stages to come (`Due`). While gRPC stops, that bound and the time since the signal are for every RPC together at most the
  drain and the longest RPC (`Stopping`): a unit of time goes from the one to the other. `StopsInTime` alone says nothing
  of how long an open RPC has left, so it is not inductive.
* `GatewayTypeCorrect`: the types.

`Serving_proofs` proves of the token, for any number of searches, budget and lives of tokens:

* `LockWaitBounded`: the mutex hands itself on in the order of arrival only while it starves. `Waits` says what each waiter
  has waited: no longer than the holder has run and one connector's time; and while nobody has overtaken, no longer than
  the holder and no longer than that time. A newcomer that takes the free mutex costs the waiters the first bound once, and
  starves the mutex, so that no second one does. That the queue is in the order of the waits (`Queued`) keeps this when
  the mutex is handed on.
* `TokensOutlive`: until a search has used up its time, what its token has left and what it has spent add up to more than that
  time (`AliveOk`); a unit of time goes from the one to the other.
* `TokenTypeCorrect`: the types.

`Serving_proofs` ends with the process as a whole: every behaviour of `Serving` is one of each part, so all of these
promises hold side by side (`PartsKeepTheirPromises`), and so do the types (`ServingTypeCorrect`).

`Algorithms_proofs` proves of the training set, for any corpus, tombstones, lengths and cap:

* `PreparedFromLiveTexts`: `TextsAreTheLiveTexts`. The anti-joins of the query speak of tombstones and the reference of
  revoked posts and accounts; they leave the same rows because an absent author joins with nothing (`LiveRows`). What is
  left after the duplicates has as many rows as texts (`OneRowPerText`), and the cap takes as many of them as it allows.

and of the inference client, for texts of any number and length, and calls of any size:

* `ScoresComeBack`: `Classify` gives every text its own score. The worker is any that answers a call of 1 to
  `maxBatch` texts; it need not answer longer ones, so the proof shows too that none is sent.
* `AspectScoresComeBack`: the same of `ClassifyAspects`, with a worker that answers calls of up to `maxBatch * aspectBatchMultiple`
  pairs of a text and an aspect (`AnswersWithin`). A text may be cut into two calls, and comes back whole.

Both go by one notion, `IsPartition`: a sequence of sequences that holds every member of a set in one place and in no
other. Sorting by length permutes the texts, since equal ones keep their order and a rank is therefore taken once
(`OrderPermutes`); cutting an order into calls partitions it into pieces of legal size (`WindowsPartition`); the pairs of all texts, joined,
are each there once (`FlattenPartition`, `RefsPermutePairs`); and the runs of a call partition the call, each about one text
(`GroupsPartition`). What stands in one place can then only be put back there (`PlacesBack`, `PairsAreFound`). `FlattenSeq` is
defined by recursion: `JoiningExists` and `FlattenJoins` show that it is the last of the joints of its parts, by
induction on how many there are. The induction is over a set of numbers (`CountingUp`), which needs only that a set of
numbers has a least one.

* `ScoresComeBackToAll`: `EveryScoreComesBack`, all of `AnalyzeText` and `AnalyzeTopic` around the client. The worker is any that
  answers legal calls with what stands for the labels on the wire (`RightOnTexts`, `RightOnAspects`), or any that does so but for one
  text (`IsOfItsKind`). A worker that has no answer of the right length for that text (`Loses`) makes every request with it an error
  (`LostIsFailed`). One that knows its score and is only wrong about how many aspects it has (`LosesRows`) passes `Classify`, and is an
  error exactly where they are asked for (`LostRowIsFailed`), however the pairs were cut into calls. Only texts with aspects are asked about
  theirs, so the rows of the k-th of them must find their way back to its place (`TextComesBack`). An error is taken not
  to be a function (`ErrorsAreTold`), so that no result is one.

of the negotiation, for headers of any length, of any types and weights:

* `NegotiationIsRight`: `NegotiatesAsAsked`. A name in `?format=` decides alone: the format a refusal lists under that name, YAML for
  `yml` as well, and 400 for any other name (`FormatsKnown`). For a header, the code goes through the ranges and keeps the most specific; the reference takes the
  one that all others that cover the type cover too. Both are the same range, once no range is ranked twice
  (`Unambiguous`). That an offer which is wanted most exists, and that the first of them is answered, is a minimum of
  places (`MostWanted`); the browser's `text/html` is one more offer that nobody spells otherwise (`CanonicalIs`).

and of the connectors, for any configuration, query, topic and posts:

* `GdeltWindowCovers`: GDELT takes whole minutes, hours or days. Whatever window is wanted, the one it is asked for
  covers it, and exceeds it by less than the unit it is given in, unless it is the least window GDELT takes
  (`RoundsUp`).
* `RedditWindowCovers`: of the five named windows the smallest that covers the one wanted, and all of time if none does.
* `KeysGoHome`: of every search of every platform in the registry, that it asks for no more than is wanted (`Clamps`),
  that a key is the platform's own or the one the caller gave for it, and that an instance the caller names is one that
  `validateCallerInstance` lets pass and sees the caller's token only. The platforms but Mastodon go to themselves
  (`SentHome`), so one step per platform shows which key it takes.

* `SearchesAskAsAsked`: `AsksAsAsked`, the whole contract: limits, windows, keys and hosts, the country's code, the demo's posts, and who is
  asked at all. Its hypothesis `Sensible` says that the caller does not present one of the operator's keys as its own, that no window is longer
  than the one that stands for all of time (`Forever`), and that no country's code is empty; windows
  beyond a `Duration` are left out by the property itself, for the platforms that compute one. The first hypothesis is needed, since a key is known by its value alone. Each
  platform has its step in `ConnectorOf`'s order, and `extractSymbol` finds a ticker exactly if there is one (`TickerFound`).

`Answers_proofs` proves of an answer as a whole:

* `TransportsAgree`: `SurfacesAgree`, for any topic, names, numbers, keys and documents; of documents, up to the metadata that XML and GraphQL
  do not carry (`SameDocuments`). A list of plain names joined by commas
  and split again is the list (`splitAndTrim` keeps all of its places); the keys that the middleware puts into the context
  come out of it (`KeysArrive`); and for errors, every set of sentinels and every status is looked up in both tables, row by row
  (`Tables`, `StatusDecides`).
* `DedupeKeepsOne`: `dedupeByID` keeps a document of every id, none twice, and makes none up, for any documents.
* `PostsCountOnce`: `EveryPostCounts`, for any number of posts of any platforms, authors, keys, words and ages. A connector drops exactly the
  posts that fail its tests (`Passes`) and makes one document of each other (`MadeOf`); a post that is wanted passes
  (`WantedPass`); all platforms' documents together hold it, unless the caller's limit cut the feeds' (`AllAreBroughtIn`); and documents
  of one id are of one post, so one of them stays. The last needs that keys are unique where `DocumentID` relies on the platform
  for it: on Bluesky and in the feeds it adds the author or the feed (`KeysAreUnique`). The other hypothesis,
  `AsksEveryPlatform`, is that nothing is switched off: a platform that is not asked brings nothing.

What is checked by TLC alone: liveness (`PromotionsArrive`, `EventuallyHarvested`), which is out of the prover's reach, and
`AggregatesAddUp`, which counts every label of every aggregate anew and pins what wins a tie: sums
over scores are folds, whose value for every list takes an induction over data. The proofs avoid it elsewhere:
`FlattenSeq` by `FlattenJoins`, filters by the places that stay.

## 6. What could come next

1. The sums of `Analysis.Aggregate`, as a theorem for every list.
2. An abstract lock that `RunLock` implements and `TrainingStages` relies on.
3. `HnArchive`: months, per-date files, the check for a finished month, resets.
4. `StudentDir`: `_download` replacing a directory, `build_backend` loading it, the aspect gate.
5. Training rows with one id and two texts, once the query decides between them.

## 7. Not modelled

Numerics (losses, quantisation, confidences, means), text heuristics (`aspects.py`), encoders, GraphQL's and protobuf's generated
types, the country table's entries and the parsing of each platform's HTTP answer: pure functions or I/O whose
correctness is a matter of examples and not of order. The Hacker News archive and the gate of a local model directory are
scripts and starts of single processes; their hazards are listed without a property. Malformed frames of the firehose are
dropped before they change anything, and are left out. `runHealthcheck` reads `/livez` and exits.
