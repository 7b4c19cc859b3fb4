# Specifications of no-llm-api

TLA+ models of no-llm-api, a deterministic stand-in for the OpenAI HTTP API
(Rust, axum and tokio). The modules model the parts that keep state or run
concurrently, and the rules by which fixtures, datasets and dialogues decide an
answer; TLC checks them on small instances and TLAPS proves the central facts for
every instance.

Paths are relative to the repository; `src/x.rs` is a file of its Rust crate.

## 1. The system

One process serves HTTP on a multi-threaded tokio runtime. Each request is a task
that runs a handler; handlers share the fields of `AppState`
(`src/http/routes.rs`). There is no persistence except the recorder's dataset
file, and no background task: all concurrency is between handlers, the bodies
they stream, and the clients that drop them.

| Component | Source | State | Operations | Interacts with |
|---|---|---|---|---|
| Responses route | `http/routes.rs`, `responses.rs` | per task: request, predecessor, snapshot, plan | `create_response`, get, delete | both stores, planner, scenario, metrics, Responses stream |
| Conversation store | `conversations.rs` | `RwLock` map id -> record with items (generation, group, ordinal) | create, snapshot, append_response, add_items, list, delete item, delete, clear | Responses route, reset |
| Response store | `store.rs` | `RwLock` map id -> object and turns | save, get, delete, snapshot, clear | Responses route, reset |
| Completion store | `store.rs` | `RwLock` ordered map id -> completion and messages | save, list, get, update_metadata, delete, messages | Chat route |
| Chat route | `http/routes.rs`, `service.rs`, `model.rs`, `request_types.rs` | per task | create, list, get, update, delete, messages | completion store, script, live, Chat stream |
| Chat stream | `sim/stream.rs` | per body: position, fault, guard; shared cancel counter | generate frames, fault, cancel | client, metrics |
| Responses stream | `sim/responses_stream.rs` | the same, with sequence numbers | the same | client, metrics |
| Fixtures and artifact | `sim/script.rs`, `sim/artifact.rs`, `bin/fixtures.rs` | the artifact in use: documents of fixtures, cases and variants | lint, load_dir, compile, compatibility_report | Planner |
| Planner | `sim/plan.rs`, `canonical.rs`, `digest.rs`, `identity.rs` | none | compile, select_case, resolve_variant | Responses route, Chat route |
| Response rendering | `responses.rs`, `sim/stream.rs` | none | budget_outputs, render_response, canonical turns and tokens | Responses route |
| Request validation | `http/routes.rs`, `http/validate.rs` | none | validate, validate_response_request, validate_replay_items | Responses route, Chat route |
| Script selection | `sim/select.rs` | the index, built at the start | build, select, alternative | Chat route, dataset |
| Directive and scenario | `sim/directive.rs`, `sim/scenario.rs` | none | merge, apply | all generating routes |
| Control plane | `http/control.rs` | scenario (`ArcSwap`), bounded request log | put, patch, reset, log | scenario, stores |
| Live mode | `live.rs`, `live_safety.rs` | permits, request budget | respond through an upstream, with timeout | Chat route, dataset |
| Dataset | `dataset.rs`, `fixtures.rs`, `bin/*` | a Parquet file | build, load, append, rewrite | live mode, recorder, script selection |
| Metrics | `http/metrics.rs` | atomic counters | record, render | all routes |
| Auth, errors, CORS | `http/auth.rs`, `http/error.rs` | none | accept or reject | all routes |
| Configuration, models | `config.rs`, `models.rs`, `tokenizer.rs`, `main.rs` | none after start | load and check | process start |

Which behaviours are hard:

- **Optimistic commit.** `create_response` takes a snapshot of a conversation,
  plans with no lock held (the client can even ask for a delay there) and commits
  only if the conversation's *next generation* has not moved. Everything else can
  run in between: other writers, batches, deletions, a reset, a disconnect.
- **Content-derived identity.** Ids are digests of what they name, inserted with
  `or_insert`, so retries are idempotent, and what a digest leaves out is shared.
- **Two steps to commit.** The log is appended first and the object saved after
  another await; a reset clears the two stores in two steps as well.
- **Streams.** A body outlives its handler; a client may drop it at any frame, and
  faults cut, stall or break it at a configured stage.
- **Budgets and limits** in live mode and in the request log.
- **Three ways to go on.** A dialogue is continued by link, in a conversation or by
  sending it back; each keeps turns and token counts in a form of its own, and the
  three should not come apart.
- **Authored data.** What the planner and the selection take for granted is decided
  elsewhere: by a lint, by a compiler, by the order in which a dataset is loaded.
  Corpora and datasets change while their users expect the answers they had.
- **Cutting.** A limit on tokens is shared between reasoning and text, in three
  places with three rules, and may fall within a character.

What makes each component correct: a conversation's log is append-only but for
deletions and each commit is in it as one group (section 3); a stored object does
not change; only committed requests leave anything behind; every request is
answered; a stream ends in exactly one way and is counted cancelled only when its
client left it; a listing pages through every item once; the request log keeps the
most recent entries; live mode never exceeds its permits or budget; a request has one
answer, the authored one, and keeps it when the corpus grows compatibly; what was
answered can be sent back; and no answer exceeds its limit.

## 2. Modules

| Module | Models |
|---|---|
| `ConversationStore` | `src/conversations.rs`: the items of each conversation, their ids, generations, order, and one action per store operation |
| `ResponseStore` | `ResponseStore` of `src/store.rs` |
| `CreateResponse` | `create_response` with both stores, the routes of other clients, disconnects, the scenario's expiry flag and reset |
| `ItemLog` | abstract: what a conversation promises its readers, an ordered log |
| `ItemLogRefinement` | `CreateResponse` implements `ItemLog`, the sorted items standing for the log |
| `ChatFrames` | what `src/sim/stream.rs` makes of an answer: the frames of each choice, tool calls round-robined within a choice and choices among each other |
| `ChatStream` | the generator `sse_stream`, its pacing, faults and cancel guard, and the counters |
| `ResponseEvents` | the schedule of `src/sim/responses_stream.rs`: nested, numbered events |
| `ResponsesStream` | the generator `responses_sse_stream`, as `ChatStream` |
| `EventStream` | abstract: what a streamed answer promises its client; both streams implement it |
| `CompletionStore` | `CompletionStore` of `src/store.rs`, an ordered map, and `list` |
| `ChatCompletions` | create, update and delete of chat completions, and clients that page through the list |
| `ControlPlane` | `src/http/control.rs` beside the requests it reshapes: the profile, the request log, the counters and reset, with `Directive::merge` and `apply` |
| `LiveBackend` | `src/live.rs` and `append_dataset_rows` of `src/dataset.rs`: budget, permits, timeout, and recording in a file |
| `SemanticFixtures` | `src/sim/script.rs`: the documents of a fixture directory and their lint |
| `SemanticArtifact` | `src/sim/artifact.rs`: the compiler's checks, and the report that compares two artifacts |
| `SemanticPlan` | `src/sim/plan.rs`: case and variant selection, and the schema checks of the handlers |
| `FixtureLibrary` | artifacts that replace one another and requests answered from them |
| `TokenBudget` | texts as tokens, and what a limit leaves of a planned answer (`budget_outputs`, `token_pieces`) |
| `ResponseRendering` | the Response object, its items and usage; turns and tokens of a request |
| `ReplayItems` | `validate_response_request` and `validate_replay_items` |
| `Dialogue` | one dialogue carried on by link, in a conversation and by replay, side by side |
| `ScriptDataset` | fixture sets, recordings, rows, and the scripts `load` makes of them |
| `ScriptSelection` | `src/sim/select.rs` |
| `ChatAnswers` | `validate`, and what is answered within the limit on the script path and the semantic path |
| `ScriptLibrary` | a dataset that is built, recorded to, loaded and asked |
| `MCCreateResponse`, `MCChatStream`, `MCResponsesStream`, `MCChatCompletions`, `MCControlPlane`, `MCLiveBackend`, `MCFixtureLibrary`, `MCDialogue`, `MCScriptLibrary` | constants for TLC |
| `DataFacts` | lemmas on naturals, finite sets and sequences that several proofs need |
| `CreateResponseProofs` | the stores: what a step does to a conversation and to a task; types, the generation check, commit groups, winners and conflicts, what requests leave behind, and `ItemLog` implemented |
| `ChatStreamProofs` | how a chat stream ends, what is counted, where faults strike, what a client assembles, and `EventStream` implemented |
| `ResponsesStreamProofs` | how the schedule nests for any output, where faults strike, and `EventStream` implemented |
| `ChatCompletionsProofs` | what pages tell; the budget, the permits and the rows of live mode |
| `ControlPlaneProofs` | types, reset, the profile of an answer, the log, and how writes compose |
| `FixtureLibraryProofs` | what lint and compiler buy the planner, and what compatible artifacts keep |
| `AnswersProofs` | how dialogues are carried on and within which limits, and which reply of a dataset is given, within which limits |

`CreateResponse` composes `ConversationStore` and `ResponseStore`, `ChatCompletions`
extends `CompletionStore`, and the streams extend the modules of their frames. A
stream begins where its handler ends, with a plan resolved, so the stream modules
stand alone; `ResponsesStream` shares with `CreateResponse` the place where a
conflict is answered (its action `Conflict`). `ControlPlane` and `CreateResponse` see
the same reset from two sides: there with log, profile and counters and with stores
reduced to who is in them, here with the stores in full. `LiveBackend` stands where
the chat route calls it. `FixtureLibrary` is where the plans come from that
`CreateResponse` and `ChatCompletions` take as given; `Dialogue` has the routes of
`CreateResponse` for one client, with the texts and tokens that are left out there;
`ScriptLibrary` has the dataset of `LiveBackend` when each write is whole, and what a
server makes of it.

### How the model corresponds to the code

**Atomicity.** Both stores are maps behind one `RwLock`, and every operation takes
the lock once, so it is one action. A handler is a sequence of actions split
at its awaits; `pc[t]` names the await it is in: `lookup` (`get_stored`),
`snapshot`, `commit` (the commit delay or yield; what follows, up to the append, is
synchronous), `save`. Its last value is the answer. `Disconnect` is the server
dropping the handler's future at an await.

**Ids.** `digest_fields` is taken to be injective, so an id is the record of what
the digest covers. A response id is `[request, context]`: the semantic request,
and either the conversation with its ordered item ids, or the whole predecessor
object, or nothing. An item id is `[part, group, index]`, the group being `None`
for initial items, the batch, or the response id. Digests are 64 bits wide;
collisions are not modelled.

**Items.** A conversation's items are a set of records with id, generation and
ordinal; text, turn and token count of an item are functions of its id and are left
out. `Log` is the sorted list that `snapshot` and `list_items` read.
The order of two `msg_` ids at one ordinal depends on digests; the constant
`FirstOnTie` fixes it per instance.

**Requests.** A body is a record: conversation, input kinds, rendered outputs (what
the plan and the token budget leave), whether it has instructions, whether it is to
be answered with a fault or a plan error, `store`, and `metadata`, which stands for
everything the response echoes and its id does not cover.

**Streams.** The body of a streamed answer is a generator that runs only when its
client polls, from one suspension to the next. `pc[s]` names the suspension
(`created` before the first poll, a sleep: `ttft`, `stall`, `gap`, or the yield of a
frame) or how the stream is over, and an action is what runs between two
suspensions: `Start`, `Wake`, `Resume`. `Drop` is the client going away; the guard is
created at the first poll, so only a started stream is counted. A plan is all that is
resolved before the stream starts: its frames or events, the closing frames, the
burst, and the fault with its address. Frames carry their kind, choice, call and
position; texts are numbers of pieces. A fault's rate is reduced to what its draw can
give: never, maybe, always. Left out are the length of sleeps and whether a sleep of
zero suspends, keep-alive pings, and the fallback for a frame that cannot be
serialised, which cannot happen for these types.

**Completions.** The store is an insertion-ordered map: `order` and `completions`.
`save` on a present id overwrites in place; `delete` shifts. A completion id is the
record of what it covers: on the script path model, turns and metadata, on the
semantic path without the metadata. A pager is a client that follows `has_more` with
the last id it was given as the cursor. Its history (`start`: what was listed when it
began; `touched`: ids created, updated or deleted since; `lost`: its cursor was
touched) is read by no action.

**Control plane.** The profile is an `ArcSwap`: `LoadProfile` reads it whole and
`StoreProfile` replaces it whole. Handlers run on several threads, so a load and a
store of one handler are two actions even where no await lies between, and so are the
four steps of reset. A disconnect, on the other hand, is possible at awaits only
(`MayBeDropped`). The middleware's part is `Count` and `Record`, after the handler.
A profile is reduced to a pace (all of its timing), a fault kind and a rate (never,
maybe, always); a request names some of them in headers, some in its body. The
history (`before`, `lives`, `written`) is read by no action.

**Live calls.** `pc[c]` names the await or the file access a call is in. The budget is
taken before a permit is waited for; the permit is held until the function returns,
recording included, and dropping the future gives it back. The file is the sequence
of the calls recorded, or `Torn`: what `File::create` leaves until the writer is
closed, and what two writers that overlap may leave. Recording has no await, so
neither the timeout nor a disconnect can cut it, but handlers on other threads run
beside it, and the process may die in it (`Crash`).

**Fixtures.** A document is a record as `from_yaml` has parsed it: lists are sequences,
variants a function from their ids, an absent member `None`. Ids are numbers, since
cases are sorted by id; which of them are kebab-case, negative or legacy is given by
sets. A schema is the set of its subschemas with their keywords; whether it compiles,
whether the authored JSON satisfies it and which requested schemas it satisfies are
members of the outcome. An artifact is known by its documents. `Build` is compiling
(its failures leave the artifact in use) and `Ask` planning with the schema check of
the handlers behind it; `Answers` gives the one answer or the error.

**Texts.** In `TokenBudget` and the modules on it a text is the sequence of its tokens,
some of which (`Open`) end within a character. `Decodes` is whether `decode` succeeds,
`Pieces` what `token_pieces` makes of a cut. It is assumed that a prefix of a text's
tokens, as text, has those tokens again, and that U+FFFD is one token.

**Dialogues.** A round asks the same words in the three ways. `stored` is the response
linked to with its turns, `items` the conversation's items with their turns and
reasoning tokens, `transcript` what a client keeps to send back. Fixtures that match
turns exactly answer turns of the same roles and texts equally (`Alike`, by
`MatchTurns`: whether a turn refuses is not matched); answers are stored, and the ids of
different rounds differ. `answers` is a history, read by the properties only.

**Datasets.** A dataset is known by the conversations it was made of, in the order of
the file; `Load` groups and sorts their rows as the code does. Selection is a function
of the index and the request, so chat requests are no actions of `ScriptLibrary`: its
properties quantify over the requests in every state. Normalization and digests are
parameters; `SplitReasoning` takes each of `<think>` and `</think>` for one token.

**History.** `appended` holds the tasks whose `append_response` returned true,
`removed` those whose conversation lost an item, or was deleted or reset, after
their snapshot. No action reads them.

## 3. What is checked

Deadlock is off in every run: tasks that are all answered, with nothing to delete,
and streams that are all over are a proper end.

| Run | Question | Verdict |
|---|---|---|
| `MCConversationWriters` | two writers, a batch and everything else on one conversation: does a generation have one winner, does it detect every change, are conflicts real, are commits whole, and do the sorted items implement an append-only log with deletions? | holds |
| `MCResponseTraces` (`FairSpec`) | requests with and without conversation, faulted, sharing ids: do refused ones leave anything in a store, is a stored object ever replaced, is every request answered? | nothing, never, yes |
| `MCChatStream` (`FairSpec`) | every fault at every address, and choices of different shapes: faults where they are addressed, choices that keep pace and assemble, cancellations counted with two exceptions to what the counter is said to count, an end for a client that stays; does the generator implement `EventStream`? | holds |
| `MCResponsesStream` (`FairSpec`) | the same of a Responses stream, with contiguous numbers and nested items and parts | holds |
| `MCCompletionPages` | a client pages in either direction, filtered or not, while entries are created, posted again, updated and deleted: is it told everything that stayed, once and in order? | it is |
| `MCControlPlane` | three overlapping calls: do sequential writes of the profile compose, does an answer follow one live profile, do overrides beat it, does a reset forget what came before, does the log tell what was answered? | holds |
| `MCLiveBackend` (`FairSpec`) | does a process stay within its budget, are permits neither lost nor made, does the dataset keep every answered completion while recordings do not overlap, does a wait for a permit end? | holds |
| `MCFixtureLibrary` | corpora one after the other: is a request ever ambiguous, does the planner find what the lint promised, are negative variants only given to those who ask, does a compatible artifact keep pinned answers? | only without an effort, it does, they are, it does |
| `MCDialogue` | three rounds in three ways, with texts and a refusal: do they keep the same turns and tokens, can answers be sent back, do limits hold? | they do |
| `MCScriptLibrary` | is the reply the one of the turn asked, in its longest context; does growth keep it; do limits hold on both chat paths? | holds |
| `MCStaleWriter` | does a commit only ever follow an unchanged conversation, as the scope document says? | violated |
| `MCCutCharacter` | do the tokens that a limit leaves of a planned chat answer decode, as the code expects? | violated |

**What the generation check is worth.** While nothing is removed after a task's
snapshot (`Undisturbed`), the check is exact: `GenerationDetectsChange` says that a
task about to commit finds all it planned against and everything newer at its
generation or later, and from it follow `OneWinnerPerGeneration`,
`NoSpuriousConflict` and `CommittedAsOneGroup`. Deletions void it, since the next
generation is computed from the items that are left:

- `StaleWritersNeverCommit`: delete an item that is not the newest between a task's
  snapshot and its append; the task commits a plan that still contains the item.

Another consequence is not checked by a run: that an append writes nothing and is
answered 200. A conversation has an initial item and a batch item. The initial item is
deleted; a first writer takes its snapshot, of the batch item at generation 1, so that
2 is next. The batch item is deleted and posted again, now at generation 0, and a
second, identical request takes its snapshot, with 1 next. Both have the same ordered
items before them and hence the same ids. The second commits at generation 1, so that
2 is next once more: the first writer's append passes the check, finds its ids taken,
writes nothing and is answered 200 (`OrInsert`, `AppendGroup`).

**What streams promise.** `EventStream` says it once for both: the client gets the
script from its start, each frame once and in order; the stream ends complete, with
the failure frames in the place of the rest, cut within the body, or dropped; nothing
follows. The concrete properties say what the abstraction leaves open: where a fault
strikes and that it does not miss a place that exists (`FaultsStrikeTheirStage`; for
chat this takes the check after the main loop, for Responses the terminal event is in
the schedule), and what a client assembles. `CancelledExactly` says which streams are
counted cancelled: those abandoned before `[DONE]`, except that a stream left before its
first poll has no guard yet and is not counted, though `streams_total` has it, and that
one left between `[DONE]` and the poll after it is counted, since the guard is told of
the end only then. Neither exception is in what the comment and the help text of the
counter say (see the divergences). The terminal frame is taken to be `[DONE]`,
as in the comment of `sse_stream`; if it were the finish frame (the comment on
`StreamPlan`), all that leave between that and `[DONE]` would be counted beyond the
statement as well.

**What pages promise.** `list` looks its cursor up at each request. As long as the
cursor entry itself is not touched, `PagesFollowTheList` and `PagesTellAll` hold
whatever happens to other entries. A deleted cursor, or one that an update moves out
of the filter, is not found and drops nothing, so the client gets the first page
again; the properties leave such pagers out (`lost`).

**What the control plane promises.** One request at a time, the profile is what PUT,
PATCH and reset make of it one after the other (`SequentialWritesCompose`). When
they overlap it is not: a PATCH stores what it made of the profile it loaded, so it
undoes a PATCH of other members, a PUT or a reset that came in between, and all of
them were acknowledged. What completions see is safe all the same: each is answered by one profile
that was live during it. A reset forgets every call that was over when it came, in any
overlap; calls that are still running may be logged or stored behind it, and a reset
whose client leaves stops where it is. The log has a request once its client has the
answer, and never one whose client left before.

**What live mode promises.** `BudgetHolds` and `PermitsAddUp` hold in any overlap;
requests whose client leaves while waiting have still spent their unit, so that a
process may refuse requests before it has made its 500 calls. The dataset
is safe only while recordings neither overlap nor are cut (`UndisturbedRowsKept`):
four permits allow four recordings at once, and the last to write drops the rows of
the others or mixes with their bytes, although their clients were answered. A process that dies between the
truncation and the close leaves a file that is no parquet, and from then on every
recording fails and withholds the answer that was paid for (`unrecorded`).

**What a corpus promises.** The lint and the compiler are far from the planner that
relies on them. `LintGuaranteesHold`: the two variants that `resolve_variant` expects
are there, and a case that lists efforts has a variant, or a fallback, for each effort
it can be asked with. `NegativesAreAskedFor`: of the five ways to a variant only a
control leads to one that was authored to violate its schema. The other direction is
not closed: two cases with the same turns and disjoint efforts compile, and a request
without an effort meets both, so `AmbiguityOnlyWithoutEffort` is the most that can be
said, where `docs/semantic-fixtures.md:139` says that growth of a corpus cannot alter
exact selection and `:164` that overlapping cases are rejected: a case added beside
another turns such a request into an error.
`CompatibleKeepsPinned` says what the compatibility report is good for: a request
pinned to case and variant, by controls or by turns and effort, keeps its output. It
does not extend to requests answered by default or by digest, nor to a control that
names a fixture alone, which fails once the fixture has a second case.

**What a dialogue promises.** While each round is answered with text or a refusal, link
and conversation keep the same turns, and the input tokens carried along by link are
those summed anew over a conversation's items (`ContinuationsAgree`). What is sent back
has the same roles and texts, and so is matched the same and counts the same, but a
refusal comes back as a text (`SentBack`; see the divergences). Completed answers can be sent back,
whole or with rounds left out (`RepliesCanBeReplayed`). `BudgetIsKept` relates the
limit to what is shown: reasoning is paid first, and an answer is complete exactly when
nothing was cut, the shares rounded up and the cut character notwithstanding. The
preconditions (`Audible`, `Replayable`) are where the ways do come apart; see below.

**What a dataset promises.** `RepliesFollowTheirTurns` is stated over the conversations
as they were written, without index or windows: the reply follows the last user turn
asked, in a conversation that came to it through the longest run of the turns asked
before, on every level of the selection; an answer by prefix moreover comes from the
turn at which that conversation has been asked all of them. `GrowthKeepsMatches`: recording a conversation with an id of its own changes a
matched answer only to one from that conversation, which rests on the order of ids that
`load` sorts by. `ChatBudgetIsKept` holds on both chat paths; the script path keeps the
whole text, over the limit, when the cut falls within a character, and the semantic
path panics there (`PlannedAnswersDecode`).

### Divergences

Two statements that the code does not keep are checked by the runs marked violated:

- `StaleWritersNeverCommit`: `docs/spec/responses-text-scope.md:133-135`, above.
- `PlannedAnswersDecode`: the `expect` at `src/service.rs:209`, above.

Others were met while modelling. They are visible in the definitions, and no run is
spent on them:

- The counter of cancelled streams is said to count "streams abandoned by the consumer
  before the terminal frame" (`src/sim/stream.rs:26`, `src/http/metrics.rs:62`). One
  left before its first poll has been counted as a stream and is not counted here
  (`NeverPolled`), and one left between `[DONE]` and the poll after it is counted
  (`LeftWithDone`): `CancelledExactly` counts both as the code does. Responses streams
  have the same guard and share the counter (`ResponsesCancelGuard`): one left before
  its first poll is not counted, one left between its last event and the poll after it
  is.
- An append may write nothing and be answered 200 (above), where
  `docs/spec/responses-text-scope.md:115-116` has the items appended as one group.
- Of two overlapping PATCHes one is lost (above), where `README.md:150` has them merge
  member by member.
- Recordings that overlap lose rows (above), where `README.md:96` has live completions
  persisted.
- `delta_stage` gives tool frames the output stage (`DeltaStage`), so a fault at the
  tool stage, which the README lists, is accepted and never acts.
- A live completion has one token set whatever the number of choices, while finish
  frames are sent per choice (`LivePlans`): the other choices end without the opener
  that the comment on `StreamPlan` promises.
- A completion id of the script path does not cover `temperature`, `seed` and `user`;
  posting again overwrites what is stored under it (`SaveCompletion`), where
  `docs/spec/chat-completions-scope.md:150` says that tuning values remain stable.
- Responses whose requests differ in `metadata` alone share an id, and the object
  stored first answers for both (`ResponseId`, `SaveResponse`), where the scope
  document has GET retrieve the exact object. The same holds of chat completions of
  the semantic path (`CompletionId`), where a comment in `src/service.rs:386` says
  that metadata tells responses apart.
- Outputs are numbered from the canonical turns, inputs with the replayed reasoning
  items among them: after two replayed reasoning items a commit's outputs sort before
  its last input (`OutputItems`, `Offset`).
- Only `http_error` faults are counted as fired, and a streamed request answered 409
  is counted as a started stream (`HttpError`, `Count`).
- `drop` and `sse_error` do not wait for `after_ms` (`Iterate`).
- An answer of reasoning alone adds an empty assistant turn when it is linked to, and
  none in a conversation or by replay (`ResponseTurn`, `Appended`); an empty message is
  refused when it is sent back (`HasContent`).
- A refusal that is linked to, or kept in a conversation, is a turn that has it as text
  and once more as `refusal` (`ResponseTurn`; `response_turn`, routes.rs:804-827); sent
  back, it is a turn of the text alone (`TurnsIn`; `canonical_content_turn`,
  responses.rs:781-790). The canonical requests and their digests differ from then on, so
  a fixture picked by digest may answer differently; exact matching and tokens agree.
- Instructions go on by link and not in a conversation (`Saved`, `Appended`). Reasoning
  tokens that a variant declares without a reasoning text count by link only.
- The digest of a replayed reasoning item stays pending over user messages (`Pending`),
  so a transcript that lost the answer behind it is refused at the next answer; one
  that ends there is accepted, and so is an altered message text, where
  `docs/spec/responses-text-scope.md:126-131` has incomplete and altered pairs fail.
- An empty reasoning summary whose variant declares reasoning tokens makes the handler
  panic when the limit is below them (`CutPanics`: `tokens[..used.max(1)]` of no
  tokens); such a round is modelled as one without an answer.
- Ciphertext that a fixture authors is emitted as it is and refused when it is sent
  back (`ValidReasoning`).
- The last-user level of the selection, which `README.md:54` names, is never reached:
  a suffix of one turn finds all it would (`SuffixMatches`).
- Further choices know no limit, and their reasoning is not in the usage
  (`FurtherChoice`, `CompletionUsage`). A limit that cuts within `<think>` shows the
  reasoning as text; empty tags stay in the first choice and go from the others.
- The compatibility report does not compare a case's terminal status, the declared
  reasoning tokens or a fixture's requirements (`Assignment`, `VariantBytes`), and a
  digest fallback moves with every case added (`Picked`). A variant added under the
  name of an effort takes the place of a declared fallback.
- Recordings and sets that share an id interleave (`TurnsOf`); nothing refuses them.

### Bounds

*Writers.* Two suffice for every conflict between a winner and a stale writer; one
that plans after the winner is the case of a task that starts late. One conversation
is enough as nothing relates two conversations but reset, which clears all. Initial
items are one, and a batch is one item; an answer has an input and an output whose
ordinals tie, and `FirstOnTie` resolves the tie against the order of writing. Writers
are interchangeable (`SYMMETRY`).
`MaxGeneration` bounds the generation at which batches may still be added, since
batches may be retried for ever; commits are bounded by the number of tasks. Bodies
are as many as the question needs: one and the same for overlapping writers, with a
replayed item (equal bodies are the case where ids collide), four for the traces. Tasks serve one request
each, so a chain of continuations has as many links as there are tasks.

*Streams.* Streams share nothing but counters, so one is explored, with every kind of
fault, every stage, and addresses before, at and beyond the end of frames of that
stage; plans have one to three choices, calls with no, one and two pieces of
arguments, items with one and two parts. The burst ends within the frames.

*Pages.* Three completions and one more that is not stored, limits of 0, 1 and 2,
both directions, one filter, one pager. `MaxSeen` bounds what a pager is told, as a
client whose cursor keeps getting lost starts over for ever.

*Control plane.* Three calls, interchangeable (`SYMMETRY`), each with any of eleven
requests: two writers and a third party see every overlap of a load and a store. The
log has room for one entry (100 in the code), so that it overflows. One request of a
kind suffices, as members are independent; the boot profile differs from the defaults,
and the paces of profile, model and defaults differ, so that each source shows.

*Live mode.* Four calls, a budget of three (500 in the code) and two permits (4): the
budget runs out, a waiter waits, and two recordings overlap while one is done. The
process dies once.

*Corpora.* Two plain fixtures, and others that differ from them in one member: turns,
efforts, formats, models, negative variants as default, fallback or on demand, a
second case, a legacy id. All cover both interfaces, and requests are made on one. Corpora have at most two of them, which is what ambiguity and
the comparison of artifacts are about; digests take enough values to reach each of the
candidates. Requests have every effort that occurs, the right and a wrong schema, and
turns that are known, unknown or a tool's; controls name no, one, two or three parts.

*Dialogues.* Three rounds: a round with two before it is where totals carried along and
sums can differ, and where an answer may be left out between two others. Texts have up
to four tokens with a character that is split over tokens; limits are none, one and three (16 is the
least in the code, which would only make the texts longer), so that they cut before
and within the character. Plans are completed or incomplete, with a text, a
refusal or neither, and with reasoning declared, written, both or neither; users say
one thing.

*Datasets.* Up to three conversations that repeat turns of each other in other
contexts, with ids that sort before and after and one that is used twice; requests of
up to three user turns, some unknown, some refused by the validation. Limits cut
within and behind a character and a tag.

### Fairness

`FairSpec` has weak fairness for each handler: tokio schedules runnable tasks,
locks are held for one map operation only, and the commit delay is capped at ten
seconds. For a stream it has weak fairness for `Poll`: a sleep ends, and the server
polls a body for as long as its client is there. The client may leave at any time
(`Drop`), and no fairness is asked of it. Clients are under no obligation elsewhere
either. In live mode a permit is granted with strong fairness, since tokio's semaphore
is first come, first served and a waiter is not passed over for ever; the timer of a
call fires (weak fairness of `Timeout`, which stands for the call's end at the latest)
and recordings go on. Nothing is asked of the API.

## 4. What is proved

TLAPS checks the proofs, each for every value of the constants that meets the named
assumptions of the modules it is about:

| Module | For any | Assumptions |
|---|---|---|
| `CreateResponseProofs` | tasks, conversations, bodies, batches | `ConversationAssumption`, `RequestAssumption` |
| `ChatStreamProofs` | plans, finite set of streams | `PlanAssumption`, `FramesAssumption`, `StreamsAssumption` |
| `ResponsesStreamProofs` | output and fault of a plan, set of streams | `PlanAssumption`, `NoneAssumption` |
| `ChatCompletionsProofs` | requests, queries, pagers, bound on what a pager is told; finite set of calls, budget, limit of live mode | `RequestAssumption`, `IdsAssumption`; `LiveAssumption` |
| `ControlPlaneProofs` | calls, requests, paces, boot profile, capacity | `ControlAssumption` |
| `FixtureLibraryProofs` | documents, models, requests, controls, digest | `FixtureIdsAssumption`, `EffortNamesAssumption`, `ErrorsAssumption`, `CorporaAssumption`, `RequestsAssumption`, `ControlsAssumption` |
| `AnswersProofs` | texts, plans, settings and number of rounds of a dialogue | `TextAssumption`, `PlansAssumption`, `SettingsAssumption`, `WordsAssumption`, `NoneAssumption` |
| | fixture sets, recordings, requests, semantic plans, normalization, digests | `ConversationsAssumption`, `SourcesAssumption`, `RequestsAssumption`, `SemanticPlansAssumption`, `HighAssumption` |

Most of them give the types of the constants and keep `None` apart from ids, plans and
requests. The others say that a plan's frames and events are what the code makes of its
choices and output (`FramesAssumption`, `PlanAssumption` of the Responses stream), that
no effort is a negative name (`EffortNamesAssumption`), and that the schemas a
structured output satisfies depend on its JSON alone (`CorporaAssumption`). An interaction is recorded
with an assistant's reply (`SourcesAssumption`: the first choice of a completion);
normalization is any function and digests are any naturals.

| Theorem | States |
|---|---|
| `TypeCorrect` | `Spec => []TypeOK` |
| `IdsAreUnique` | `Spec => []UniqueIds` |
| `GenerationsHaveOneGroup` | `Spec => []GenerationHasOneGroup` |
| `GenerationsDetectChanges` | `Spec => []GenerationDetectsChange` |
| `CommitsWriteTheirGroup` | `Spec => []CommittedAsOneGroup` |
| `OneWinner` | `Spec => []OneWinnerPerGeneration` |
| `ConflictsAreReal` | `Spec => []NoSpuriousConflict` |
| `ObjectsAreImmutable` | `Spec => StoredObjectsAreImmutable` |
| `OnlyCommitsTrace` | `Spec => []OnlyCommitsLeaveTraces` |
| `LogsAreItemLogs` | `Spec => ImplementsItemLog` |
| `ChatTypeCorrect` | `Spec => []TypeOK`, of the chat stream |
| `CancellationsAreExact` | `Spec => []CancelledExactly`, of the chat stream |
| `DoneEndsStreams` | `Spec => []DoneUnlessDropped` |
| `FaultsStrikeInPlace` | `Spec => []FaultsStrikeTheirStage`, of the chat stream |
| `ChatStreamsAreEventStreams` | `Spec => ImplementsEventStream`, of the chat stream |
| `FramesAreInPlace` | `Spec => []FramesFindTheirPlace` |
| `ChoicesAreInPace` | `Spec => []ChoicesKeepPace` |
| `ResponsesTypeCorrect` | `Spec => []TypeOK`, of the Responses stream |
| `FaultsStrikeInPlace` | `Spec => []FaultsStrikeTheirStage`, of the Responses stream |
| `EventsAlwaysNest` | `Spec => []EventsNest` |
| `ResponsesAreEventStreams` | `Spec => ImplementsEventStream`, of the Responses stream |
| `PagesFollowLists` | `Spec => []PagesFollowTheList` |
| `AllPagesAreTold` | `Spec => []PagesTellAll` |
| `ControlTypeCorrect` | `Spec => []TypeOK`, of the control plane, the log's bound included |
| `ResetsForget` | `Spec => []ResetForgets` |
| `AnswersFollow` | `Spec => []AnswersFollowOneProfile` |
| `OverridesBeat` | `Spec => []OverridesBeatScenario` |
| `LogHasTheAnswered` | `Spec => []AnsweredAreLogged` |
| `WritesCompose` | `Spec => []SequentialWritesCompose` |
| `BudgetIsKept` | `Spec => []BudgetHolds` |
| `PermitsAreKept` | `Spec => []PermitsAddUp` |
| `RowsAreKept` | `Spec => []UndisturbedRowsKept` |
| `TypeCorrect` | `Spec => []TypeOK`, of the fixture library: the artifact compiled |
| `AmbiguityIsEffortless` | `Spec => []AmbiguityOnlyWithoutEffort` |
| `NegativesAreNamed` | `Spec => []NegativesAreAskedFor` |
| `LintIsEnough` | `Spec => []LintGuaranteesHold` |
| `PinnedIsKept` | `Spec => CompatibleKeepsPinned` |
| `DialogueTypeCorrect` | `DialogueSpec => []TypeOK` |
| `BudgetHolds` | `DialogueSpec => []BudgetIsKept` |
| `ContinuationsAlwaysAgree` | `DialogueSpec => []ContinuationsAgree` |
| `RepliesAreReplayable` | `DialogueSpec => []RepliesCanBeReplayed` |
| `LibraryTypeCorrect` | `Spec => []LibraryTypeOK`: the index is that of the conversations loaded |
| `RepliesFollow` | `Spec => []RepliesFollowTheirTurns` |
| `GrowthKeeps` | `Spec => GrowthKeepsMatches` |
| `ChatBudgetHolds` | `Spec => []ChatBudgetIsKept` |

**The stores.** `StoreStep` says that a step leaves a conversation alone, opens it,
extends it at its next generation, or cuts it and marks every task that had seen it.
`TaskStep` says the same kind of thing of a task. The invariant then comes in
layers, each inductive relative to those before it:

1. `Structure`: `TypeOK` and an upper bound on the generations of each item set.
   Without the bound `Max` has no value and nothing about `NextGeneration` follows.
2. `DerivedIdsAreFresh`: an id minted from a log is not in that log. It is what
   makes `or_insert` write every item of an undisturbed commit. TLC cannot refute
   it (an id cannot contain itself), but the prover needs it said.
3. `GenerationDetectsChange`, by `NextGenerationGrows`.
4. `CommittedAsOneGroup`: from 2 and 3, since an unmoved generation means that the
   items are the snapshot (`UnmovedMeansUnchanged`).
5. `OneWinnerPerGeneration`: from 4, a commit moves the generation for good.
   `NoSpuriousConflict`: from 3.
6. `OneObjectPerId` (the response store is a map) makes objects immutable;
   `SavesAreCommitted` (a task at `save` has appended if it has a conversation) and
   the shapes of `StoreStep` give `OnlyCommitsLeaveTraces`.

`ImplementsItemLog` rests on what `Log` computes from a set of items. `Log` puts at
place k the item with k - 1 items before it, and that such an item exists for every k
is an induction over the set (`EveryRankIsTaken`), for any order that is total on the
items (`BeforeIsAnOrder`). That it is total is an invariant of its own (`LogsSort`):
no two items of a conversation agree in generation, ordinal and the tie-break, which
is a claim about what commits, batches and their retries write. An insertion at a
later generation then extends the log (`LogExtends`), and a removal takes out one
place (`LogLoses`).

**The chat stream.** `Shaped` ties what was sent to the suspension: a
prefix of `Whole(plan)` while the stream is told, a prefix of its main loop and then
an error, and then `[DONE]`, once it has failed, and one of three ends. It is inductive
together with `TypeOK` (`PollShape` has one case per segment of the generator), and
`DoneUnlessDropped` follows from it because `Whole` has closing frames only behind the
main loop and `[DONE]` only at its end (`WholeShape`). That the counter is the
number of streams dropped after their draw is inductive by cardinality, and these are
the ones `CancelledExactly` tells of, since nothing was sent of a stream that was never
polled (`CountedIs`). `Shaped` also has, of a
fault that fires, that the frames sent so far passed its trigger (`Passed`); that a
fault has struck in its place, or had none, follows by counting the frames of its
stage (`TriggerInPlace`, `TriggerMissing`). The same shapes make each poll a step of
`EventStream`, or none. Up to here what `StreamFrames` puts into the main loop is not
part of the argument: a plan is any sequence of deltas.

What a client assembles is about the frames. `TakeTurns` says what `RoundRobin`
computes, by induction over rounds and rows: each element of each row has one turn,
earlier elements before later ones whatever their rows. Each choice's frames have what
they need before them (`RowOf`, `BuildFramesFits`), turns keep the order of a row, and
so the interleaved frames do (`InterleaveFits`). A choice with a turn left to take has
taken all before it, and no other has gone further than that turn
(`TurnsKeepPace`). By `Shaped` a client has a prefix of the main loop and, behind it,
frames that tell of no choice or finish one (`ClientsHaveOfLoop`).

**The Responses stream.** The invariant is the same. `EventsNest` is about the
schedule as well: `ScheduleIsLaid` says where the code puts each event, by an
induction over items and their parts (`Laid` gives the place of event q of part p of
item i, and `PlaceTypes` its type); places are ordered as their addresses are
(`PlacesInOrder`), each address occurs once (`OnceEach`), and a client that has read k
events has read those with the first k addresses, after which each conjunct of
`NestsAt` is about addresses alone (`ClientNests`).

**The pages.** The argument is about one relation, that an entry comes before another
in the list (`Before`, in the direction of the query). A create, an update or a delete
preserves it between entries it does not touch (`Spares`), and a page continues it
from the cursor (`PageFollows`). The invariant `Paging` adds to the properties what a
client has been told by the time its cursor is where it is (`Told`): in order, nothing
behind the cursor, and all that was listed from the start and is not behind the
cursor. `Retains` says what a filter over the entries computes, by induction.

**The control plane.** A call that is over is in no store it could still
write to, and each step of a reset takes the earlier calls out of one object for good;
the invariant says which objects are clean at each stage of a reset. A loaded profile
is one of `lives`, and an answer is what `Apply` makes of it. `Kept` counts how many
calls were recorded since a call against how far its entry is from the end of the log,
so that an entry leaves only when as many as the log holds came after it. `Composed`
says of writes that did not overlap that the profile is that of a replay
(`Replays`); it is inductive with `LoadedIsLive`, a profile loaded after all writes is
the live one, and the property's fold over the writes is such a replay by induction
(`FoldsOver`).

**Live mode.** `Budgeted` counts calls made and calls that wait against
what was taken of the budget: the budget is checked before the wait and the call is
made after it, so `BudgetHolds` alone is not inductive. Each action moves one call
from one stage to another (`EveryStepMoves`), and `OneMoves` says what that does to
the number of calls in any set of stages. `RowsKept` adds to the property what the one
call that writes has read before it truncated the file.

**The fixture library.** That the artifact in use compiled is inductive by
itself (`TypeOK`); the rest is about one planning of one request. Two cases that a
request with an effort matches exactly overlap in every respect the compiler looks at,
each wildcard being one on both sides, so `Unambiguous` makes them one. The ways to a
variant are those of `ResolveVariant`; default and fallback are not negative by the
lint, and an effort cannot be a negative name (`EffortNamesAssumption`). For
`CompatibleKeepsPinned`, each pinned case has a counterpart with the same
assignment and variant (`CounterpartExists`), which resolves the same way
(`PinnedIsResolved`) and serves the same schemas (`SameOutputServes`).

**Dialogues.** The invariant (`DialogueInv`) is `TypeOK` with `Rendered`: an answer is
rendered from a plan cut to its limit, under the digest of its way and round, and
that cut did not panic. What a cut leaves (`BudgetWithin`) is arithmetic over
`DivCeil`, `Complete` and `Least`, and `BudgetIsKept` follows from `Rendered` alone.
`ContinuationsAgree` has an inductive core (`Continued`): one more round adds the same
turns to the linked response, to the conversation and to the transcript, since the
items of an answer are read back as the one turn it is linked by, without its refusal
(`SpeaksInTurns`, on what `SumOf` and `FlattenSeq` are shown to compute), and the turns
sent back are matched like those linked to (`SentBackMatches`). The attempt corrected the
property: what is sent back agrees with a link only when every round was answered by
link as well, since a refused round is not linked to. `RepliesCanBeReplayed` comes from the
history: each answer sent is one of its own round (`Sent`), so digests of different
answers differ, and items in which every reasoning item is followed by its message
(`Closed`) stay so when such sequences are concatenated and pass `ValidReplay`
(`ClosedIsValid`), whichever rounds are picked.

**Datasets.** That the index is `Build` of what was loaded is inductive by itself; the
rest is about one loading. `ElementsAt` is told of by its elements, and from that:
rows are the turns of the conversations and no others (`RowsAre`); with ids of their
own, each conversation's turns come back from the rows in their order
(`TurnsAreLoaded`), so scripts are the conversations in which an assistant speaks
(`ScriptsAreSources`), in the order of their ids (`InOrderIs`). A window that matches
is one that the turns before a place agree with (`WindowsAgree`), hence a place is among
the matches of a length exactly when its run is as long (`MatchesByRun`). `SelectIs`
then says what `select` chooses without windows: the first whole script, or else the
first place of the longest run; it also shows that the last-user level is never
reached. Places of the index and places in conversations correspond (`EveryPlace`),
which is `RepliesFollowTheirTurns`. When a dataset grows, every place is carried over
(`PlacesCarry`), the order of places is that of ids and turns in both indexes
(`OrderKept`), and so an old conversation can neither gain nor lose against another
old one (`ChosenAgain`). For `ChatBudgetIsKept`, `SplitKeeps` says that taking the tags
out of a text loses their two tokens or nothing, and `FirstChoiceIs` relates that to
the cut.

`UniqueIds`, `GenerationHasOneGroup`, `DoneUnlessDropped`, `LibraryTypeOK` and the type
invariants of both streams, the control plane, the fixture library and the dialogues are
proved and not checked by a run as well: the other properties of the runs rest on
them.

Only model-checked: the liveness properties (`EveryRequestAnswered`,
`EveryStreamEnds`, `EveryCallAnswered`), which are out of the prover's reach. Every other property of
the passing runs is proved. The two violated ones are false.

## 5. Not modelled, and the plan

In order:

1. *Done:* the stores, `create_response`, reset, the ordered log and their proofs.
2. *Done:* `CompletionStore`, the chat routes and the pages of the list.
3. *Done:* both streams, with `EventStream` as their abstract specification, and the
   first proofs about the chat stream.
4. *Done:* `ControlPlane`: concurrent PUT, PATCH and reset, the bounded log, directives.
5. *Done:* `LiveBackend`: permits, budget, timeout, and the dataset append.
6. *Done:* fixtures, artifact and planner; rendering, budget and replay in dialogues;
   datasets and script selection; validation of both routes.
7. *Done:* the proofs of section 4: invariants, both refinements, pages, the log and the
   composition of profile writes, what a chat client assembles, dialogues and their
   limits, the replies and the limits of the script path.
8. Models: the parsing of directives from headers and body, and the grouping of pieces
   within `sse_stream`, now numbers.

Left out for good: wording of errors, headers, CORS, authentication tokens, text
generation, the tokenizer's encoding, JSON Schema evaluation, the layout of YAML
(`reject_unstable_yaml`), parquet columns and configuration parsing, which hold no state
and make no decision that the properties above tell apart.
