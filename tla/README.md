# Mission APIMpossible: a TLA+ model of the gateway, its clients, its proxy and its deployment

This directory models the running parts of the repository in TLA+, checks them with TLC on
small instances and proves the central results with TLAPS for every value of the constants.
The code is the reference: each definition is translated from the lines that `PROJECT.json`
names for it under `map`; a document is quoted only where it disagrees with the code.
Paths below are relative to the root of the repository; `X/` stands for `examples/python/`
and `V/` for `src/vscode/src/`.

    tlc -workers 2 -config MCGateway_brokered.cfg MCGateway     # one run
    tlapm GatewayProofs.tla                                     # one module of proofs

Contents: 1 inventory, 2 modules and how they correspond to the code, 3 what is checked,
4 fairness, 5 what is proved, 6 what is only model-checked, 7 what is not modelled,
8 findings, 9 plan.

## 1. Inventory

A developer's request reaches the model along one path; a deployment puts the path there.

    VS Code extension ---------\
    Python CLI (respond.py) ----+--> API Management gateway --> model endpoint
    IDE --> local proxy -------/             ^
            ^    ^                           |  infra/*.tf, carried out by Terraform
            |    az (tokens)                 v
            +--- MAP_* variables <---- use-environment.ps1 <---- outputs

### Gateway request pipeline (`policies/`)

- State: per request, the context variables the fragments share, the request as rewritten so
  far, the response, the trace records. Nothing outlives a request except the counters.
- Operations: one policy fragment after the other, as `responses.xml` includes them:
  correlation and scheme, header stripping, authentication, request validation,
  `validate-content`, governance, backend credential, forward, outbound; `on-error` from
  any of them.
- Interactions: requests run concurrently and meet in the governance counters only. A
  policy-authored rejection is a `return-response`: neither outbound nor on-error runs after
  it, so it must leave its own trace. A failing policy goes through on-error instead.
- Hard: every fragment trusts what the earlier ones established; the brokered credential is
  attached five policies after the token was read; each of a dozen exits must answer and
  record exactly once; `POST /responses` is not idempotent.
- Correct when: only contractual requests of entitled humans are forwarded, once; what the
  backend sees is what the gateway vouches for; one truthful record per answer; a stranger
  learns only that he is one; every request ends. (`Contractual` is the documented contract;
  the code lets one more kind of request through, and that has a run of its own.)

### Token governance (`policies/fragments/token-governance.xml`)

- State: per user, calls this second (on each gateway node), tokens this minute and this day.
- Operations: admit or refuse a call, charge a finished inference, roll a window over.
- Hard: a call is counted where it is served and charged when its response ends, while other
  calls are admitted and windows roll over.
- Correct when: the burst ceiling per user is calls x nodes, and only a user's own finished
  inference is charged to him.

### VS Code extension (`V/`)

- Document appender (`appender.ts`). State: pending text, a promise chain, consecutive
  refusals, dropped characters. Operations: `append`, `drain`, `flush`. Deltas arrive during
  every `await applyEdit`; the editor may refuse or throw. Correct when at most one edit is
  in flight, text is written in order and once, a loss is counted exactly, and `drain`
  covers everything before it, retries included, and returns.
- Stream client (`sse.ts`, `responsesClient.ts`, `correlation.ts`). State: the undecoded
  buffer, the verdict, the usage. Chunks are cut anywhere; the last frame may have no blank
  line behind it; the abort signal can fire at any await.
- Commands (`extension.ts`, `authentication.ts`). State: the result document.
  `runInvocation` opens a document, streams into it, drains, appends a footer, drains again
  and reports. Correct when the report agrees with the document and the server.

### Python client (`X/map_client/`, `X/respond.py`)

- State: the outcome of one call (status, usage, exit status); strictly sequential.
- Hard: a failure may arrive as an event under HTTP 200 after text has been printed; a run
  ends while its request is still on its way or being served, and is repeated meanwhile.
- Correct when no run costs two inferences and what it leaves on the terminal is true.

### Local proxy (`X/map_proxy/`)

- Request relay (`server.py`, the token cache of `tokens.py`, `capture.py`). One event loop,
  many handlers; handlers meet in the token cache and the capture file. Tokens expire, are
  refused late, cannot be had; the IDE hangs up; the gateway's stream breaks off after the
  status line; the process is stopped and started again over the calls it has. Correct when
  after a refusal the credential is asked before anything else is posted, no call is posted
  twice or unrecorded, and a response cut short never looks complete.
- Startup (`__main__.py`, `ide_config.py`, the key file of `tokens.py`). Three files outlive
  the process: key file, IDE configuration, its backup. No locks, and a write truncates
  before it fills. Starts die anywhere, race each other, and the developer edits meanwhile.
  Correct when the developer's providers survive, the backup is the original, and the IDE
  and the serving proxy agree on the key.

### Infrastructure (`infra/`)

- State: the resources that exist, the contents of a few of them, the Terraform state.
- Operations: apply, destroy, and the visits of a run to the resources in dependency order.
- Hard: policies refer to fragments, named values and backends by name, which Terraform
  cannot see; the gateway is created open and closed later; a run stops anywhere.
- Correct when a policy in force is complete, a recorded closure is a fact, a run that ends
  well leaves what was asked for, and no combination of edges leaves a run stuck.

### The path of a call (proxy, network, gateway, `az`)

- State: both ends' state for one call, which nobody sees together; who is signed in at `az`.
- Hard: the proxy gives a call up while the gateway runs it, or before the gateway has it; the
  proxy's cache outlives an `az login` by somebody else; a token checked at one end is
  checked again, later, at the other.
- Correct when what the IDE concludes from an answer is true of the model, a signed-in
  developer is served, and a call runs as the person who made it, within a known delay.

### Shells and configuration (`scripts/use-environment.ps1`, `X/map_client/config.py`, `X/map_proxy/config.py`)

- State: each shell's `MAP_*` variables, the selected Terraform workspace (one for all shells),
  the outputs each workspace holds, the configuration a running program was started with.
- Operations: load a profile (three calls of `terraform`, then four assignments), start the
  command line or the proxy, with flags.
- Hard: the workspace is switched by other shells between the script's calls; outputs are
  missing; two programs read the same variables by rules of their own.
- Correct when no program mixes deployments, a loaded profile is the one that is used, and the
  proxy needs no more setup than the command line.

### The rest

The other operator scripts (`scripts/*.ps1`), telemetry queries (`queries/*.kql`), tests and CI: section 7.

## 2. Modules

| Module | Extends / instantiates | Models |
| --- | --- | --- |
| `TokenGovernance` | | the three counters and their windows |
| `Gateway` | extends `TokenGovernance`, instantiates `GatewayPromise` | the request pipeline |
| `GatewayPromise` | | abstract: a request is refused for free, or runs exactly one inference and is answered |
| `LocalProxy` | instantiates `GatewayPromise` | the proxy's relay, token cache and capture |
| `ProxyStartup` | | starts of the proxy and their three files |
| `CallPath` | instantiates `LocalProxy`, `Gateway`, `CallPromise` | a call from the IDE to the model and back |
| `CallPromise` | | abstract: what a caller may conclude from the way a call came back |
| `Environment` | | shells, the script that loads them, the two programs' configuration |
| `DocumentAppender` | instantiates `OrderedWriter` | the promise chain of edits |
| `OrderedWriter` | | abstract: text leaves a queue from the front, written or counted as lost |
| `Invocation` | extends `DocumentAppender` | one command of the extension from token to report |
| `SseFraming` | | how text is cut into frames, against a line-by-line reference |
| `PythonClient` | | one call of `respond.py` up to its exit status |
| `CommandPath` | instantiates `PythonClient`, `Gateway`, `CallPromise` | `respond.py`, run again and again, and the gateway |
| `Deployment` | | the resource graph and Terraform's walks over it |
| `MC*` | the module it is named for | the instance TLC checks |
| `*Proofs` | extends the module it is named for and `TLAPS` | its theorems and proofs |
| `InvocationProofs` | extends `Invocation`, and so `DocumentAppender` | the theorems of both |
| `CallPathProofs` | instantiates also `LocalProxyProofs`, `GatewayProofs` | the same, reusing both components' invariants |
| `CommandPathProofs` | instantiates also `GatewayProofs` | the same, reusing the gateway's invariant |

Definitions with "Mutant of" in their comment are not part of a model: they are plausible
slips of the code, kept to show that each checked property notices one.

**Gateway.** `pc[r]` is the next policy; one action runs one fragment to its end: `Global`
(`global.xml` with `correlation.xml`), `SecurityHeaders`, `Authenticate`, `ValidateRequest`,
`ValidateContent`, `Govern`, `BackendAuth`, `Forward`, `Outbound`, `ForwardFails`, `Finish`.
Inside an action, one disjunct is one exit of the fragment. `Reject` is trace plus
`return-response`, `OnError` is the on-error section, `Proceed` falls through. `ctx` holds the
context variables, `outgoing` the request as it would be forwarded now, `calls` what was
forwarded. `Trace` reads variables as they are at that line, so one that is assigned later
is still "none". The same holds of the response: `OnError` is given what `context.Response` is,
a status or `NoResponse`, and record and answer fall back each in its own way. Of a failure of
the gateway's own the code does not say whether the platform has made a 500 by then, so it
may be either (`GatewayFailure`). `Admissible` is `Contractual` but for a store of null. Abstracted: a token is the claims validation would find plus one Boolean for
signature, tenant, audience and lifetime; a body is the members the policies look at plus one
Boolean for the rest of the schema; headers are the groups that are stripped together.
External to the repository, modelled from its use: the backend's status, the platform's
`validate-content`, `rate-limit-by-key` and `llm-token-limit`.

**TokenGovernance.** `burst[n][k]` is per gateway node, as the fragment's comments say of
`rate-limit-by-key`; `minute` and `day` are shared. A call the burst limit lets pass is counted
even if the token limit then refuses it. Tokens are charged in `Finish` (after the body),
so admission and charge are separate steps and the token limits may overshoot; no property
claims a ceiling on tokens.

**LocalProxy.** A handler runs undisturbed between two awaits; an action is what it does there.
`TokenProvider.get` does not await, so sign-in and POST are one step. What the
cache and a POST hold is the number of an answer of the credential's, not of a token: `az` has a
cache of its own, `invalidate()` does not reach it, and so two answers may be the same token with
less of its life left (`Lifetimes` are what is left of it). `heard`, a history variable, is the last
answer at the last 401. `BodyTooLarge` is aiohttp's 413 at `request.read`. `Headers` holds
`invalidate()`, the await of `response.prepare` and the capture of the response in one step: an
IDE that hangs up in that await is modelled as one that hangs up just after. The IDE may disconnect at any time, which surfaces where the handler next
reads or writes (`BodyLost`, `RelayBreaks`). `Restart` ends the process at any moment and starts
it with an empty cache: the calls it had are cut off, what they posted stays posted.
`handle_models` keeps no state and is left out.

**CallPath.** Nothing of the two components is modelled again: an action is an action of one
of them, or of both at once where they meet. `Arrive` gives the gateway the POST as its
message, with the token the proxy put there; it may happen after the proxy has given up, or
never. `Headers` needs an answer of the gateway's and carries its status. `holder[g]` says whose
token the credential's answer `g` is (None: one the gateway will not accept); `logins` is who was signed in at `az` and
since when; `first` and `since` remember under which sign-in the proxy was last started, and
are read by no guard. Requests take turns up to `Forward` (`Underway`), because there they meet in
`Govern` only; `Gateway` itself is checked with every interleaving. `az` is external.

**CommandPath.** The same for the command line: the nth POST is the gateway's request n, with a
body as `_build_request` makes it. `shown[k]` is what run k left on the terminal, from which
`Verdict` says what a developer can know. "Request rejected locally" and "Request failed"
without an error code leave it open whether the model ran; section 8 says why the first does.

**Environment.** A value is known by its origin: the workspace whose output it is, or the
developer's hand, well-formed or not. `Show`, `Select` and `Load` are the script's calls of
`terraform`, `Throw` its every failure; the four assignments run without a call in between and
are one step. `Terraform(w)` is anybody else on the same checkout. `ClientAccepts` and `ProxyAccepts`
are the two `from_env`, `RunClient` and `RunProxy` programs that were accepted; one that is refused
changes nothing. A shell may be opened with variables set by hand; editing them by hand after
loading would make every statement about loaded shells void and is left out. `loaded`,
`disturbed` (something else selected a workspace meanwhile) and `unlearned` (`terraform workspace
show` printed nothing, so the script selected none) are history, read by no guard.

**ProxyStartup.** An action is one access to one file; a write is two, truncate and fill. A fill
begins at the start of the file: if another one came in between, the tail of a longer text may
stay behind (`WriteConfig`; keys have one length, and no property speaks of a backup that starts
raced for). Each run listens on a port of its choice, `Bind` needs it free. A
key is named by the run that generated it. `saves`, `mine`, `original`, `raced`, `cut` and
`overtaken` are history for the properties and are read by no action's guard except the
bound on `saves`.

**DocumentAppender.** A link of the promise chain is a number; `stage[i]` is where its `flush`
is, `chunk[i]` what it has handed to the editor. A character is its position in the appended
text, so reordering, repetition and loss show in `document`.

**Invocation.** Extends the appender (whose specification by itself, `AppenderSpec`, with appends
and drains in any order, is covered by theorems only) and drives it
through its own actions only. The
server's stream is a script of events; `received` runs one ahead of `handled` while a frame
waits for its blank line. `SseFraming` justifies that: however a text is cut, each event is
dispatched once and as soon as it can be, so `Invocation` can take a frame at a time.

**Deployment.** `Needs` is the graph of references and `depends_on` edges; one model resource
groups Terraform resources that come and go together. A run's `pending` set is its plan;
`Build`, `CreateGateway`, `SetNamedValues`, `UploadFragments`, `ClosePublicAccess` and `Remove`
are visits, a resource and its state entry being one step. `Interrupt` is a failing resource
or a killed process. Plan-time preconditions are guards of `Apply`; the role-assignment
guard never fails in brokered mode because `main.tf` hands the module an empty list there.

## 3. What is checked

The runs below pass; the two that end in a violation are in section 8. Deadlock checking is
off except for `Deployment`: the other systems really stop, once all requests have been
answered, the process has ended, or the text has been read.

| Run | What it asks | Distinct states |
| --- | --- | --- |
| `brokered` | two concurrent requests of all 27 kinds: what is forwarded, answered, recorded; every request ends; refinement of `GatewayPromise` | 129,460 |
| `governance` | passthrough mode, three requests, two users, two nodes, windows rolling over: burst ceiling and charges | 950,304 |
| `invocation` | eight server scripts, cancellation anywhere, an editor that may refuse every edit: order and loss of the edits (refinement of `OrderedWriter`), drains, report, footer, status; drains return and cancellation ends | 9,793 |
| `sse_framing` | every text of up to six symbols in every cut | 41,870 |
| `proxy` | three overlapping calls sharing a token while tokens expire, are refused, and the proxy restarts; refinement of `GatewayPromise` | 1,833,573 |
| `path` | two calls end to end: late and lost POSTs, timeouts, a restart, another person at `az`; refinement of `CallPromise` | 943,168 |
| `command` | two runs of the command end to end, Ctrl-C and failures anywhere; refinement of `CallPromise` | 599,286 |
| `environment` | two shells, two profiles, other Terraform runs between the script's calls | 2,948,922 |
| `startup` | three starts on two ports, two at once, deaths, rotation, an edit by the developer | 2,114,424 |
| `deployment` | applies and destroys cut off anywhere, mode and scope changed in between | 157,304 |

The properties, by what would have to go wrong to break them:

- *Order of the fragments*: `OnlyContractualForwarded` (stated on the message as sent, not by
  the policies' operators), `RefusalOrder` (an unentitled caller never learns what the
  contract, a counter or the backend would have said).
- *Values carried across fragments*: `BackendSeesValidatedIdentity`.
- *Many exits*: `OneRecordPerAnswer`, `TruthfulRecords`.
- *No second inference, no revised answer*: `KeepsPromise` (gateway and proxy).
- *Two ends that do not see each other*: `KeepsPromise` (path and command), `SignedInIsServed`, `RunsAsSignedIn`.
- *Variables loaded piecemeal*: `OneDeployment`, `AskedFor`, `NoExtraSetup`.
- *Counters*: `WindowCeiling`, `ChargedForOwnInference`.
- *Edits*: `OneEditInFlight`, `DrainCovers`, `LossIsCounted`, `KeepsOrder`, `FooterAlone`,
  `WarnedIffIncomplete`.
- *Streams*: `EventsPrompt`, `EveryEventOnce`, `StatusIsServers`.
- *Token cache*: `AskedAfterRefusal`, `SignInsNeeded`.
- *Truncated relays*: `CompleteOnlyIfWhole`.
- *Files*: `ProvidersKept`, `BackupIsOriginal`, `KeyAgreement`, `KeyPersists`.
- *Resource graph*: `PolicyIsComplete`, `ClosureMeansClosed`, `BrokeredGoesScoped`,
  `EndsAsAsked`, `NeverStuck`.
- *Progress*: `EveryRequestEnds`, `EveryDrainReturns`, `CancelEnds`.

### Bounds, and why they are enough

- Gateway: `MCGateway` takes one well-formed message and every variation of it at a place a
  policy looks, and two combinations that test the order of refusals. Requests interact
  through counters only, so two of them suffice outside `governance`; there, three requests
  and a limit of one let a user be refused by each limit, on each node, before and after a
  rollover, while another is served. `MaxCost` bounds what one inference consumes; the limits
  are at most twice that, so every counter is met below, at and above its limit.
- Invocation: scripts of up to five events hold each verdict once, deltas before and around
  it, two completions of which the second has no usage, no verdict, and nothing. With
  `MaxFailures = 5` as in the code and seven links, a chunk can be refused to exhaustion, be merged
  with text that came during the waits, and be followed by both drains. Three deltas and the
  footer let chunk, pending text and a new delta all hold text at once.
- SSE framing: the longest separator has four symbols; six leave room for a character on
  either side, and contain two overlapping separators.
- Proxy: three calls are needed for "old 401 drops a newer token while a third call holds
  it"; a skew and a timeout of one tick and lifetimes of two and three on a clock of
  three moments (`MaxTime = 2`) give a token that is cached for one or two ticks, one that is
  within the skew and one that has expired. `MaxTime` bounds the
  clock, `MaxChunks` the body, `MaxRestarts = 1` puts a restart at every point. Calls are interchangeable, so symmetry is sound (no liveness is checked).
- Path: two calls, one that shares or replaces the other's token; `MaxTime = 2` and a lifetime of
  two let a token be cached, expire on the way and be replaced; one restart and one change of
  person (`MaxSwitches`) fall anywhere between. Three calls or a longer clock are beyond a run
  of minutes; what three calls can do to one cache is the `proxy` run's question. The backend
  answers 200, its errors being the `command` run's question, and tools are absent, the
  contract being the `brokered` run's; of the statuses one of each class is heard (200, 401, a refusal,
  a failure), another one being an answer that never comes.
- Command: two runs, so that the second meets the first one's request in the counters; two
  events distinguish a stream with and without a verdict. Four kinds of message: good, no
  valid token, too large, wrong model.
- Environment: two shells are one that loads and one that interferes; a workspace has all outputs,
  none, or all but the audience; a shell is opened bare, with the settings of another day, or with
  one setting, usable or not. No counter is bounded.
- Startup: three runs of which two may overlap give a dead start, its successor and a rival, on
  one port or on two;
  `MaxSaves = 1` lets the developer interfere at every point of them.
- Deployment: no bound at all; the graph makes the state space finite. The private profile
  has every resource of the public one; the proofs cover both.

## 4. Fairness

- `Gateway`: `WF(Serve(r))` for each request. A policy is run to its end by the platform, and
  `forward-request` has a timeout (`policies/responses.xml:112`); the relay of a body ends
  when either side closes it, at the latest by the platform's own connection timeout,
  which is an assumption about API Management rather than about this code. Windows may
  roll over or not; nothing depends on it.
- `DocumentAppender`, as `Invocation` drives it: promise callbacks run, and the editor settles each edit, by success,
  refusal or exception. `applyEdit` that never settles would stop the chain; the code has no
  timeout for it.
- `Invocation`: the same, and `fetch` and the reader settle once the signal is aborted. The
  server owes nothing: it may stay silent for ever, and `CancelEnds` holds all the same.
- `LocalProxy`, `CallPath`, `CommandPath`, `ProxyStartup`, `Environment`, `Deployment`, `SseFraming`: no
  liveness is claimed. The IDE may stall a relay as long as it likes, the network owes no
  delivery, and an operator owes no further apply or command.

## 5. What is proved

Every theorem holds for all values of the constants under the named `ASSUME`s of its module:
any number of requests, users, nodes, calls, links, runs, any limits and lifetimes. The
bounds of the models (`MaxTime`, `MaxLinks`, `MaxAlive`, `MaxSaves`, ...) are constants as well, so the
results hold for each value of them. The scheme is the same everywhere: `TypeOK` is
inductive by itself (`TypeCorrect`); the named invariant is inductive together with it; the
properties follow, action properties from one more case split over `Next`.

| Proof module | Inductive invariant | Why the property alone is not enough | Theorems |
| --- | --- | --- | --- |
| `GatewayProofs` | `PipelineInv`; `SlotInv` for the ceiling | A property speaks of `calls`; whether a request may be appended there depends on what the fragments before established. `EnvelopeInv`, `BodyInv`, `IdentityInv`, `ForwardInv`, `AnswerInv` say what is known at each `pc`; `IdentityInv` keeps the validated names in `ctx` until the charge and the record use them. The ceiling speaks of a number of requests and the code keeps counters: `SlotInv` gives each admitted request a node and a number on it that no other one has. | `TypeCorrect`, `PipelineCorrect`, `OnlyContractual`, `ValidatedIdentity`, `OneRecord`, `RecordsAreTruthful`, `StrangersLearnNothing`, `ChargesAreOwn`, `CeilingHolds`, `PipelineKeepsPromise` |
| `InvocationProofs`, of `AppenderSpec` | `AppenderInv` | Exclusion of edits needs that links run in chain order; exact loss needs the balance offered = written + dropped + unsettled; a drain needs that all text still held is younger than its mark. | `AppenderTypeCorrect`, `AppenderCorrect`, `OneEdit`, `DrainWaits`, `LossExact`, `AppenderKeepsOrder` |
| `InvocationProofs`, of `Spec` | `InvocationInv`; `IntactInv` for the warning | The properties speak of the end. `FooterInv` and `DrainInv` say what the appender may still hold at each step of `runInvocation`: nothing of the answer once the footer is appended, nothing at all after the second drain, although links of the chain run on. `StreamInv` says that the accumulator knows what the frames handled so far say. The warning speaks of the document's text and the code compares nothing but a count: `IntactInv` says that while nothing is given up, document and unsettled text are what was appended. | `TypeCorrect`, `InvocationCorrect`, `InvocationKeepsOrder`, `InvocationIntact`, `FooterIsAlone`, `WarningIsExact`, `ReportsTheServer` |
| `LocalProxyProofs` | `ProxyInv`; `SignInInv` for the count | That the credential is asked after a refusal needs that the cached answer is newer than the last one at the refusal (`CachedSinceRefusal`); validity needs the moment the POST was started, relative to the skew or to the sign-in. An emptied cache owes a sign-in that has not happened yet: `SignInInv` counts it with the early ones. | `TypeCorrect`, `ProxyCorrect`, `CompleteIsWhole`, `NoExpiryWhileWaiting`, `AsksAfterRefusal`, `SignInsAreNeeded`, `ProxyKeepsPromise` |
| `CallPathProofs` | `PathInv` | Neither end knows the other's state. `ArrivalInv`: what the gateway works on is what was posted; `ToldInv`: what the IDE was told is what the gateway answered, or the call was never posted, or the proxy gave it up; `TokenInv` and `PostInv`: whose token it is and when it was got. | `TypeCorrect`, `PathCorrect`, `KnownAsSignedIn`, `SignedInServed`, `PathKeepsPromise` |
| `CommandPathProofs` | `CommandInv` | What a run has cost depends on a POST that may still be on its way when the next run begins. `PostInv`: a run posts once, and waits for its own POST, not for that of a run before it; `ShownInv`: the terminal shows something of exactly the runs begun; `ConclusionInv`: the developer concludes something only from an answer of the gateway's. With the gateway's own invariant for every POST, arrived or not, the cost follows from `calls`. | `TypeCorrect`, `CommandCorrect`, `CommandKeepsPromise` |
| `ProxyStartupProofs` | `StartupInv` | Key agreement needs that a fresh key is nowhere else and, without a race, that the key file holds the starting run's key; the backup needs what is known before the first change. | `TypeCorrect`, `StartupCorrect`, `ProvidersSurvive`, `BackupSurvives`, `SameKey`, `KeyIsPersistent` |
| `DeploymentProofs` | `DeploymentInv` | A cut-off run leaves any prefix: that what exists has what it needs holds of prefixes only because builds follow and removals reverse the graph; a good end needs that the pending set contains every difference and that what was passed is as asked. That a run never gets stuck needs no history: six layers of resources, each needing earlier ones only. | `TypeCorrect`, `DeploymentCorrect`, `PoliciesComplete`, `ClosureHolds`, `RunsEndAsAsked`, `RunsGetOn`, `BrokeredIsScoped` |
| `EnvironmentProofs` | `EnvironmentInv` | The properties speak of running programs. They follow from what the shell holds (all four variables from one workspace), which follows from what a script knows when it reads the outputs: its workspace is the selected one, or it was disturbed, or it did not learn what was selected. | `TypeCorrect`, `EnvironmentCorrect`, `NoMixture`, `AsAsked`, `NothingExtra` |

`PipelineKeepsPromise`, `AppenderKeepsOrder`, `InvocationKeepsOrder`, `ProxyKeepsPromise`, `PathKeepsPromise` and
`CommandKeepsPromise` are refinements: initial states map to initial states, each action to a step of the abstract
module or a stutter. In the appender, alone or driven by an invocation, the refinement is over what is neither written nor given
up (the chunk in flight followed by the pending text); in gateway and proxy over a phase
computed from answer and number of calls; in the path over what the IDE may conclude and the
times the model ran, a restart giving up all open calls at once; in the command path over what
the terminal lets the developer conclude of each run.

Three modules prove about a composition without proving again about its parts. In
`CallPathProofs`, every step of the path is a step of the proxy (`ProxyStep`), so the path
refines `LocalProxy` and has its invariant for nothing; towards the gateway it is not one,
because `Arrive` writes the message of a request the gateway has not begun, so `GatewayPart` takes the
gateway's step lemmas one by one and adds that one step. `CommandPathProofs` does the same, and
needs one fact more of the gateway, `SucceedsByModel`: an answer of 200 comes from the model.
`InvocationProofs` uses the appender's lemmas, which are therefore stated for an append of any
length.
`SignedInServed` joins both ends: the proxy's `ValidWhileWaiting` at the moment the gateway
checks the token. Proving `StatusIsServers` for every stream corrected its statement: of two
completions it is the later one whose usage is reported. `IntactInv` follows from that refinement
alone, and let `WarnedIffIncomplete` be said of the document's text, not of its length.

Assumptions worth knowing: `NoExpiryWhileWaiting`, and its end-to-end consequence
`SignedInServed`, carry their own hypothesis, a timeout within
the skew (the defaults are 180 s and 300 s, but `MAP_TIMEOUT_SECONDS` has no upper bound) and
sign-ins that return tokens good for longer than the timeout. `AsksAfterRefusal` says that
`az` is asked again after a 401, not that it returns another token. `SameKey` excepts starts that
raced and a proxy whose key has been rotated in the key file since it started; `BackupSurvives`
excepts starts that raced, and one that died or was overtaken by the developer between the check
for a backup and the end of the rewrite. `OnlyContractual` and `PipelineKeepsPromise` except a store
of null, `RecordsAreTruthful` what section 8 says of records, `AsAsked` a shell that was disturbed or
did not learn its workspace. `ProvidersSurvive` excepts a start that dies, or is overtaken by the
developer, between the check for a backup and the end of the rewrite. The code keeps no
more than that. `CeilingHolds` needs finitely many gateway nodes. `CallPathAssumption` asks that
None is no name, code or answer; that some lifetime is the longest, without which there is no
span to speak of; and that the messages are closed under a change of the token's person
and validity, so that a POST always finds the message it becomes. `CommandAssumption` asks the
like of its parameters: that None is no name, code, answer or outcome of a run, that the quotas
are positive and that the gateway's nodes are finitely many.

`PipelineInv`, `AppenderInv`, `InvocationInv`, `IntactInv`, `ProxyInv`, `PathInv`, `CommandInv`, `StartupInv`, `DeploymentInv` and
`EnvironmentInv` were found by checking them as invariants with TLC first; they are not among the runs because the theorems
cover every instance.

## 6. What is only model-checked

- Everything that needs fairness: `EveryRequestEnds`, `EveryDrainReturns`, `CancelEnds`. The
  proof system does not handle ENABLED.
- `SseFraming`: its operators are RECURSIVE, and induction over data is out of reach.

Every other property of a passing run is stated by a theorem of section 5.

## 7. What is not modelled, and why

- Wording, layout and logging; identifiers beyond "the caller's or the gateway's own".
- Parsing of XML, JSON and tokens: replaced by the cases the policies tell apart.
- The sign-in status command, the commands that collect a prompt: no state. The spelling of
  the configuration's values (what makes a URL, a tenant or a port well-formed) is
  abstracted to "accepted" and "refused"; variables edited by hand after a profile was loaded.
- The proxy's handler between `prepare` and the first byte (section 2, `Headers`); overlaid texts of
  the key file and the backup (the first have equal length, of the second only an unraced one is
  spoken of).
- File permissions, the choice between two editions of VS Code, removal of blank model
  stubs (`X/map_proxy/ide_config.py`): below the level of the startup module.
- Monitoring and jumpbox modules, replacement of resources, imports, a change of profile
  within one workspace.
- `scripts/*.ps1` other than `use-environment.ps1`: sequences of cloud calls. The re-scoping of role
  assignments has an order worth modelling (section 9); `verify-*` are tests.
- `queries/*.kql`: read-only, no state. Tests and CI: used as evidence of what is promised.

## 8. Findings

Two have a run in which TLC finds the counterexample.

`contract` / `StoreContractKept`, `policies/fragments/request-validation.xml:421`. A request whose `store` is
null passes the store policy, is rewritten to `false` and forwarded; `docs/api-contract.md:83` says
that it is rejected with 400, and `test_store_must_be_literal_boolean_false`
(`tests/contract/test_request_schema.py:88-91`) lists null among the values that must not pass. The test
checks the schema, which does refuse null; the gateway applies the schema to the rewritten body.
`OnlyContractualForwarded` holds with that one exception.

`bootstrap` / `NoPublicInference`, `infra/modules/gateway/main.tf:426`. The closure of public access depends on the operation policy,
so the API works in public before it is closed; `docs/architecture.md:121-127` and lines 78-80 of
the same file state the opposite order. No deny-all policy, which the same section
mentions, exists.

Seen while modelling, without a run of their own (the models behave as the code does):

- `X/respond.py:165`: a stream that carries an `error` event ends with status `failed` and exit status 0,
  the class of bug the docstring at `X/map_client/responses.py:224` says is removed.
- `authentication.xml:114`: the `not_authorized` trace reads `claim-azp`, which is assigned 30 lines later,
  so its `client_app_id` is always "none" although the validated token names the application
  (`specs/telemetry.schema.json:64-65`). `TruthfulRecords` excepts it.
- `policies/fragments/observability.xml:79-83` records status 0 for a failure that left no response, where
  `responses.xml:165` answers and classifies it as 500; `specs/telemetry.schema.json:76-80` allows 100 to
  599. `TruthfulRecords` excepts it too. The comment at `observability.xml:73-78` accounts for rejections
  only.
- `authentication.xml:88`: an app-only token without the required scope is told `not_authorized`,
  not `not_delegated_identity` (`docs/threat-model.md:51`, `docs/api-contract.md:165`).
- `request-validation.xml:341`: a `tools` element that is not an object ends in 500
  (`docs/security.md:173` calls a 500 a failure of the contract).
- `request-validation.xml:119` parses the body before the size limit of `responses.xml:65` applies.
- `responses.xml:158-160`, and the inline traces, use failure categories outside the enumeration of
  `specs/telemetry.schema.json:86-106`.
- `token-governance.xml:38` counts calls per second; `docs/api-contract.md:148` calls it a ceiling on
  concurrent requests.
- `global.xml:36`: the https refusal carries no `x-correlation-id` (`docs/api-contract.md:192`).
- `V/extension.ts:197-217`: when the stream breaks off, the drains are skipped and
  `lostCharacters` is never reported (`V/appender.ts:58-61`).
- `V/responsesClient.ts:155-167`: a cancellation while `fetch` is pending is shown as an error; one
  after `response.completed` turns the status into `client_disconnected`.
- `X/map_proxy/server.py:154`: a late 401 for an old token drops the newer cached one; the cost is
  one sign-in, which `SignInsNeeded` counts.
- `X/map_proxy/server.py:126`: a JSON array in the body while capturing is an unhandled exception
  and a 500.
- `X/map_proxy/ide_config.py:148`: a start that dies between creating and filling the backup leaves
  an empty one that is never made again; with both editions of VS Code installed only one
  configuration is written (`:39-66`, `:133`).
- `X/map_proxy/tokens.py:11` says neither secret is ever written to disk; the key file is.
- `docs/local-proxy.md:156-164` has the local key generated at each start of the proxy, kept in memory
  only and gone with the process. `load_or_create_key` (`X/map_proxy/tokens.py:117-141`) keeps it in a file
  and reuses it, "persistent rather than per-session deliberately"; `KeyPersists` states that, and the
  document describes its mutant.
- `X/map_proxy/tokens.py:261-263` wants a refused token never served to later callers, and
  `tests/unit/test_proxy_tokens.py:113` shows it with a credential that returns a new token each time. `az`
  returns the token of its own cache while that is good, refused or not, so the proxy may send it
  again; `AskedAfterRefusal` claims no more than that `az` is asked. `docs/local-proxy.md:177` says "acquired
  per request"; a token is cached (`tokens.py:195`).
- Two starts that both truncated the IDE configuration and then fill it may leave text of both
  (`X/map_proxy/tokens.py:106-110`): the providers are in it, but it may not parse. Later starts then
  leave it alone.
- `X/respond.py:139-141`: a `ValueError` raised after the request was sent (JSON the SDK cannot decode, a
  delta the terminal cannot encode) is reported as "rejected locally" with exit status 2
  although the model ran. `X/map_client/responses.py:268-279`: an event after `error`
  overwrites the status.
- `X/map_client/config.py` starts without `MAP_SCOPE`, which `tests/unit/test_client.py:39-42` lists as
  required. `X/map_proxy/config.py` does require it, but `scripts/use-environment.ps1:62` sets it to
  `/.default` when the audience output is missing, so that the check passes.
- `scripts/use-environment.ps1:48` throws when there are no outputs; `terraform output -json` of an empty
  workspace prints `{}`, so it loads nothing instead. A `workspace select` of another shell
  between lines 40 and 47 makes it load the other profile; `AskedFor` excepts such a script.
- `scripts/use-environment.ps1:36-38`: if `terraform workspace show` prints nothing, the script skips the
  select and reads whatever workspace is selected, with nobody else at work; its header (14-18)
  says that it selects the right one first. `AskedFor` excepts this as well.
- `X/map_proxy/config.py:38-42` and `server.py:90-92` say the proxy cannot advertise a model that the
  gateway would reject; it advertises whatever `MAP_MODELS` or `--model` names. A `MAP_MODELS` that
  names none (`","`) hides a good `MAP_MODEL`.
- A port that is not a number ends the proxy with an uncaught `ValueError`, `--port 0` means the
  default, and a timeout of `nan` or `inf` is accepted. An endpoint without `/responses` means
  different URLs to the command line and to the proxy.
- After another `az login`, a running proxy keeps calling as the earlier person until its token
  is within the skew of expiring; `RunsAsSignedIn` states that bound.
- `infra/modules/gateway/outputs.tf` says the gateway's identity never has a Cognitive Services
  role; in brokered mode it has one.
- Switching back from brokered to passthrough while clearing the scope updates the named
  value before the fragment; only the forward direction is ordered safely.

## 9. Plan

Order of work, the most important behaviour first. Done: gateway with governance and its
promise; appender and writer; invocation and framing; proxy relay with restarts; proxy
startup; deployment; proxy and gateway, and command line and gateway, end to end; shells
and configuration; the theorems of section 5.

Next, models:

1. `scripts/rescope-foundry-user.ps1`: role assignments are created (lines 101-124) before the old
   ones are removed (127-133), over a directory that answers with delay and a run that may
   be cut off; wanted: a user who was entitled never loses the narrow role, and a repeated
   run completes a cut-off one. `scripts/create-gateway-app.ps1`: idempotence of the same kind.
2. `Deployment`: the profile switch and the replacement of a gateway.

Next, proofs: of `SseFraming`, with its recursion turned into a recursive function, what one more
character does to the cutter; that its result is right for a text of any length would remain
induction over data.
