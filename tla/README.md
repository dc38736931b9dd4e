# Keystone, modelled and checked

TLA+ models of the parts of this repository that keep state, decide, or have to
survive failure: model-checked with TLC on small instances, with every safety
property proved with TLAPS for every value of the constants. Paths are relative to the
repository; *runtime*, *agent* and *connect* are the `__init__.py` of
`packages/algovoi-keystone-{runtime,agent,connect}`.

## The system

Keystone turns what happened to a payment or a data write into records, each with
a reference that is a sha256 over its own fields, and chains those references.

| part | state it keeps | operations | hard because |
|---|---|---|---|
| Journal (runtime 131-305) | a SQLite table of rows, each linked to the one before | append, head, queries, verify | several writers, callbacks inside the transaction, interrupts, death of the process |
| Journal custody | a file between two audits | verify with or without a pin | anyone may change the file in between |
| Runtime, guard, connector (runtime 306-392, agent 184-292 and its `library.py`, connect 62-131) | `executions`, `log`, the Journal | bind, dispatch, guarded call, coroutine | failure at any step, threads sharing one list, results that arrive later |
| Chain verification (`packages/algovoi-keystone`) | none | verify_chain: refs, pins, six assertions | names, refs and contents that can be changed apart from each other |
| Retention chain | none (a service without state) | chain_ref, linked chain_ref, verify sequence | two kinds of reference in one chain, slices, refs recomputed by whoever holds the records |
| Control panel (`control/`) | sessions, attempts, pins, settings, descriptors | login, logout, pin, settings, detect | one event loop plus a thread pool, files rewritten whole |
| Panel: pins and settings (api 123-172, 330-427; `store.py`) | `_PINNED_SESSIONS`, its file, the settings file | pin, put, reset, lazy expiry, restart | handlers on the loop and in threads rewrite whole files; reads and writes fail |
| Panel: detection (`detect.py`, each package's `keystone.py`) | none; reads what is installed | detect, all_known | catalogue and entry points claim the same names |
| Reference packages (`packages/*`) | none | one reference each; delegation and revocation chains; `bind_keystone` and its verifiers | which fields a reference covers, and which verifier looks at which reference |
| Adoption scripts (`packages/*/scripts`) | none; read a submitted project | four checks over its files | files change and fail between checks, and are listed in any order |
| Adapters, plugins, tools | none | conversions | not modelled |

How they meet: a client wrapped by a connector records every write in
`executions`; `Runtime.bind` puts the journaling wrapper and then the guard
around it; the guard's engine calls `Journal.append` for every firing; the
journaling wrapper calls it for every execution record; `keystone journal` reads
the same file from another process.

What makes each part correct: the Journal never forks, never loses an
acknowledged row and always verifies; verify accepts nothing it should not; no
write without its evidence, no evidence for a write that did not happen, none
twice; a pinned reference means the records or links it was issued for and no
others, through all the documents it reaches; a session is gone when it should
be; an edit of the settings is somebody's who held a pin, and loses nobody
else's; a licence key is issued on evidence that was there.

## Modules

| module | models | correspondence |
|---|---|---|
| `JournalRows` | rows and `Journal.verify` | a journal_ref is the sequence of record_refs it hashes (collision-free hash); `EntryFor` is the INSERT, `Linked` and `RowRecomputes` are the loop of verify |
| `AuditLog` | what a Journal promises | a log that grows at its end, receipts for entries that are there |
| `Journal` | `append` on several connections, `cmd_journal` | `pc` is the statement a connection is at; one action per statement, per way it can raise, and per interrupt; `lock` is SQLite's write lock |
| `JournalCustody` | verify after the file was elsewhere | one action per kind of edit; append is one step because `Journal` shows that it is |
| `BehaviourLibrary` | events, rules, triggers, `library.py`, `check_guard_coverage` | none: operators with the names of the code |
| `GuardedPolicy` | `GuardedWrite` and `BehaviourLibrary` together | `deployment` is the engine and its guard, `request` what each call asks, `handed` the copy the last behaviour left |
| `GuardedWrite` | a call through `bind` | `pc` follows the call through `_wrapped`, `wrapped` and `caller`; `executions` is the connector's list; the Journal is the abstract log |
| `PanelSessions` | login, logout, the gate of the control panel | one action per stretch between two awaits; `sessions` is the set of the entries of `_SESSIONS`, whose insertion order is that of the tokens, `attempts` is `_LOGIN_ATTEMPTS`, `req` the requests under way |
| `RetentionChain` | both retention refs, `verify_chain_link`, `verify_chain_sequence` | `chain` as issued, `records` as presented; a custodian edits fields, slices, and recomputes refs of either kind |
| `ChainVerification` | `verify_chain`: `_resolve`, `_binds`, pins, assertions | `signed` as composed, `links` as presented; a custodian changes contents, binds, refs, names, order |
| `PanelSettings` | pins, settings, and the requests that rewrite both | `pins`, `pinFile` and `file` are `_PINNED_SESSIONS` and the two files; `req` is where a request stands, with the copy it loaded; loop handlers interleave at awaits only, thread handlers anywhere |
| `Detection` | catalogue, entry points, `detect`, `all_known` | used by `PanelSettings`, where pip changes what is installed; the fourteen `keystone_step` functions are `...Step` |
| `References` | one reference function per package | a document is a record, a value a record of one field that is its type, a reference the fields it hashes, or `Malformed` |
| `Evidence` | `bind_keystone`, `record_stage`, the three validators of records, chains of grants, a lifecycle of fourteen documents | `issued` as made, `held` as handed over; a custodian changes, drops, exchanges and recomputes |
| `Adoption` | the twelve adoption scripts | a script is its package and its anchors; `at` is the check it is in, `todo` the files still to read; files are read in any order the listing allows |
| `JournalProofs`, `GuardedProofs`, `PanelProofs`, `RetentionProofs`, `ChainProofs`, `SettingsProofs`, `EvidenceProofs`, `AdoptionProofs` | proofs | each EXTENDS the module it is about; `GuardedProofs` EXTENDS `GuardedPolicy`, and with it `GuardedWrite`; `JournalProofs` has `Journal` and `JournalCustody` |
| `MC...` | instances for TLC | model values, records, kinds of calls |

Operators whose comment begins with "Fault:" are not part of any specification.
They are the mutated forms used to show that each property can fail.

### Choices

- **References.** A hash is represented by what is hashed (also in `RetentionChain`,
  where `<< >>` is an optional value that is not given and `<<x>>` one that is, and
  in `ChainVerification`, where a marker is hashed as the ref of the link it names). Two records can have
  the same reference: an execution_ref does not cover extra fields, one of which
  (`stage`) is a column the queries use. The instances contain such a pair, so a
  passing pinned verify pins the references and not that field.
- **SQLite** is external: BEGIN IMMEDIATE takes the one write lock or raises,
  COMMIT waits for readers, an uncommitted row is invisible and is dropped with
  its connection.
- **Interrupts.** A KeyboardInterrupt is raised between two bytecodes, hence
  after the C call that was running. During BEGIN this is outside the `try`: the
  call raises and its transaction stays open, and until it is closed every append
  on any connection raises. During COMMIT the row stays although append raises.
  Both are actions of `Journal`; they limit what a receipt can mean, and
  `AuditLog` says so.
- **Guarded calls.** In `GuardedWrite` whether a behaviour matches, what it says and
  whether a callback raises is a free choice at every step; `GuardedPolicy` narrows
  the first two to what triggers and rules say of the event. Each of its steps is
  one of `GuardedWrite`, so what is proved there holds of it. FLAG and ALLOW are kept apart
  from BLOCK only. A sqlite connection refuses other threads, so their appends
  raise; their writes still reach the data plane when nothing fires for them.
  Calls made from inside another call's callbacks are not modelled, and the
  arguments of a call stay what they are while it runs.
- **Behaviours.** Of a value the rules tell apart its type, the number it compares
  as (none for NaN or a word) and its text in pieces. Rules of the
  deployer's own return anything, triggers ask for a stage and for the value of one
  top-level field, and an action leaves the event with other arguments
  and another stage. `PolicyEnforced` speaks of arguments given by keyword.
- **Panel.** The handlers are coroutines on one event loop, so what stands between
  two awaits is one step; the thread pool's handlers do not touch these tables.
  The wall clock and the monotonic clock are one clock, several steps can happen
  at one reading of it, and a tick can come between any two. A request the gate
  refuses (origin, csrf token, unknown cookie) changes nothing and is no action.
- **Retention.** Nothing stops the holder of the records from computing refs, so
  re-referencing is free and only edits are bounded. The chain may mix linked and
  legacy refs; what a pin means is stated for each.
- **Chains of links.** A preimage is split into contents and binds, which name or
  spell out other links. Assertions read both as they are written, before any name
  is resolved; references resolve the names. Values are well typed (those of
  other types raise or fail before they can be accepted); any field may be missing.
  Whether a number is written 1 or 1.0 is in no reference, but assertions about
  times accept the first only; `floats` names the fields written the second way.
  `MaxSafe` is 2^53-1, the largest number `_pos_intish` accepts (no number of the
  instance is larger; the proofs cover those that are). Fields an instance does not use are not in its contents.
- **Settings.** A value is the number of the edit that wrote it, so a lost or
  resurrected value is seen. `spoiled` remembers that a failed read or save, or a
  thread that overlapped with another save, may have spoiled a file: the properties
  say what holds until then, and that nothing else can spoil it. The pin file is
  read at the start of the panel; `RestartUnread` is the start at which that fails. A save's rename is
  atomic, and a failed one leaves the old file, as `os.replace` does.
- **Detection.** Displayed order and default settings are left out. Bolt-ons of
  the instance claim the name of a catalogue step, its ref, each other's ref and
  name, and a malformed name.
- **Documents.** A missing field and one of a wrong type are the same `Mistyped`:
  every function treats them so. Strings are references or not, empty or not.
  Every value carries a tag of its type, so that values of different types compare.
- **Projects.** A line is what a pattern makes of it: a form (`==`, `>=`, a
  scope...) with a package, an anchor by its first digits, or AlgoVoi alone. The
  four checks are the same text in the twelve scripts, of which one is mapped;
  for the others the map names anchors, patterns and checks together.

## Runs

| run | instance | what it shows |
|---|---|---|
| `journal` | 2 writers, 1 reader, 4 records (one invalid, two with one reference), 2 rows before the last append; fair. Beside them, chains up to 3 rows in their keeper's hands, 2 edits | type, no fork, receipts hold, readers agree, refinement of `AuditLog`; every append ends; a pinned verify is exact; an unpinned one accepts only what some append left, until links are recomputed |
| `guard_policy` | a write with 4 requests and a read with 2, engines with each ordered pair of 11 behaviours; and with 2 behaviours that may say anything a third, asynchronous call of another thread; crash and restart | no write without journaled decisions, nor against a behaviour that concerns it; denials have a reason and no effect; a record is journaled if its call returned or failed, once, in order, and only if it happened |
| `guard_async` (violation) | the same calls on one thread, no behaviours | "every committed write" is journaled, except asynchronous ones |
| `panel_sessions` | 2 concurrent requests, 3 addresses of which 2 can be tracked, 2 sessions, limit 1 per 2 ticks | tables bounded and ordered, sessions end for a reason, the limiter's overrun is bounded while no more addresses failed than can be tracked |
| `panel_expiry` (violation) | the same | "pruned on use": the gate never looks at the expiry |
| `retention` | 2 receipts, 2 issuers, chains up to 3 of every mixture of refs, 1 edit and any re-referencing | a pinned linked head is exact; a legacy one reaches back as far as links do; without a pin, a whole chain from its origin; what was issued verifies when asked for as it was made |
| `retention_service` (violation) | the same | the service refuses a chain of the refs it computes, which `scripts/acceptance.py` and the package's README take to verify |
| `chain_verify` | 5 contents, chains up to 3 links with up to 2 binds each, 1 change of any kind, the way a number or a reference is written included | exactly what reaches a change diverges; a pinned link commits to what it binds; assertions about pinned links keep their meaning, but for a time written as a float and for references compared as written; journeys and caps say what they claim |
| `scope` (violation) | the same | "the inner widened nothing": a scope that leaves the jurisdictions out is within one that names them |
| `settings` | 2 concurrent requests, 2 steps, 2 pins, 2 edits, 1 failed read or write, 1 tick, any number of restarts, pip | settings and pins are kept unless a failed read, a failed save or an overlapping thread spoils them; every edit had a live pin; one step a slot, and the panel's two lists agree while no bolt-on shadows a catalogue step |
| `evidence` | a record, chains of up to 3 grants (2 changes), a lifecycle of 14 documents (1 change), any recomputing | what each issued reference still fixes |
| `adoption` | every variation of a guardrail project, one project for every single anchor of every package, 4 command lines, 1 change or unreadable file | the order of files decides only between NOTICE files that disagree; no key without evidence; no package's vectors pass another's script, but for two named pairs |

Bounds. Every hazard of the Journal is between two transactions, or a transaction
and a reader; two writers and two rows contain each of them, and the third row of
a chain adds the case in which the tampered row is neither first nor last. In
`GuardedWrite` each call is made once; two behaviours are enough for a BLOCK
before or after another verdict, and three calls for two threads and a coroutine.
The behaviours of `guard_policy` are one of each kind, with triggers for one method,
for all and for stages a guard never has, and one that hides the arguments; the
requests give amounts below and above the limit, as a number, a numeral and a word,
and places that are open, locked, missing and of no use as a key.
In `PanelSessions` a session lives two ticks and the clock makes three, so
sessions expire while others live; four sessions are issued into a table of two, and
the third address finds the table of attempts full.
Three records, or links, contain a first, an interior and a last one, and a
reference that reaches another through a third; the contents of `chain_verify`
include scopes that narrow, widen and leave a list out, and executions that fit a
cap singly but not together, are too large for the cycle, or come after the
expiry or a revocation. In `settings` two requests contain every pair of load and
save, two steps the loss of another's settings, and a pin lives one tick, so the
tick comes before, between and after its save and use. In `evidence` two changes are enough
to change a document and something that refers to it; recomputing is unlimited.
In `adoption` one change between two checks is what each check can miss. The
proofs remove the bounds for what they cover. `CHECK_DEADLOCK FALSE` stands where
the bounded run ends: when all calls are over, or all edits made.

Fairness (`journal`, the only run with a liveness property). Weak fairness on the
steps of a call under way: SQLite answers each statement and stops waiting for a
lock after `_BUSY_TIMEOUT_S`, and the clock callback returns. Nothing is assumed
of other connections: one that was left with its transaction open may stay so.
The panel and the scripts have no waiting of their own to be fair about.

## Proofs

- `JournalProofs` proves `JournalInv`: types, the open transaction is the one
  that holds the lock, its head is fresh, each row spells the chain before it,
  receipts anchor prefixes, heads of calls that committed are distinct. None of
  these is inductive alone: that a committed row keeps the chain needs the fresh
  head, which needs the lock. Verify, receipts, fresh and unique heads, readers
  and the refinement of `AuditLog` follow.
- The second part of `JournalProofs` is about `JournalCustody`: a pinned verify is
  exact for any rows at all; the unpinned one follows from the invariant that every
  journal_ref in the file was returned by an append. Both parts rest on lemmas about
  rows. That linked rows spell their chain is an induction over the rows; it is proved
  from the least row that does not, because the library's induction theorems cannot be
  instantiated here. The other inductions over sequences are done the same way.
- `GuardedProofs`: `GuardInv`: what has fired is in the Journal, and a call is past
  the guard only when all behaviours were asked and none blocked; this gives
  `NoUngovernedWrite` and `DenialsOnRecord`. The evidence of outcomes needs
  `JournalingInv`: every execution record there is, in the list, in a slice or in the
  Journal, is true and its call is past making another (`RecordsInv`); an exception
  and an outcome fit how far the call has got (`ProgressInv`); the record a call owes
  is behind its mark, in its slice or journaled (`OwesInv`); and what a call on the
  Journal's thread will journal is not there yet (`FreshInv`), because one call at a
  time runs on a thread and the connection refuses the others.
- `GuardedProofs`, second part: `PolicyImplementsGuard` shows that
  `PolicySpec` implements `Spec`, so what was proved of arbitrary behaviours
  holds of those of the library. `PolicyEnforced` needs `PolicyInv`: every
  behaviour asked so far whose trigger matches the event of the call fired
  with a verdict of its rule for that event, which rests on each being handed
  the event as it was made (`Handed`), and nothing else fired. Rules and
  values are arbitrary within `PolicyAssumption`, which says which fields a
  rule of each kind has and what a value can be compared as.
- `PanelProofs`: `TablesInv` adds to the bounds that tokens were issued and that no
  session outlives one made now; that an unexpired session is not pushed out early is
  a count of the tokens issued after its own. For `OverrunBounded`, `RecordedBounded`
  says it of the attempts in the table: a request that passes the check found fewer than
  the limit, an attempt under way becomes a recorded one, and pruning forgets only what
  has left the window. `FailuresRecorded` says that as long as the table has not been
  too small, every failure that still counts is in it. The
  lemmas about `InWindow` count the attempts in a window, whatever their order.
- `ChainProofs`: chains of any length. `ChainInv` says that the composed chain names
  only earlier links, spells no ref out and declares what it recomputes to, and
  that the presented one consists of links, whatever was done to it. References and
  reach are recursive functions on the chain; the lemmas `RefsHash` and
  `ReachUnfolds` show that they exist, by extending them link by link.
  `DivergesAt` and `Commits` are inductions over the links: two references are equal
  only if contents are and the references of what they name are, down to the
  first link. From these `TamperDiverges`, `PinnedCommits`, `JourneyCovers` and
  `PinnedAssertionsHold`, the last by kind of assertion; of two references written
  alike it needs only that they resolve alike. `RecurringBounded` holds for any
  contents, given that numbers are integers and resources paths (`ChainAssumption`).
- `RetentionProofs`: what a pin means is shown for any records of the right type,
  issued or not: equal refs hash equal records and equal refs before them, so from
  the pinned head backwards the two sequences agree; the largest place where they
  did not would be a counterexample one step later. `RetentionInv` supplies that
  issued records are numbered and hash themselves; `IssuedVerifies` adds that each
  names the receipt and the ref of the one before it.
- `SettingsProofs`: `PinInv` (every table of pins there is, in memory, on disk or
  about to be written, gives its tokens the expiry they were granted) is what
  `EditsArePinned` needs across restarts. `PinsKeptInv` adds, while nothing
  spoiled the file, that at most one save is under way and that it carries the
  delivered pins, which a start that reads the file preserves; `SettingsInv`, that a copy about to be saved is the file as it
  is now, which rests on the loop running one handler at a time (`OneOnLoop`).
  `SlotsAlwaysAgree` is about `Detection`, for any catalogue, editions, bolt-ons and
  environments: `Merged` is a recursive function on the list of entry points, so what
  it installs and what it refuses is an induction over that list, from the least entry
  at which `detect` and `all_known` would part without a shadow.
- `EvidenceProofs`: a reference is injective in the fields it hashes (`HashPins`), so
  equal references pin equal fields; the rest says which fields those are and who
  could have changed them. `RecordsAlwaysPinned` needs `RecordIssued` (what was issued
  is a keystone record that carries what it recomputes to, or a stage record) and that
  a verified record has one self-reference. `ChainsAlwaysPinned` goes back from the
  link at which two verified chains meet, to the first (`ChainsMeet`, for chains of
  any length); that nobody can link to what was not issued without computing a
  reference is `Unlinked`. `LifecycleAlwaysTraced` needs `Prepared`: every issued
  document is its contents with the references to those before it, and a held one has
  no fields but these. Equal references then mean equal documents (`RefFixes`), and a
  consistent document hands the equality on to each it names (`AgreementSpreads`), in
  four rounds, which are enough for the lifecycle's tables (the lemma `BelowIsClosed`).
- `AdoptionProofs`: `EvidenceInv` says what a passed check leaves behind, at the
  moment its file was read; `OrderInv`, for runs without changes, that a check in
  progress has passed exactly if a file it has read matches and that no NOTICE
  that decides was passed over. Projects, options and listings are arbitrary.

They assume the ASSUMEs of their modules: the types of the constants, and that
the markers for "nobody" and "no record" are not connections or records; for
`GuardedPolicy` and `ChainVerification` also the shapes of rules, values, contents
and acts, which the code checks or the comparisons need; for `Evidence`, that a
link a custodian writes, if it is a reference at all, was made elsewhere (a hash
cannot be guessed); for `Detection`, that the mark of "no package" names none.

Only model-checked: `EveryCallEnds`, which is liveness under fairness and out of the
prover's reach, and the four violations, which are counterexamples. What the proofs
do not remove is the models' own abstraction: a hash is what it hashes, and
whatever else is listed under Choices.

## Not modelled

Listed with their reasons under "components" in `PROJECT.json`: the substrate
guard (a recursive limit check of one value), HTTP signatures and the hub client,
the panel's licensing, TLS and start-up, adapters, plugins and tools. Of the
modelled parts: `expected_count` of the Journal (one more comparison), the checks
made when a connector or a runtime is constructed, the cap (a label on a
chain's result), `@@` escapes and values of a wrong type in a chain, the panel's
display list of integrations and its pages.

## Met while modelling

Not the subject of a run, or only shown in passing:

- The class docstring of Journal (runtime 134-136) says verify proves that nothing
  was removed; without a pin the newest rows can be (`UnpinnedVerifyIsAPrefix`).
- A behaviour of `on_charge` looks for `action_type` among the top-level fields of
  the event, and the event of a guarded call has none (agent 279-284): with
  `stage="execution"` it passes `check_guard_coverage`, which asserts that "every
  behaviour can actually fire" (agent 387), and never fires. The example
  `check_behaviour(cap_charges(500), [synth_event("spend_decision", amount=900)])`
  of packages/algovoi-keystone-runtime/README.md:24 has no `action_type` either.
- `deny_list` allows what it cannot see, such as a positional argument; the other
  rules deny it. A keyword named `method` is hidden by the name of the method.
- The login limiter (api.py 301-313) checks before an await and records after it;
  `OverrunBounded` says by how much "max 5 attempts per IP per 60 s" (api.py 52) can be
  exceeded. Once the table of attempts is full, entries go only when their own address
  comes back, and the failures of an address without an entry are not limited (api.py
  111); the property stops there.
- Two links without a scope pass `scope_subset` (None equals None), which the
  comment in `_get` describes as the vacuity it guards `field_equals` against. A
  list that the inner scope leaves out is read as an empty one (verify.py 133): run
  `scope`.
- `field_equals` on fields that refer to links compares what is written (verify.py 191
  of 406): a marker differs from the ref it resolves to, so whoever writes one out
  turns `ok` into a failure while every reference stays (`PinnedAssertionsHold`).
- A retention sequence of no records verifies at any pinned head when no length
  is given (chain.py 207).
- The docstrings chain.py 184-185 and service.py 83 and the comment acceptance.py 12
  still say that slices verify; since 0.4.4 they do not (CHANGELOG, test_chain.py 243,
  `AcceptedFromOrigin`).
- A chain whose assertion lacks a key ends `keystone verify` with a traceback and
  exit code 1; README.md:264 has 2 for a problem with the input.
- The fallback validator, called "stricter" in cli.py 125 and said to check wrappers by
  the same strict rules (cli.py 113-119), accepts wrappers and records with two
  self-references that the runtime refuses: it looks at the execution tier only. A
  record that drops type, chain and trust fields is validated as a plain execution
  record (`RecordsPinned` says what its reference still fixes), and a stage record
  may carry trust fields although the docstring of `verify_record` (87) rejects
  trust material without a valid wrapper.
- Chains of grants: without a pinned last reference the last link can be changed
  and any number can be missing (`ChainsPinned`). A `prev_..._ref` that is no
  string raises TypeError where `tamper_detected` promises True.
- A settings file that cannot be read counts as empty, so the next edit erases the
  other steps' settings; a reset in a thread can undo an edit. `SettingsKept`
  names both. A pin file that cannot be read at a start counts as empty too, and the
  next pin erases the others (`PinsKept` names it). Settings of a step outlive its package, and a bolt-on with the same
  step name inherits them.
- A bolt-on can take the slot of a catalogue step of which no edition is
  installed, although "nothing may collide with the built-in catalogue" (detect.py 8),
  "a bolt-on may not shadow a catalogue step or ref" (detect.py 377) and README.md
  121-122 says "No shadowing"; test_descriptor_trust.py 31 tests an installed edition
  only. `detect` shows the bolt-on and `all_known` does not, and what it keeps out of
  one list may be in the other, so `SlotsAgree` says nothing of the lists then.
- Adoption: `~=` and `@` count as pins; the pin patterns know the PyPI name only,
  so projects of other ecosystems pass the first check and never the fourth; exit
  code 1 (HOLD) is never returned; `.csproj` files count only as the lockfile on
  the command line; the guardrail's anchors include one of the passport and one of
  the mandate; NOTICE files of one place that disagree about the package make the
  verdict depend on the listing.

## Plan

Done: the Journal, the guarded write path and its behaviours, the panel's sessions, pins, settings
and detection, retention chains, chain verification, references and evidence,
adoption; every invariant, action property and refinement that a run checks is
proved.

1. Abstract specifications: what a chain of links promises (a set of commitments)
   with `ChainVerification` as its implementation; one guarded call as an atomic
   decision followed by an effect.
2. Mistyped values in `ChainVerification`, with the exit codes of `keystone verify`.
