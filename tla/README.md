# Contract snapshots: specification, model checking and proofs

The repository exports the state of a few contracts at one block from a Reth
database (`reth-contract-snapshot`), as a JSON document that carries its own
evidence (`snapshot-format`), and runs `eth_call`s on such documents in a
browser page (`snapshot-web`: a WASM executor in a worker, and the page).
This directory holds TLA+ models of that code, the TLC runs that check them
and proofs checked by TLAPS. `PROJECT.json` maps every definition to the lines
it translates and lists runs, mutants, hazards, findings and theorems.

    tlc -workers 2 -config SnapshotWriter.cfg MCSnapshotWriter
    tlapm SnapshotWriter_proofs.tla

## 1. Inventory

    Reth database -> RethStateSource -> write_accounts -> StagedSnapshot -> file
                                                                             |
          page (main.ts) <-> ExecutorClient <-> worker <-> SnapshotWorkspace <
             |
          localStorage (AbiStore)

| Component | State it keeps | Operations | What is hard | What makes it correct | Module |
|---|---|---|---|---|---|
| Snapshot document (`snapshot-format`) | none; a document | `Snapshot::validate`, `from_slice`, `StorageRootBuilder`, serde pairs of `hex.rs`, names of hardforks | canonical texts at the edge of each width, presence of fields per fork, three kinds of commitment | what is accepted is what the hashes commit to; one text per value | `SnapshotFormat`, `HexText`, `ForkRules` |
| Command line and call form (`command/cli.rs`, parsers of `workspace.rs`) | none | `parse_address`, `parse_block_number`, `parse_quantity`, `parse_bytes` | parsers more lenient than the document's | they agree with the document's on what it accepts; no value wraps | `HexText` |
| Writer (`snapshot/writer.rs`) | records collected; per account start key, previous key, builder, entries; statistics | `write_accounts`, `collect_account`, `validate_entry`, `next_page_start`, `key_successor` | page boundaries, per-account resets, an untrusted source, termination, an output cut off | the committed storage or an error; what it writes loads | `SnapshotWriter`, `ExportOracle`, `KeySuccessor` |
| Reth source (`provider/reth.rs`) | the anchor | `anchor_at`, `account`, `storage_range` | several reads while the node moves; two views of the state that may disagree; reorganisation there and back | everything returned is of the anchor's block, on the canonical chain when returned | `RethSource` |
| Execution rules (`provider/reth.rs`, `workspace.rs`) | none | `resolve_anchor`, `hardfork_from_spec_id`, `spec_id`, `execute`'s configuration | two tables in two crates, optional fields per fork | a call runs under the rules of its block | `ForkRules` |
| Export command (`main.rs`, `command/output.rs`) | staging file, destination | `run`, `prepare_snapshot`, `StagedSnapshot::new`, `commit` | failure at each step, signals, loss of the machine, two exports to one file; source, writer and file each have errors of their own | the destination is old or a whole snapshot of one canonical block; nothing is left behind | `StagedOutput`, `Export`, `SnapshotPublication` |
| Workspace (`executor/workspace.rs`, `database.rs`) | context, accounts, shared code, ABIs | `add_batch`, `remove_snapshot`, `set_abi`, `remove_abi`, `execute` | code shared by hash, a context owned by whatever is loaded, batches that fail half way | one block; every account has its code; batches are atomic; contracts do not affect each other | `Workspace`, `LoadedContracts` |
| Contract ABI (`abi/mod.rs`) | the parsed interface | `parse`, `describe`, `encode_call`, `decode_output`, `decode_revert` | overloads, repeated signatures, errors that share a selector, types that do not resolve | a result reads as the page describes it | `ContractAbi`, `Workspace` |
| Executor client and worker (`ui/src/worker`) | next id, pending calls, `unavailable`; handlers waiting for WASM | `request`, `onmessage`, `onmessageerror`, `onerror`, `dispatch` | two threads, start-up, lost answers, a worker that dies | every call settles once; calls are performed in order | `ExecutorClient`, `RequestService` |
| Page (`ui/src/main.ts`, `abi-store.ts`) | account map, target, ABI panel, descriptions, form, localStorage | every listener, split at its awaits | answers that come after the user went on, or never | page, storage and executor agree | `WebUi` |

Interactions: the writer calls the source through `ContractStateSource`
(synchronously, one call at a time); the command drives anchor, accounts and
writer and owns the output; the page and the worker exchange messages on two
ordered channels; the worker calls the workspace, one call at a time; the
document is the only thing that passes between the two programs.

Not modelled, and why: clap's option table, error wording and page rendering
(text and layout); `display_value` and alloy's coercion and codec of single ABI
values (a value is known by its type, data by the types it can be read as); the
EVM (revm: a call is known by the accounts it touches, the block hashes it asks
for, and a result of any status and data); keccak256 and the Merkle-Patricia root
(ideal: injective); JSON syntax (serde); `RethStateSource::open`; build,
deployment and sample data. Code outside the repository is modelled only from
how it is used (a node that moves, a filesystem with a page cache, a browser that
delivers messages, a quota on localStorage) and is marked external in the map.

## 2. The modules

Conventions. An `Option` is a set with at most one element. An operator marked
`[defect]` is a plausible mistake in the definition after it; `PROJECT.json`
names the property it breaks when it takes that definition's place. History
variables are named so where they are declared.

**SnapshotFormat** holds the records of a document and `Snapshot::validate`
check by check (version, blob fraction, fork-dependent fields, hash window,
addresses, code hash, storage order and root). A 32-byte key is a number, and
only zero and inequality of words matter.

**HexText** writes and reads quantities, hashes, addresses and bytes in any base
and at any width: `{:#x}` by division, `from_str_radix` digit by digit, the checksummed text of an address recased, and the parsers of
the document with their order of checks and narrowing conversions. The command
line and the call form have readers of their own: capitals, spaces around an
address, `0X`, a second `0x`, a sign, underscores, decimal digits, no digits at all. `LowerHex`
and `PrefixNumbers` are recursive functions, not `RECURSIVE` operators, so that
they can be proved about.

**SnapshotWriter** is `write_accounts`. Its steps are the points at which the
code leaves itself: a `storage_range` call, and the writing of the output, which
may fail half way. `AcceptPage` carries the checks of every entry, the
counter and `next_page_start`; `FinishAccount` is the root check after the last page.
A trusted source answers what a trie can, any other one anything (`trusted`). **ExportOracle** is what an export promises: whole accounts in the order
of the request, and a document only once all are there.

**KeySuccessor** is the byte loop of `key_successor`; `SnapshotWriter` takes a
key for a number and its successor for the next one, which `SuccessorIsNext`
justifies.

**RethSource** is the export seen from the database: chain info, header, window,
and per account the verification, the range read, the historical read and the
confirmation. The node may grow, reorganise or prune between any two reads.

**Export** composes the three: the calls `SnapshotWriter` makes of its source are
the steps of `RethSource`, its arguments are what `RethSource` returned, its
document is what `StagedOutput` stages, and an error of any of them ends the next
one out. Each action names the component steps that are one step of `run` or
`prepare_snapshot`. The source vouches for the anchor only: the entries of a page
are anything, as for an untrusted writer. **SnapshotPublication** is the promise of the whole
command: the destination holds what it held, or a document that loads and is the
snapshot of one block that was canonical when the export committed to it (`Spec`);
and the export ends (`Ends`). Its `pinned` block is fixed when the first account has
been taken. `Pinned`, `AtDestination` and `Outcome` are the refinement mapping.

**ForkRules** carries a header through `resolve_anchor`, the reader's validation
and `execute`'s configuration; a document may also come from elsewhere. The
hardfork is written by name and read back from it. `Environment` is what a call
then runs under: SpecId, base fee, randao, price of blob gas and slot.

**StagedOutput** is `run` from staging on: several runs, memory and disk images of files and directory,
errors (destructors run), signals (they do not), and loss of the machine.

**Workspace** has one action per method; each is atomic because the worker runs
one call at a time. `add_batch` does its checks in the code's order and builds
what it adds before it touches the maps. A call is refused, fails on a database
query or because the EVM does not take the transaction, or returns a result of some
status and data, which is read with the
target's ABI. **LoadedContracts** is its promise: a map from addresses to contracts
whole by themselves, all of one block, and a map of ABIs. The mapping takes from the
shared `code` map what the database would serve for each account (`Served`), so it is
there that sharing, the common context and record-by-record insertion must not show.
**ContractAbi** has the choice of the function or error a text or a
selector names, on interfaces with overloads and repeated signatures.

**ExecutorClient** makes a JavaScript task with its microtasks one action. The
worker's handler awaits `ready`, so requests that come early wait in handlers of
their own (`suspended`). Requests can fail to be sent, answers can be unreadable,
the module can fail to load, the worker can end. **RequestService** is its
promise: ordered, at most once performed, settled once.

**WebUi** splits each handler of the page at its awaits. It uses the executor as
`RequestService` describes it: answered in order, or lost with the worker, once
and for all (`WorkerFails`: all calls under way fail, those performed too, and
later ones fail at once). `Underway` lists the calls to settle, in order: those
performed, then those not. Addresses typed in the panel are of `Addresses`. The
account map is its set of keys and a file the set of its addresses: which account
comes first, when the target has gone, depends on an order the model leaves open.
Of rendering it keeps the ABI whose functions the form shows. `reading` is a bag: the
same files may be dropped twice before their bytes are read. The executor may refuse
any call (a document, ABI, address or call that is no good, a message that cannot be
posted, a lost worker), and what is refused changes nothing. `unsaved` is a history
variable: per address, the ABI that the executor accepted and localStorage had no
room for.

## 3. What is checked

| Run | States | Instance, and why it is enough | What it shows |
|---|---|---|---|
| `writer` | 31 220 | four keys, two non-zero words, pages of at most two entries (an account needs several), storage at both ends of the key space, pages cut by bytes or hash limit at every place, a counter that overflows at four; anchors of another fork, too short, too early; each source, trusted or not | an arbitrary source cannot make the writer collect or write anything but the committed storage (`RecordsFaithful`, `OutputLoads`); calls are bounded; it implements `ExportOracle`; with a trie pages tile the storage (`PagesTile`) and no check fires by mistake (`NoSpuriousFailure`) |
| `export` | 107 492 | two accounts, one with two leaves and so several pages; three chains that fork after block 1, a window of two, a block with its parent's state; a range provider that answers for other roots; every page of up to two entries; failures, signals and outages throughout | `ImplementsPublication`, the promise of the whole command, and `ExportEnds` |
| `key_successor` | 202 | all keys of four bytes of three values: every run of carries | `SuccessorIsNext` against the order of byte strings |
| `hex_text` | 411 435 | three readers; base 3 with one letter, and one character that is no digit, 3, 9 and 27 values, widths 2 and 3, every text of up to one character beyond the widest, with or without prefix, sign, spaces, a second prefix | `RoundTrip`, `OneText` |
| `reth_source` | 7 741 | two branches that fork twice within the hash window, a block that has its parent's state root, a range provider that answers for other roots | anchor and window of one chain, accounts of the anchor's state, nothing returned off the chain, no false alarm |
| `fork_rules` | 33 041 | all 19 hardforks and a name of none, all 15 SpecIds, each optional field absent, zero or one; fractions up to one beyond u64 | `RulesKept`, `EvmFieldsFitFork`, `WellFormedLoads` |
| `staged_output` | 170 118 | two runs to one file and one to stdout; one renamed file under another run's is the largest conflict there is | `DestinationWhole`, `NothingLeftBehind`, `OnlySuccessReplaces` |
| `staged_output_killed` | violation | one run to a file | finding 1 |
| `workspace` | 25 777 | three addresses, two blocks, code shared and refused, documents that overlap, repeat or are invalid; ABIs with overloads out of order, a signature twice, a type that does not resolve and an error of a standard selector; requests malformed in each field | one block, exact code map, valid records, atomic batches, no internal error, `ResultAsDescribed`; it implements `LoadedContracts` |
| `executor_client` | 3 181 | four calls: before, during and after the start of the worker, with one more to come after a failure | order, no forgotten call, refinement of `RequestService`, `EveryCallSettles` |
| `web_ui` | 4 311 164 | two contracts, one with a saved ABI, two ABIs and a text that is none, four calls: a load, two ABI changes and an execution, the least that lets the form and the target's ABI drift apart; the worker may fail at any time | see below |
| `web_ui_saved` | violation | one contract, two calls | finding 2 |

`web_ui` takes two to three minutes, `workspace` two, the others seconds. `web_ui` checks that
the account list is that of the executor once answers are in (`AccountsMirrored`),
that a description is that of the installed ABI (`DescribedIsInstalled`; after a
`setItem` that threw, main.ts:318, the two do differ, and then what is installed must
be exactly the ABI that could not be stored), that a
call made while nothing was outstanding is encoded, decoded and labelled with the
ABI on the form (`ExecutedAsShown`), that the form is busy exactly while its call
runs, also when the worker fails under it (`BusyWhileCalling`), and that only ABIs
the executor accepted are stored and none is given up with a failed worker
(`OnlyValidatedPersisted`). Once the worker has failed there is nothing left for
the page to agree with, and the first two properties claim nothing.

Bounds that the code does not have: `MaxCalls` (calls of a session; the user
is done when they are made, or spoken for by files being read), `MaxPages` (pages after
the accounts in `RethSource`; in `Export` the writer itself bounds them), `MaxLength` (characters of a text). Bounds that
stand for the code's own: `CountLimit` (u64), `MaxFraction` (u64), `Window` (256).

Deadlock is checked where the code always has a next step (writer, workspace,
staging). It is off where a session or a pass simply ends.

Fairness. Two runs need it. `executor_client` (`FairSpec`): browsers deliver posted
messages and pending error events, requests in a form the worker can read (it has no
`onmessageerror`, so one it could not read would be lost and its call never settled),
a worker runs the messages it has received,
and the fetch of the script and `init()` end, well or not. Nothing is assumed of
users or of failures; `WorkerStops` is followed by an error event. `export`: the
command itself runs on (weak fairness of its own `Step`: it is one sequential
program whose calls return, well or not). The node, the signals and the outages
are under no fairness, so termination cannot lean on them.

### Findings

1. *A killed export leaves its temporary file* (`staged_output_killed`,
   `NoStaleFile`). The named temporary file beside the destination is removed by
   a destructor, and a signal runs none. README.md:49 promises that a failed run
   leaves nothing partial or stale. The destination itself stays whole.
2. *A removed ABI can stay in force* (`web_ui_saved`, `InForceIsSaved`).
   `loadAbiForAddress` reads the saved text before its await. Picking the address
   while `removeAbi` awaits the worker sends the old text once more, which is
   installed after the removal: nothing is saved any longer, yet the executor and
   the form keep the ABI.

## 4. What is proved

For every value of the constants, from the assumptions named in the modules
(finite limits are naturals, lists are sequences). Those of `RethSource` say what
chains are: `ChainsAssumption` (blocks numbered and linked from genesis on),
`HashAssumption` (a hash names one block, and so its ancestors), `StateAssumption`
(a state, and an answer of the range provider, has an account or none, and the
fields and storage root compared are all there is to one), `ArgumentsAssumption`
(the block asked for is a number or none). `ExportAssumption` is those of the three
components the command is composed of; `HexAssumption` that the base has at least two digits, some
of them letters, and that the limits of the quantities do not decrease. Every
invariant and every action property of a passing run is a theorem.

- `SnapshotWriter_proofs`: `TypeOK`, `RecordsFaithful`, `OutputLoads`,
  `CallsBounded`, `PagesTile` and `NoSpuriousFailure`, and that the writer
  implements `ExportOracle`. `PagesAreTiled` and `TrieIsAccepted` hold whenever the
  source is a trie. None is inductive by itself: `RecordsFaithful` needs to
  know what the locals of `collect_account` hold between two pages
  (`LocalsConsistent`: the leaves pushed to the builder are the entries kept,
  these are sorted and non-zero, and the previous key is the last of them). `IInv`
  adds it to `TypeOK`, and adds that the arguments were checked and that output
  begins after the last account. `ValidConcat` shows that checking entries one by
  one against the previous key is the reader's check of the whole vector. For a
  trie, `CommittedEntries` and `TriePageAccepted` give the tiling invariant.
  `SuccessorCorrect` is the theorem of `KeySuccessor`: `SuccessorIsNext` for any
  number of bytes of any range, by `CarryInv` (bytes passed were at their largest
  and are zero).
- `RethSource_proofs`: `AnchorOfOneChain`, `TakenAsAnchored`, `NoFalseAlarm`, and
  the action property `ReturnedWhileCanonical`, over any chains and any moves of the
  node between two reads. `SourceInv` adds three things to the invariants: what has
  been read at each point of a call (`Progress`); that between the range read and
  the confirmation the account just read is the anchor's, or the historical read will
  tell (`RangeChecked`, without which taking an account could not be shown to
  respect `TakenAsAnchored`); and that all blocks read are still canonical as long as
  the chain has only grown (`StillCanonical`, on which `NoFalseAlarm` rests).
- `Workspace_proofs`: `TypeOK` (no run repeats it), `ContextCoherent`, `CodeServesAccounts`,
  `LoadedRecordsValid` (together inductive, `WInv`) and from them
  `NoInternalError`; the action property `BatchAtomic`: accounts come only
  with an accepted batch, as all the records of one valid document of the workspace's block (`RecordOfAddress`
  picks each one's), and go only one by one, with a removal;
  `ImplementsLoadedContracts`, since `WInv` makes what the database
  serves of an account the record of its document (`ServedIsWhole`), before and after
  each step, and `NoInternalError` leaves a missing account as the only failed read;
  and `ResultAsDescribed`, from two lemmas about `ContractAbi`:
  the function that a described signature names is the one described
  (`FirstDescribed`), and a standard error wins over a declared one (`StandardFirst`).
- `Format_proofs`, on `ForkRules`: `RulesKept`, `EvmFieldsFitFork` and
  `WellFormedLoads`, for headers and documents of any numbers. `NamesAreRead` and
  `TablesAgree` are the two tables of hardforks, each an inverse on what the other
  yields; `WellFormedIsValid` is the exporter's header against the reader's fields.
  `RulesInv` says for each phase which header the anchor came from and that it passed
  validation.
- `Format_proofs`, on `HexText`: `RoundTrip` and `OneText`, for any base, number of
  values, width and length of texts. The library's induction theorems cannot be used
  (they take an operator), so induction is by the least counterexample: `LeastNat`,
  from the library's facts that `<` on the naturals is well-founded and that a
  non-empty set then has a minimal element. With it, `PrefixNumbersAre` and
  `LowerHexIs` show that the recursive definitions have the solution meant (for
  `LowerHex` on all naturals, pieced together from those on `0..n`, which agree:
  `NumeralsAgree`). `NumberAppend` is a digit more; `NumeralOfValue` says that what is
  written of a number is canonical and reads as it, `OneNumeral` that nothing else
  does. `TextInv` then says of a text under way whose it is, and each reader is one
  case: `TextsRead` for any text, `WrittenRead` for a written one.
- `StagedOutput_proofs`: `TypeOK` (no run repeats it), `DestinationWhole`, `NothingLeftBehind` and
  `OnlySuccessReplaces` for any number of runs. `DestinationInv` says that data is
  on disk before its name can be, in both images of the directory: without the
  disk image an outage would break the induction.
- `Export_proofs`: `ExportKeepsPromise`, that the command implements
  `SnapshotPublication`. The invariants of source and staging carry over, since each
  action of `Export` is a step of one or two components (`SameResolve`,
  `SameAccount`, `SamePage`, `SameStage`); `WriterInv` says what the records are
  while the writer is called with what the source returned. What joins them is
  `ReadFirst` (no writing, and no staged file, before all accounts are read) and
  `FileInv` (a file that is whole, in memory or on disk, holds the whole document;
  the destination changes on disk after it did in memory). `DocumentOfAnchor` is the
  heart: the document is the anchor's, its window that of one chain, its accounts
  those of the anchor's state and its storage what their roots commit to. Then each
  step is one of `SnapshotPublication` or none (`StepSeen`): `Confirm` of the first
  account pins the block, which is canonical at that moment, the rename publishes,
  an outage may undo.
- `ExecutorClient_proofs`: `TypeOK`, `MessagesInOrder`, `NoCallForgotten`, and
  `ClientIsOrderedService`: the client with its worker implements `RequestService`,
  for any number of calls. Two facts make the order inductive: nothing waits in
  `suspended` once the executor has loaded, so no request can overtake one that came
  early; and what is performed is older than all that waits (`PerformedInOrder`),
  so that no call is performed twice or late.
- `WebUi_proofs`: `TypeOK`, `AccountsMirrored`, `DescribedIsInstalled`,
  `ExecutedAsShown`, `BusyWhileCalling` and the action property
  `OnlyValidatedPersisted`, for any addresses, ABIs and number of calls. The first
  two speak of a page with nothing outstanding and are far from inductive.
  `ListCatchesUp` and `DescriptionCatchesUp` say it for the page that has still to
  catch up: of the answers on their way, the last that concerns an address says
  what the executor holds, and if there is none the page already agrees (`Agrees`: or
  the executor holds the ABI that could not be stored).
  `FormCatchesUp` says that the form shows its target's description or that a load
  is under way; `RequestsKeepTheirAbi` and `AnswersKeepTheirAbi` that a call made at
  rest keeps, in the queue and in its answer, the ABI it was encoded with, because
  no earlier request can change that ABI.
  `FailedMeansRefused` (a failed worker passes no success on) closes the induction
  for the worker that dies at any time.

Only model-checked, and why:

- `EveryCallSettles` of `ExecutorClient` and `ExportEnds` of `Export`: liveness under
  fairness.
- `NoStaleFile` and `InForceIsSaved` are false of the code (findings 1 and 2).

## 5. Plan

1. Done: format, writer and its oracle, key successor, workspace, staging,
   Reth source, fork rules, client and service, page; the export composed and
   checked against its publication promise; the ABI behind a call; the lenient
   readers; failure of the worker under the page; the abstract workspace; the proofs
   above.
2. Not done: the browser composed, `Workspace` behind the requests of
   `ExecutorClient`. `RequestService` and `LoadedContracts` are the promises the two
   keep; that the page's own picture of its executor (`WebUi`) is theirs is not shown.
