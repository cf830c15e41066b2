# Shielded Bitcoin probe: TLA+ models and proofs

This directory models the repository's core: the deterministic replay of
shielded transfers out of Bitcoin blocks, the commands that keep a state file in
step with a chain that reorganises, the wallet with its scans, sends and locks, the
operator's payouts, and the parts these stand on: how files reach the disk, the
Electrum client, the fee loop, the note tree, envelope bytes, and the constraints of
the circuit that are not hashing.
TLC checks the models on small instances; TLAPS proves the safety results for
every value of the constants. Line numbers refer to `src/` of the repository.

## 1. Inventory of the system

`sbp` is a command-line program. No process stays up: every command loads what
it needs from disk, talks to one Electrum server, writes its files and ends.
Concurrency is between commands (nothing stops two from running), between a
command and the Bitcoin network, and between commands and crashes.

| Component | State | Operations | Correct when |
|---|---|---|---|
| block replay (`indexer.rs`) | `State`: replayed height, leaves, nullifiers, roots, leaf counts and block hashes by height, events, rejections | `fresh`, `replay_tx`, `accept_transfer`, `accept_mint`, end of `replay_block` | no note is spent twice; inputs exist in the history; value is conserved; a root kept for h commits to the notes up to h; every anchor the window allows has its root; equal chains give equal states |
| sync and state file (`indexer.rs`, `bin/sbp.rs`) | `state.json`, one `State` in memory per command | `load_state`, `sync`, `save` | the file is the replay of the chain its tip hash names; it reaches the tip again after failures and reorganisations |
| payouts (`wallet.rs`) | `paid_payouts`, `failed_payouts`, `payout_txids` in the wallet file | `process_payouts` | no request is paid twice; refusals are final while the file that records them is; every sound request is paid in the end |
| wallet (`wallet.rs`) | notes, cursor, locks, sent records | `scan`, `record`, `unlock`, `mint`, `build_transfer`, `send` | after a scan the notes are those of the history; no two live carriers spend one note; locks end |
| wallet file (`wallet.rs`) | file, lock file, temporary file | `lock`, `create`, `open`, `migrate`, `save` | one command at a time; a crash leaves the old or the new file |
| Merkle tree (`tree.rs`) | levels | `append`, `path`, `prefix`, `root` | equals the tree over all leaves at every length |
| carrier (`chain.rs`) | none | `build_carrier`, `op_return_payload` | fee covers size at the rate; nothing is lost in dust but dust |
| Electrum client (`chain.rs`) | next id, socket | `call` and the `ChainSource` requests | an answer is the answer to its request |
| envelope codec (`envelope.rs`) | none | `to_bytes`, `parse` | one encoding per envelope |
| circuit (`circuit.rs`, `keys.rs`) | none | `generate_constraints`, `diversify_hash` | an accepted transfer makes no value; the in-circuit search finds the native base point and accepts every wallet's own |
| notes, Poseidon, prover | parameters files | hashing, encryption, proving, verification | cryptographic; taken as ideal |
| browser verifier (`js/`) | none | parse and verify for display | stateless second implementation |

How they interact. `synced_state` (`bin/sbp.rs:211`) loads the state file, asks
the server for hashes, heights and transactions, replays, saves. `scan`, `send`,
`redeem` and `payouts` call it first and open the wallet afterwards, so the wallet
lock is not held while the state is synced. `process_payouts` reads requests out of
the replayed events and what was paid out of the vault's history on the
server.

What is hard here: reorganisations between any two requests of one command; two
commands on one state file; crashes between saving an intent and broadcasting it;
broadcasts whose reply is an error or never comes; wallet files restored from a
copy; histories that are trimmed at a window's edge; two saves of one file and a
power loss between two system calls; a socket on which late answers, notifications
and the rest of a line that timed out arrive; a fee that depends on a size that depends
on the fee; a search repeated inside a circuit with witnesses the prover chooses. `PROJECT.json` lists each of
these hazards with its line and the properties that guard it.

## 2. Modules

| Module | Models | Kind |
|---|---|---|
| `Carriers` | envelopes, leaves, nullifiers, what a proof attests | pure |
| `Replay` | `State` and the replay of one block, as operators on records | pure |
| `Indexer` | commands, the server's chain, `state.json` | state machine |
| `ShieldedPool` | the abstract pool of notes that `Indexer` implements | abstract specification |
| `MCIndexer` | carriers for TLC, a reference replay, properties that use it | checking |
| `ReplayProofs`, `IndexerProofs` | lemmas on `Replay`; theorems on `Indexer`, the refinement among them | proofs |
| `Wallet` | scan, send, unlock on one wallet file, the network; replays with `Replay` | state machine |
| `MCWallet` | mints, opening chains and the bounds of faults for TLC | checking |
| `WalletProofs`, `SendProofs` | theorems on `Wallet`: scans and the file; carriers and locks | proofs |
| `Payouts` | payout runs, the network, restored files | state machine |
| `MCPayouts`, `PayoutsProofs` | model values; theorems on `Payouts` | checking, proofs |
| `Files` | `save`, `create`, `open`, `load` as system calls; kills and power loss | state machine |
| `FilesProofs` | theorems on `Files` | proofs |
| `Electrum` | one session of the client with a server | state machine |
| `BuildCarrier` | `build_carrier` and `build_payout` | state machine |
| `ChainProofs` | theorems on these two, the parts of `chain.rs` | proofs |
| `MerkleTree` | the incremental note tree and its paths | state machine |
| `Circuit` | values and the DiversifyHash search, in the circuit and outside | state machine |
| `Envelopes` | `to_bytes` and `parse` | state machine |
| `PartsProofs` | theorems on these three, the parts that compute | proofs |
| `MCParts` | composes `Files` and the five above that share no state, for one run | checking |

### Carriers and Replay

A `State` is a record with the fields of the Rust struct. `Verdict` and
`TransferVerdict` are the checks in the order of the code, `AcceptMint`,
`AcceptTransfer`, `Reject` its effects, `ReplayTx` both, and `EndBlock` what
`replay_block` does after the last transaction: store root, leaf count and hash,
trim the three histories and the rejection log.

Data. Hashes are free constructors: a leaf is the record of what is hashed, a root
is the sequence of the leaves below it, a nullifier is the triple that determines
it. A carrier's bytes are a record of the constant `Carrier`; its `kind` is what
`op_return_payload` and `Envelope::parse` make of it. `Carriers` holds these
constructors and `Verify`, which `Wallet` uses to build transfers. `Verify` is the relation of
`TransferCircuit`: an enabled input is a leaf of the tree with the given root, a
dummy carries no value, the sums agree, and the proof is for one root. **It takes
the proof system as sound. That is an idealisation: the setup of this probe is
public (`PROFILE.md`, section 3), so nothing here speaks about forged proofs.**

### Indexer

A member of `Procs` is a command in `synced_state`. `Launch` loads the file,
`CheckActivation`/`WrongChain`, `ReadTip` and `CheckStored`/`StoredTipMissing` are the
requests of `sync`; `StartBlock`, `FetchTxid`, `BlockMissing`, `Recheck`,
`BlockChanged`, `ReplayNext` and `FinishBlock` are `replay_block`; `Save` writes the
file. `Fail` is any other error or a kill; it ends in
`"failed"` instead of `"idle"`, which the code treats alike, so that liveness can tell an
error nobody owes an explanation for from an end the code chose. Every request to the server is a step, and
`Mine` and `Disconnect` may happen between any two, so the transactions of a block are
read one by one from whatever chain is active at that moment. A block hash is the
sequence of blocks up to it, as a hash commits to its ancestors; `BlockId` tells
apart blocks with equal transactions.

`Fresh` stands for a missing `state.json`: `load_state` returns `State::fresh`.

### Wallet

A member of `Procs` is a command. `Sync` gives it the replay of the chain of that
moment (`Replayed`, an `INSTANCE` of `Replay` folded over the blocks: what `Indexer`
shows of a sync that no reorganisation falls into); it fails while the chain is
shorter than the stored state. `OpenAndScan` takes the wallet's lock and is the
whole of `scan`, in its order: `Restart` when the event at the cursor is another one,
`DropStale` for notes whose leaf changed, `ReadEvents` with `Record` and the sent
records, `UpdateNotes` for spent flags and lapsed locks; the file is saved once.
`BuildTransfer` takes the anchor `HAnchor`, one or two of the largest free notes below the
anchor's leaf count, and writes nothing. `Broadcast` and `LockInputs` are two steps, as
the reply of the server and the save are; `BroadcastLost` is an error reply to a
carrier that was relayed, `CrashUnsaved` a death between the two. `Quit` is every end
without effect: a scan that is done, a locked wallet, no inputs, chain trouble.
`AskCarrier` and `Unlock` are `sbp unlock`, the answer of the server and the save
being two steps; any error reply lets it go on, as in the code, be it that the server does not
know the carrier or (`"busy"` in `Faults`) that it fails otherwise. `sbp mint` writes no wallet state: its carriers are members of
`Foreign`. Notes are kept in order, as in the code. When `Operator` holds, the transfer is
the operator's `redeem` to itself, whose output 0 is a burned note. The file of a
wallet older than `lock_anchor` (a lock that never lapses) is not modelled.

### Payouts

One request is named by its first nullifier. `Begin` is the start of a run
(`RunAll`, or `RunOnly` with `--only`), `ReadHistory` the scan of the vault's history;
then one request after the other is skipped, found on chain, refused, deferred, or
paid by `Intend` (file saved) and `Broadcast`. `Broadcast` covers an error reply to a
transaction the server did relay; `BroadcastLost` is one it did not. `Confirm`,
`Evict`, `Return`, `Unconfirm` are the network's steps, `Backup` and `Restore` the
operator's. `Counts` is the rule of lines 867-876: a transaction of the history
counts when it spends the vault and is confirmed or is this wallet's own.
Requests come in classes: `Bad` ones fail `validate_payout`, `Marginal` ones cover the
fee or not as the vault's coins have it, `Strangers` are nullifiers a stranger has
tagged a payment to the vault with. The wallet lock (one run at a time) and
the atomic save are taken as given; `Files` shows them.

`Restores` says which older files may be put back: none, any, or those that lack only payouts
which are confirmed. In the last case such a payout is taken to be buried:
`Unconfirm` takes only those out of the chain that the present file has recorded. Two history
variables tell what a restore erases from the file: `refused`, the requests that any run has refused,
and `forgotten`, those of them whose refusal was in the replaced file and not in the one put back.

### ShieldedPool

What the whole replay promises: a pool of notes with a worth, to which a mint adds one,
of which a transfer spends up to two unspent ones and adds two worth as much. There are
no blocks, envelopes, proofs or nullifiers in it. `Indexer!PoolOf` maps a `State` to
a pool: the notes are the leaves, spent are those a real input of an accepted transfer
names. `ImplementsPool` says that every step of every command is a step of the pool
on its own copy, a load, a store, or no step.

### Files

A behaviour is about one of the two files. `wallet.json` is opened under an exclusive
flock on `wallet.json.lock` (`LockOpen`, `LockCreate`, `CreateLocked`), `state.json`
without one (`LoadState`). `OpenTmp`, `WritePart`, `WriteRest`, `SyncTmp`, `Rename` and
`SyncDir` are the system calls of `save`; `SaveFails` is the failure of any of those up to
the rename, with the removal of the tmp file that follows; `Kill` may come anywhere;
`PowerLoss` keeps the data of synced inodes, may tear any other, and brings back the
directory of its last sync or of any change after it. A content is the set of changes
made to it, so "has every acknowledged change" is set inclusion. Two commands that have one
tmp file open leave in it the content of either or a mixture of both (`mixed`).

### Electrum

The server answers requests in any order or never, pushes notifications, and may close the
connection. A line is longer than `MAX_REPLY_BYTES` or not. `TimeoutInLine` is a server
that stalls within a line: the client drops what it has, and the rest of the line is what
its next call finds (`Garbled`). A session is `connect_checked`, `block_txids` for one
block, then the calls of `process_payouts`, the only caller that goes on with the
same client after a call failed (`Fail`, `wallet.rs:912`). Results are decoded
elsewhere and are not modelled; `kind` says whether a reply is a result, an error or
"No transaction at position".

### BuildCarrier

`AddCoin` is one iteration of the selection, `Sign` a signed transaction, whose size is
linear in its coins and outputs and varies by `Longer`, up to `Slack` bytes per coin and four
bytes to a vB, as DER signatures do and every pass signs anew. `Retry` is the next of six passes. `build_payout` is two builds: the first
gives the fee, the second (`goal = "again"`) pays the rest. Values are unbounded
but for the overflow checks at `MaxSat`.

### MerkleTree

One step per level of `append`, `path` and `MerklePath::root`. A node that is not stored
(`<<>>`) is the root of an empty subtree. `Prefix` discards the nodes and appends the kept
leaves again, as `prefix` does to a new tree. A path is kept while the tree grows, and only
then hashed up, as a wallet's proof is.

### Circuit

The prover picks any witness that satisfies the constraints, or, when `honest`, the one that
`diversify_hash` gives; then whether the constraints hold is recorded in `satisfied`.
`Candidate` is one iteration of `diversify_hash_var` with its two constraints,
`Base8` what follows the loop, `Input` and `Output` the value constraints. The field
is that of 13 elements with `EdwardsD` 2 and `NonResidue` 7, in which, as in the real
one, both are non-residues and -1 is a square, so the curve is complete; every
hash is a field element and every element is tried. Hashes, point multiplication and the
digest are left out: `member` says whether the reconstructed leaf is in the tree.

### Envelopes

The highest three of the values of a byte are the CompactSize markers (`ByteValues` is 6 in the
run); each field of fixed length is one byte, of which some do not decode and one has a second
encoding of a point. `Values` bounds what the bytes of an envelope may be. A size is written in at most
four bytes (`n as u32`), hence the bound `MaxSize` on `ScriptLens`.
`parse` reads one field per step and ends with an error or `Verdict`. Inputs are the bytes of
every envelope, the same with sizes written too wide, and every one with one byte
changed, lost or added.

## 3. Runs

| Run | Question | Result |
|---|---|---|
| `rules` | every acceptance and rejection rule on a growing chain: does the stored state equal a reference replay without retained histories; are notes spent once, backed, value conserved, anchors retained | holds |
| `race` | two reorganisations at any moment of a sync, also below activation | even mixed states spend no note twice, keep their roots consistent and implement the abstract pool; the tip is reached once failures stop |
| `race_faithful` | the same, asking for a faithful replay | **violated**, see findings |
| `two` | two commands and one file, reorganisations between commands, failures at every step | the file is always the replay of the chain its tip names, a stale save included, and the tip is reached again |
| `pay` | lost broadcasts, crashes, evictions, reorganisations, a stranger's tags, older files put back once the payouts they lack are buried | nothing is paid twice; what was refused is not paid, unless a restore forgot the refusal; once trouble ends every request is paid or refused, if no recorded payout was lost on its way |
| `pay_restored_any` | a file restored while a payout is unconfirmed | **violated**, see findings |
| `pay_lost` | a failed broadcast, then runs without trouble | **violated**, see findings |
| `send` | one command after the other; carriers mined late, never, evicted, unlocked by a server that answers truthfully | no two carriers that may both be replayed share a note; published inputs are locked; every lock ends |
| `send_faults` | two commands with states of different age, the operator redeeming, lost replies, crashes, evictions, `--force`, a reorganisation; and, while one command is idle, mints that come back in another order, two blocks deep | the lock keeps commands apart; each scan is exact for its state and leaves no phantom and no double note; a carrier survives the loss of the last block |
| `send_two` | two commands, no fault, no reorganisation | **violated**, see findings |
| `unlock_busy` | one command, a server that may fail when asked about a carrier | **violated**, see findings |
| `parts`, Electrum | late, reordered, missing, overlong and cut lines | answers are a call's own, a block's list is whole, a cut line spoils one call, calls return |
| `parts`, BuildCarrier | up to four coins of six values or five to eight equal ones, two rates, both signatures | a carrier pays its size and little more; a payout costs the vault a bounded excess; four coins worth twice their input converge |
| `parts`, MerkleTree | depth 3, five leaves | the tree is that of its leaves, paths prove, prefixes have the old roots |
| `parts`, Circuit | all witnesses in a field of 13 | value is conserved, the base point is the native one, the wallet's own witness is accepted |
| `parts`, Envelopes | all envelopes and their neighbours | one encoding each, and what is written is read |
| `parts`, Files | two commands, one file, kills, failures, a power loss | a returned save of the wallet survives; no reader finds a torn file unless two saves of `state.json` overlapped; no tmp file outlives a failed save |

`parts` is one run of six machines that share no state: the first state chooses which
one runs. `send_faults` bounds its states by `FaultBound`: either at most one disconnected block,
whose mints stay away (`OneBack`), with both commands and every fault; or up to two, whose mints come
back in any order (`TwoBack`), while the second command is idle, at most one carrier was built and
none is evicted. A run passes from one to the other where both hold. TLC checks the invariants in the
first state beyond the bound too, and goes no further from there.

`Faithful` compares the stored state with `IsReplayOf` in `MCIndexer`, which is
written from what the rules mean: it takes the list of all transactions of the chain,
decides acceptance by recursion over that list, and computes every tree and the
nullifier set afresh from the accepted transactions. It shares only the data
constructors and `Verify` with `Replay`.

**Bounds.** `WindowW` is 2 and `RetainExtra` 0 in the runs (100 and 10 in the code):
a chain of five blocks then leaves the window, and a root trimmed one block before the window
ends is missed; with a larger retention the histories would never be trimmed in so
short a chain, and trimming within the extra ten blocks takes nothing that a rule asks for. `KMin` is the code's 1. `MaxRejections` is 1 or 2, so the log
overflows. `Activation` is 2 where anchors and reorganisations below activation
matter. In `Wallet` a window of 2 lets locks lapse within five or six blocks, so that
a lapse, a second send and the first carrier's end all happen; two notes allow sends
with one and with two inputs; one block lost is the depth `K_WALLET` 2 is made
for, two or three are needed to put a replaced block below a returning event.
`TxLists` names what a block may hold: a double spend in one block, a spend of
a note of the same window, an envelope and a mint published twice, each
rejection reason once. One or two reorganisations suffice for the interesting
orders (away, and back to the first branch); two commands suffice to overwrite each
other's save. In `Payouts`, two transactions and three requests (one sound, one bad, one marginal) allow a
second payment of one request or the payment of one beside another. The theorems of
section 4 are free of all these bounds.

In `Files` three changes let two saves overlap and a third follow; one power loss
suffices, as the directory then is as after a sync. `Electrum` allows six calls, one
notification, blocks of two transactions (the limit `MaxBlockTxs`) and lines of twice
the limit. In `BuildCarrier` sizes are small numbers (`Base` 3, `In` 4, `Change` 2, `Slack` 1,
`Dust` 8) and `MaxSat` is 128, so that a build returns in every pass from the fourth to the
last, gives up, and meets each of its errors, the three overflows among them. In `Circuit`,
`ValueBound` 2 leaves room for sums (`(NIn + NOut) * (ValueBound - 1) < P`, an assumption
that 64-bit values in the real field meet by far). In `Envelopes`, script lengths lie on both
sides of the two width boundaries of a six-valued byte.

**Deadlock** is checked in every run but `parts`: a command can always be started again, and no
bound stops the system. In `parts` the number of changes bounds the saves of a file, and
a build, a parse, a session and a proof end.

**Fairness.** A running command takes its next step and commands keep being run
(`WF_vars(Step(p))`): a command is a sequential program without waiting except for the
server, and the claim is about users who keep using the program. Blocks keep
coming (`WF_vars(Mine)`). Nothing is assumed about reorganisations, failures,
crashes or evictions; `CatchesUp` and `AllSettled` are about behaviours in which
these end, `AllSettled` also about those only in which every payout that the file records, but for one
about to be sent, is known to the network from some moment on (`NothingLost`). For payouts, a run goes on, and the operator repeats it: strong fairness
of `RunAll`, or of `RunOnly` per request on mainnet where a run must name its
request, because another run may be in progress at any given moment. For wallets, commands
end (`WF` of `Quit` and `LockInputs`) and a user who scans again and again gets to scan
(`SF` of `OpenAndScan` and of `Sync`, which fails while the server is behind). For
`CallEnds` a waiting call reads a line or times out (`WF` of `Return`); nothing is
assumed of the server but the bound on notifications, without which a call need not end,
as the 30 seconds are per read.

### Findings

1. `race_faithful`. `sync` compares the stored tip with the chain once, before its
   loop, and `replay_block` does not check that block h builds on the block replayed at
   h - 1. A reorganisation between two blocks of one sync leaves a state made of two
   histories whose tip hash is on the active chain, so no later sync rebuilds it.
   `PROFILE.md:76` says replay is over the active chain.
2. `pay_restored_any`. A payout counts as made when it is confirmed or in this file's
   `payout_txids`. A wallet restored from an older file does not have the txid, so
   while the first payout is unconfirmed the request is paid again. `RUNS.md:26` says
   a restored operator wallet does not pay twice.
3. `send_two`. A command syncs before it opens the wallet. If another one scanned a
   newer state and sent in between, the older history is shorter than the cursor,
   `scan` takes it for a changed one and wipes the other command's locks. No
   reorganisation is needed. `wallet.rs:137` says a lock is set while a spend is
   published but not yet replayed.
4. `pay_lost`. A payout is recorded as paid before its broadcast. If the broadcast fails and the
   network never gets it, every later run skips the request, as it is in `paid_payouts`
   (`wallet.rs:890`), before it asks the history it has just read (`wallet.rs:901`). The comment at
   `wallet.rs:922` says that the next run's history check tells, and by `RUNS.md:30` only a
   request itself is refused for good.
5. `unlock_busy`. `unlock` without force goes on after any error reply (`wallet.rs:600`), also that of
   a server which has the carrier and is warming up or failing. `wallet.rs:589` says it refuses while the
   carrier is still known to the chain. The next send may then spend the released notes a second time.

### What the passing runs leave out, and why

These behaviours of the code lie just outside the passing runs. Each is reached by
changing the named constants or property of a configuration.

- `NoRivals` with `Faults = {"lost"}`: `send` locks its inputs after `broadcast` returned the
  txid. If the server relays the carrier and answers with an error, nothing is
  locked and the next send spends the same note again; replay refuses one of the two.
- `NoRivals` with `"return"` beside `"evict"`: an evicted carrier whose inputs were unlocked and
  spent again may be relayed by a peer that kept it.
- `NoRivals` and `LockedWhilePublished` with `"busy"`: see finding 5.
- `PaidOnce` with `Unconfirm` of a payout that a restored file lacks: the payout is unconfirmed, and this
  is finding 2 again.
- `RefusalIsFinal` without `forgotten`: an older file that is put back has not got the refusal, and a
  request whose fee now fits is paid (`wallet.rs:964`).
- `LockedWhilePublished` with `MaxDropped = 1`: a carrier that was replayed and then
  reorganised into the mempool leaves no trace after the rescan, which clears notes,
  spent flags and locks (`wallet.rs:418`).
- `ScanExact` without `dropped <= 1`: the cursor is compared by the
  last event's txid alone (`wallet.rs:410`). If that transaction comes back at
  its index and a mint below it was replaced by one to this wallet, the new note is
  not found; a note whose spend was reorganised out stays `spent`, as nothing resets
  the flag (`wallet.rs:556`). `NoPhantomNotes` is what holds there: what the
  wallet lists is there, but it may miss notes until a full rescan. The model's
  remined block holds one carrier, so this takes two blocks; in the code, one block with
  two carriers is enough.
- `WholeFile` without `~overlap`: two commands that save `state.json` at once share one tmp
  file, and what is renamed may be a mixture (`indexer.rs:237`). Then every command
  fails in `State::load` until the file is removed, which costs a replay and nothing else.
- Two members in `Creators`: `create` asks for the file before it has the lock
  (`wallet.rs:282`), so of two `init` at once the second replaces the first's seed.
- `VaultPays` without its excess: a request for 15 paid from one coin of 25 costs the vault
  17 in the units of the run. The first carrier has no change output, its fee is 7;
  the second has one, and pays 8 to the request and 9 in fees. In sat this is the fee of an output,
  or change below 546, although `wallet.rs:840` says the fee comes out of the request.
- `Converges` with `Slack = 2`: four coins of about twice their cost need up to eight passes, the number
  of `FourCoinsConverge`; TLC finds builds that six and seven passes end in `FeeDidNotConverge`. It takes
  signatures two bytes shorter than the longest and passes in which they get longer each time: a signature is
  71 or 72 bytes long, and one in about 256 is shorter.
- `Converges` without its conditions on the coins: with many coins that are worth little more than
  their input, `build_carrier` ends in `FeeDidNotConverge` though the coins suffice, as each
  pass adds coins that raise the fee again. Five coins of 16 fail already, if every pass
  happens to sign longer than the one before; with signatures of one length and the sizes
  of the code, that takes about 28 coins.

## 4. Proofs

**Assumptions** are those named in the modules, and TLC evaluates each of them.

- `ReplayConstants`, `IndexerConstants`, `PayoutConstants`, `FilesConstants`,
  `ElectrumConstants`, `TreeConstants`: the types of the constants, a positive activation
  height, `KMin > 0`, at most one command that creates a wallet, levels of a tree that
  halve.
- `CarrierConstants`: an empty carrier is longer than a change output, a coin costs no
  less than the slack of its signature, dust is positive, a fee rate at least 1.
- `CircuitConstants`: what makes `P` the order of a field in which the curve is complete:
  inverses exist, -1 is a square, `EdwardsD` and `NonResidue` are not; and the sums of the
  value constraints stay below `P`.
- `WalletConstants`: the notes a command of this wallet can make are its notes; `Foreign`
  and the blocks of `Opening` are mints that pay no dummy note (`PlainMints`). A dummy's
  keys are drawn at random within `build_transfer` and not published before the carrier is,
  and the model is of one wallet whose file is empty at the start, so its transfers all come from it.

No finiteness is assumed of commands, carriers, requests, coins or the field.

**Induction.** The library's induction theorems cannot be instantiated by the installed
provers. Where a proof needs one, the set of counterexamples is written down and its least
number or smallest member shown not to exist (`LeastNumber`, `SmallestSet`, from the
well-foundedness of numbers, which does have a theorem without operators). The folds of the
libraries are `CHOOSE`s of a recursive function; a proof about one shows first that such a
function (a *table* over finite subsets of its domain) exists, then reads the fold off it
(`TableExists`, `FoldTable`), and climbs (`Climb`).

**`ReplayProofs`** proves that the replay of a transaction and the end of a block keep
`StateInv`: types, heights within bounds (`WithinBounds`), which heights are
retained (`KeepsRecent`), the nullifier set equals what accepted transfers
published, without repetition (`NullifiersOnce`), accepted inputs are earlier leaves
(`SpendsExist`), roots are prefixes (`RootHistory`), and leaf counts separate events by
height (`CountsMatchHeights`). Steps are proved through three relations: `Extended` (leaves,
events and nullifiers only grow), `Logged` (only the rejection log changes) and
`BlockEnded`. The strengthening is needed: that an input is backed follows from its
root being a prefix of the leaves, which holds only with the leaf counts.
`SpentOnce` then derives that no position is spent twice: two inputs at one
position spend the same leaf, hence publish the same nullifier. `WindowKept` derives
that the window's roots are retained.

**`IndexerProofs`** proves `IInv`: every command's control state is sound
(`ControlOK`), a command past loading holds a state with `StateInv` whose next block
is the one it fetches (`MemOK`), and `StateInv(disk)`. Since blocks enter only
through `ReplayTx` and `EndBlock`, nothing about the chain is needed: the results hold
for any server and any reorganisation at any moment, mixed histories included. From it
follow `TypeCorrect`, `NoNoteSpentTwice`, `SpendsBacked`, `RootsAreRebuildable`,
`RootsMatchHeights` and `WindowRootsRetained`, the properties of the runs.
`Refinement` shows that `ImplementsPool` holds: the initial state is the empty pool, `ReplayTx`
of a carrier is a `Mint`, a `Transfer` or a stutter of the pool (`InputOf` picks the leaf a
real input spends; that the two of one transfer and those of earlier ones differ comes
from `SpentOnce`), `EndBlock` does not change it, and the steps of a command are those of
`ShieldedPool`. `NoStateInflates` is proved along the same steps: an accepted transfer takes
its inputs out of the unspent leaves and adds two worth as much, a mint adds what it
pays into the vault, so that the sum over the unspent leaves stays what the mints paid in.

**`PayoutsProofs`** proves, for `Restores # "any"`, that no two payouts of one request
are ever sent, and that a request which any run has refused is not paid, unless an older file
without the refusal was put back (`RefusedStayRefused`). For `Restores = "never"` nothing is forgotten, and
no transaction ever pays a refused request (`RefusedForGood`). `PaidOnce` alone is not inductive.
`PInv` adds that the file records every payout the chain does not show yet
(`NetworkRecorded`), that a run past `ReadHistory` knows of every payout sent
(`RunKnows`), that the transaction in hand is recorded and the first of its
request (`InHand`), that the copy that may be put back has refused nothing the file has not, and that both
record no request as paid and as refused (`BackupOlder`, `Consistent`), and that every refusal is in
the file or forgotten (`RefusalsKept`).

**`WalletProofs`** proves, for any number of commands, any chain and all faults, the type
invariant with the exclusive lock (`TypesAndLock`) and `NoPhantomNotes`
(`ScansAreSpendable`). It rests on `ReplayProofs`, instantiated as `Wallet` instantiates
`Replay`. A replayed state is in `Good`: it has `StateInv`, and the leaf an event names is at
the index it names (`EventLeaves`); `ReplayedGood` shows it of the whole fold over a chain.
`ScanOK` follows the order of `scan`: after `Restart` and `DropStale` every listed note is
a leaf of the tree just read, once (`DropStaleOK`, through `KeepFold`); `Record` adds a note
only if it is new and the event's leaf is its own (`ReadEventsOK`); `UpdateNotes` marks those
whose nullifier is published (`UpdateNotesOK`). The invariant `WalletInv` adds to the types what a
command holds at each step (`Carrying`), that a command which has the file open is
alone (`Alone`), and that from the scan until the file is saved nobody else has
touched it (`JustScanned`): without the lock, the notes a command has just scanned need
not be those in the file.

**`SendProofs`** proves the three properties of what a wallet publishes, and
that scans are exact.

- `PublishedLands` (`Lands`) needs `Deep`: reorganisations disconnect in all no more than
  `KWallet - KMin` blocks, one with the constants of the code; with two, a carrier's anchor
  or a note under it can be gone. Any number of commands and all faults are allowed. The
  inductive invariant `Rooted` says of each transfer that is in a command's hand, in the mempool,
  evicted or mined that its root is the list of leaves of the chain up to its anchor, and that the anchor is deep
  enough below the tip for all blocks still to be disconnected; and of each state a command has read, which
  may be of replaced blocks, that its roots below that depth are the chain's. It is kept because a replay only grows (`Grows`: leaves, events and nullifiers of the longer chain
  extend those of the shorter, and each new event is of a transaction of a new block, within its
  anchor's window) and because the roots of a window are retained (`WindowKept`).
- `LocksHold` and `NoRivalCarriers` (`LockedWhilePublished`, `NoRivals`) need `Quiet`: one command
  at a time, no forced unlock, no block disconnected, no lost reply, no crash between broadcast
  and save, no carrier that comes back after it was dropped, and a server that answers `unlock`'s question
  with an error only if it does not know the carrier. Each part is needed: two commands break it in
  `send_two`, another error reply in `unlock_busy`; what a lost reply and a reorganisation do is in "What the passing runs leave
  out", and a crash does what a lost reply does; a carrier that was evicted and unlocked may be relayed
  again by others when its notes are spent anew; a forced unlock releases a carrier that is still there. Sends, scans, unlocks, evictions, mints and blocks are unlimited, and
  windows, amounts and notes are any. `NoRivals` is not inductive. `Locking` says what makes it so:
  an *alive* carrier (accepted, or in the mempool and within its window) has each of its notes in the
  file spent or locked by it under its anchor (`Holding`),
  but for the one just published; these notes stay in the file (`Listed`); no two alive carriers share a
  note (`Apart`); what is built but not yet published spends notes that are unspent and unlocked
  (`Spare`); the answer that lets `unlock` release a carrier is still true when it does
  (`Releasing`); what a command and the file have read is an earlier state of the chain's history
  (`Following`), so that no scan takes it for a changed one and wipes the locks. A lock lapses only when its
  anchor's window is over, and then its carrier is either accepted, and the note is marked spent by
  the same scan, or refused for good.

- `ScansAreExact` (`ScanExact`) needs that at most one block was disconnected (`dropped <= 1`, a condition of the property itself), which is
  as far as it holds: see "What the passing runs leave out" for two. Commands, commands' interleavings and
  all faults are any. It assumes of the constants that no seed of the wallet is a transfer's body
  (`Unmixed`: both are hashes) and that the opening chain holds no mint twice (`NoTwice`: a txid
  is mined once). Every replayed history has its events one after the other over the leaves (`Laid`), each
  carrier once (`Once`), and each transfer in it spends notes received before it (`Known`), so that `scan`,
  which recognises its own transfers by notes it already holds, finds every sender. The invariant `Telling`
  says that the file tells some history exactly (`Exact`: notes, spent flags, senders, cursor), and that
  this history, as each one a command has read, differs from the chain's in its last event at most
  (`Near`). Two such histories which have the same txid at the cursor therefore agree up to it
  (`NearAgree`), and a scan that goes on from the file's history ends where a scan
  from nothing would (`ScanExacts`).

`ShapeInv`, which all of these rest on, says that a transfer that is anywhere is this wallet's, that its proof
verifies and that each real input is a note of the wallet with its nullifier.

**`FilesProofs`** proves the three properties for any number of commands, changes and power
losses. `Whole` says what the directory may name after a power loss, which inodes are synced, that
without an overlap an inode open for writing has one writer and is named by nobody's file, and that a tmp
file has a writer or a cause. For `AckedDurable` it is strengthened by the flock: who
is past `LockOpen` holds it, is the only one, and has in memory at least what the file has.

**`ChainProofs`** is about the two parts of `chain.rs`. For `Electrum` it proves `Session`: a line
on the wire, but the rest of a cut one, answers a
request that was sent; ids are given once; `out` is the positions asked so far;
`spoiled` and the tails on the wire are at most `torn`. For `BuildCarrier` it proves that a
carrier that is returned pays its size times the
rate and accounts for every sat (`ReturnedCarriersPay`), that it pays little more
(`CarriersAreNotOverpaid`) and what a payout costs the vault (`VaultPaysTheRequest`), for every
coin list, fee rate and dust limit. The last two rest on `Selecting`: each pass selects at
least the coins of the pass before, and the fee it tries is that of a carrier signed with
no more coins than it now has, so what is paid beyond the size is at most what longer
signatures, one change output and dust account for (`SignedCosts`, `ReturnBounded`).
`FourCoinsConverge` shows that the fee of up to four coins, each worth twice what it costs to
spend, is found whatever lengths the signatures draw. It assumes `Modest`: twice as many passes as
the bytes a signature's length varies by, and four, which the code's six are for one
byte; and a rate at which these bytes cost no more than the dust limit. A pass that does not converge has
longer signatures than the last, or more coins. A coin leaves room for the pass that adds it and for longer
signatures, so coins are added after the first pass, which tried no fee, and once more at most; `Level`
says what is known at each pass.

**`PartsProofs`**, on the tree, proves for every depth that, while `append` climbs, all nodes but those above
its leaf are the hash of their children (`TreeInv`), and that a path with its leaf's
ancestors (`spine`) stays a chain of hashes to the root it was taken under (`PathInv`).
`PrefixesRebuildRoots` compares a prefix with a tree built earlier: two trees over the same
leaves of which every node is the hash of its children agree, as there is no lowest level on
which they differ.

On the circuit it starts with arithmetic modulo `P` (residues, no zero divisors, two
opposite roots per square, one of them even). `TransfersConserve` adds the values slot by slot;
as the sums do not wrap, equality in the field is equality. `CircuitMirrorsNative` follows
the search: at a candidate that misses the witnesses prove that no point exists, at the
first that hits the coordinate is a root of the same square and even, hence the native one
(`CandidateOutcome`, `OneBasePoint`). `HonestProverSatisfies` is the converse: at every
candidate the native witness satisfies its constraints (`NativeHolds`).

On envelopes it starts with numbers: base-`ByteValues` digits are unique (`Shifted`, `LeOf`), so a
size that `compact_size` lets through is written by `push_compact_size` in the bytes that were read
(`SizeReads`), and conversely (`SizeIsRead`). `TransferBytes`, `MintBytes` and `At` say where each field
is. `BytesHaveOneEncoding` (any bytes; `EnvelopesHaveOneEncoding` is its case for the inputs of the run) rests
on `ParseOK`: up to the next field, the input is the bytes
of the envelope so far, a point's other encoding aside (`Progress`), which needs that setting a field
changes no byte before it (`SameBefore`) and that the length of a script, kept as that of a script still
to be read, has the bytes that were read for it. `WrittenIsReadBack` adds that the envelope so far is the
one written, up to the next field (`Mirrors`); then both have that field at one place
(`SameOffsets`), and no reading fails. Both hold for every `ByteValues` from 6 on, every set of scripts below
`MaxSize` and every value of the other fields.

`Wallet`'s type invariant is proved and run; the others are proved and not run: they are
conjuncts of the invariants above.

**Only model-checked.**

- `Faithful` compares the state with a reference that recurs over the whole
  chain; `MCIndexer` declares it `RECURSIVE`, so no theorem can name it.
- Liveness (`CatchesUp`, `AllSettled`, `LocksEnd`, `CallEnds`) and `ENABLED` are out of the
  provers' reach.

## 5. Not modelled

Poseidon, point multiplication, encryption and key derivation (field and curve arithmetic), Groth16
and its parameters' files, the decoding of Electrum results, argument parsing, printing,
`export_viewing` (a read of the wallet file), and the browser verifier, a
second parser for display. `PROJECT.json` gives the reason for each. A payout has no confirmation
depth, so a request that is reorganised out after it was paid is not judged: there
is no rule in the code to check.

## 6. Plan

The composition of `Indexer` with `Payouts`: what a request that is reorganised
out costs the vault.
