# Verification of seadog

TLA+ modules, TLC runs and TLAPS proofs about seadog, a service that leases
short-lived test environments (LXC containers and VMs) over SSH and tears them
down when their time is up. The modules are translated from `src/crates`; what
they leave out is named at the end.

## The system

seadog is two binaries over one library and one SQLite file.

- `seadog` (`crates/seadog`) is the unprivileged front end: one process per SSH
  command (*verb*).
- `seadog-priv` (`crates/seadog-priv`) is the root helper: `provision` and
  `teardown` for a verb that waits for it, `watch` (the reaper loop), `sweep` (one
  reaper pass, started by a systemd timer), `add-owner`, `remove-owner`.
- `crates/core` holds what both share: store, allocator, identity, reaper, notify.

No server and no lock stands between these processes. They meet in the database
(WAL, one statement or short transaction at a time), in what `kento` (the
external tool that runs the guests) lists, in one `flock` and in the
`authorized_keys` file. Each may die between any two steps.

| Component | State | Operations | Interacts with |
|---|---|---|---|
| lifecycle (`reap.rs`, `identity.rs`, verbs `create`, `destroy`, `extend`, helper `provision`, `teardown`) | table `envs`, kento's guests | create: check cap, allocate, provision, record or roll back; destroy: check, tear down, mark; extend; sweep: list, join, classify, re-adopt, reap, retire | all of the others |
| store (`store.rs`) | schema, `user_version`, three tables | open and migrate, the statements on rows | every process |
| allocator (`alloc.rs`) | the addresses of Active rows | lowest free address, in the transaction that inserts | create |
| notify (`notify.rs`, verb `ack`) | table `notify_state` | route (get, decide, emit, put), ack, prune | sweeps, owners |
| watcher and one-shot sweep (`watch.rs`, `sweep.rs`, `elevate.rs`) | flock, table `heartbeat` | spawn, tick, self-extinguish, skip or override | lifecycle sweeps |
| owner management (`owners.rs`, `authkeys.rs`) | `authorized_keys` | add-owner, remove-owner | administrator |
| kento bridge (`kento.rs`) | one child process and its pipe per call | list, create and inspect, destroy, each with a deadline | lifecycle |
| configuration and validation (`config.rs`, `validate.rs`) | the config file, loaded by each process for itself | validate, look up an image by its name or its ref, clamp sizes | create, helper |
| privilege boundary (`elevate.rs`, helper `main.rs`, `provision.rs`) | the helper's copy of config and request, the file of owner keys | start the helper and wait, check all again, run kento | create, configuration, bridge |
| command line and owner resolution (`seadog/src/main.rs`, `owner.rs`) | the command line and environment of one connection | find owner and verb, fall back to the key's fingerprint | owner management, verbs |
| read-only verbs, deployment | none that changes | queries; a timer | - |

What is hard, and what makes each component correct:

- *Lifecycle.* A create and a destroy are several steps of two processes, a sweep
  many; rows are read, acted upon and written later. Right is: two guests under
  leases never share an address; nothing is reaped that is young, not due, or of
  doubtful identity; nothing is retired that is up; history is not rewritten; the
  herd cap holds; and all the same everything overdue is reaped and every
  address comes back.
- *Store.* Any number of processes open, create and migrate the file at once.
  Right is: the version never promises what is not there, and who has opened the
  file has the whole schema.
- *Allocator.* Right is: the lowest free address, at the ends of the pool too.
- *Notify.* The reaper's read and write are apart, and the ack's are too. Right
  is: emissions keep their distance and climb, an ack silences, a problem that
  stays is heard.
- *Watcher.* A lock, and a heartbeat by which to overrule it. Right is: sweeps do
  not overlap but for an overruled watcher, and sweeps never cease.
- *Owner management.* Read, change and rename without a lock. Right is: no key
  has two owners, and hand-written lines stay.
- *kento bridge.* A child that hangs, fails half-way, leaves processes behind and
  shares a bounded pipe with a caller that reads late. Right is: an answer `ok` is
  true, an error is followed by at most one late effect, every call that can return does.
- *Privilege boundary.* Two processes resolve one create from a file that may be
  edited in between, one of them by an image's name and the other by its ref. Right is:
  the helper asks kento only for what its own config allows, does not refuse what
  it should not, and the reply tells what was done.
- *Command line and owner resolution.* Two login shells, forced commands and none,
  and a client's text that may look like seadog's own flags. Right is: behind a
  forced command, a verb runs for the owner that the command names.

`PROJECT.json` lists every hazard with its line and the properties that cover it.

## The modules

| Module | Models | Its state in the code |
|---|---|---|
| `Lease` | abstract: the ledger of leases that the table `envs` is to its readers | status, ip, created_at, ttl_deadline of a row |
| `Lifecycle` | create, destroy, extend, sweep, prune as concurrent processes | `env`: the rows; `live`: kento's guests by guid; `create`, `destroy`, `extend`, `sweep`: program counter and locals of each process; `clock` |
| `MCLifecycle` | `Lifecycle` with the symmetry of guids, and of extends and sweeps | |
| `LifecycleProofs` | theorems about `Lifecycle` | |
| `Notify`, `NotifyProofs` | the notification rows of one env and the sweeper's | `store`: notify_state; `problem`: the events there is reason for; `said`: history, with whether what was said last is backed by a push of its own; `sweep`: what a reaper holds, and whether it has pushed it |
| `Watcher`, `WatcherProofs` | watchers, one-shot sweeps, flock, heartbeat | `lock`, `heartbeat` (its age), `watch`, `timer`; `create`: whether an env is Active |
| `Migration`, `MigrationProofs` | opening and migrating the database | `version`: user_version; `schema`; `row`; `opener`: `current_version` of each process; `erased`, `disturbed`: history |
| `OwnerKeys` | add-owner and remove-owner | `file`; `process`: what each is going to write |
| `CommandLine` | `resolve_argv`, `owner_from_args` and the order of `run`'s checks, as operators over tokens | none |
| `Access`, `MCAccess`, `AccessProofs` (theorems about `OwnerKeys` too) | a connection over `OwnerKeys`: sshd, the forced command, `CommandLine`, the fingerprint | `session`: key, line at login, owner and verb it came to |
| `Config` | `Config::validate`, look-ups by name and by ref, clamping, as operators | none |
| `Provision`, `MCProvision`, `ProvisionProofs` | a create across the privilege boundary, over `Config` | `disk`: the config file; `front`, `helper`: what each process holds; `keyFiles` |
| `Bridge` | abstract: what the trait `Kento` promises to its callers | the guests, one open call per caller, effects that come late |
| `Kento`, `MCKento`, `KentoProofs` | `RealKento::run` and the calls made of it | `live`: guests; `call`: wait, collect and answer of each caller; `kid`: the child, alive, killed or gone, its pipe, its heir; `late`: work that nobody waits for |
| `Alloc`, `AllocProofs` | `lowest_free_ip`, loop by loop | its local variables |

An action is one SQLite statement or transaction, one kento call, one rename or
one flock, with the computation up to the next; the name says whose (`Create...`,
`Helper...`, `Sweep...`, `Timer...`). A function of two statements is two actions:
`set_ttl_deadline` is `ExtendSelect` and `ExtendWrite`. `map` in `PROJECT.json` gives the lines.
A definition marked *Mutant* is a plausible bug of the definition that follows
it; no specification uses it, and `mutants` names the property that detects it.

How the modules meet: `Lifecycle` takes the outcome of `Alloc` as one
transaction; it starts sweeps whenever their process is idle, so it allows all
that `Watcher` allows, overlaps included; `Watcher` reduces a sweep to rows
leaving Active; `Notify` takes the events that a sweep finds as given. `Access`
extends `OwnerKeys`, so that lines change under a connection; `Provision` is the
step between allocation and provision of a create in `Lifecycle`, and what kento
then does is in `Kento`. `Lifecycle` implements `Lease` (`ImplementsLease`), and `Kento` implements
`Bridge` (`ImplementsBridge`): its effects, once at most, without, within or after the
call, are the outcomes that `Lifecycle` gives to a call. For a create these are four: a guest
or none, reported well or as failed (`Provision`), and a guest that comes up later or never
after a call that was given up (`killed`, or `late` once the front end has rolled back or
died; `LateEnd`).

### Modelling decisions

- *Time.* `Lifecycle` has a clock bounded by `MaxTime`. `Notify` and `Watcher` keep
  ages, capped where the code no longer tells them apart, so that behaviours last
  for ever and liveness is not an artefact of a bound.
- *kento.* A call may fail without effect, or with it: `kento create` followed by a
  failing `kento inspect`, a destroy killed after its effect. Guests may go away
  or be renamed or re-addressed (MAC) by hand (`GuestLost`, `Tamper`).
- *Create window.* `Tick` waits for a guest, a late one included, until `ProvisionTime` after
  the clock reading of its create, and for a sweep's list until `ListTime` after that of the
  sweep. `VanishOnlyGone` states as its condition that both are shorter than the age floor.
  In `lifecycle_reap` each takes up to a tick and the age floor is two; in the other runs
  of `Lifecycle`, which do not ask about the vanished pass, guests and lists take no time.
- *Errors of SQLite* that abort a process are its crash action; errors that are
  swallowed have an action of their own (`SweepVanishFail`, `RoutePutFail`,
  `RouteBlind`, ...). A status update that hits no row changes nothing.
- *A guest's name* is one of: as minted, renamed, not a seadog label. Names are unique
  per guid; the chance that two random names coincide is left out.
- *kento itself* is external. `Kento` lets it do what it is asked at any pace or never,
  print, fork a process that holds the pipe or not, and exit 0 only when its work and its
  output are complete; killed, it dies at any time or never. What it prints may not
  parse, which is an error of list and provision; elements of a list that are not objects,
  which the code skips, are left out. One unit of output is one instance; `OP_TIMEOUT` may
  pass during any call, since its length is not measured.
- *The config* is a record of the fields that decide about a create; `Provision` takes
  the files it may hold as a constant. Memory and cores, which are clamped alike, are one number. Whether an
  owner's name passes `validate_owner_name` is a constant.
- *A command line* is a sequence of tokens: `--owner`, `--owner=`, `-c`, a word, or the
  text behind `-c`. *A line of `authorized_keys`* has a key, an owner or none (hand-written), and
  what its comment mentions: nothing, or a word that `key_body_of` takes for a
  key type, followed by something or last.
- `reaper_enabled` is read by no code but tests, hence by no module. `Flagged` is
  written by no code, hence not a status here.

## The runs

| Run | Shows | Bounds |
|---|---|---|
| `lifecycle_reap` | addresses distinct among rows and guests, herd cap, no live guest retired, `Lease` implemented | 2 creates over 2 addresses, which are all leased and reused, and a sweep that prunes, herd cap 1, clock 0..3 with an age floor of 2 and deadlines on both sides of it, guests and lists up to a tick late: a reap, a failed teardown, a prune and a re-adoption one after another |
| `lifecycle_races` | deadlines bounded, reaps overdue, history kept, `Lease` implemented | 1 env, 2 extends and 2 sweeps at once, clock 0..2, a ceiling of 2, which one extend reaches and two would pass. Both sweeps are one-shot ones, which prune; one that dies before that does what a watcher's does |
| `lifecycle_live` | overdue guests are reaped, also where a destroy came before the guest; addresses come back; reaps undisputed, history kept | 1 env under a herd cap of 1, its destroy at any moment, every alteration by hand, a sweep, clock 0..2 |
| `notify` | recorded emissions were pushed, backoff, ladder, no milder emission, acks silence, escalation to crit | 1 reaper with every fault, an ack, prunes; a backoff of 2 ticks and sweeps of up to 1, the least that tells in time, late and at once apart |
| `watcher` | no overlap but by override; the backstop runs for ever | 2 watchers and 2 one-shots, all of which may die |
| `migration_race` | version backed, open is current, opening succeeds and loses nothing unless disturbed | 3 openers with crashes from every deployed schema |
| `owners_race` | one owner per key, hand-written lines kept; a verb runs for the owner of the line, a plain key for nobody | 2 processes, 2 owners, 2 keys, every initial file, and every client text of up to 3 of 6 tokens: `--owner` with and without a value, before and after a verb, and `-c` |
| `provision` | the helper asks only for what its config allows, refuses only edited creates, replies the truth | 4 config files: aliases of one ref that differ in modes and nesting, an edit that takes a mode and size away, one that takes a name away, one that is invalid; 3 names, sizes missing, 0, small and too big, an owner that is refused |
| `kento` | ok is true, `Bridge` implemented, every call returns but for two waits | a helper that provisions while a sweeper lists and tears down the same guest, a second guest that is there, a pipe of 1 unit, so that some lists fit and others do not |
| `alloc_scan` | lowest free address, no overflow | every table of up to 4 rows, duplicates and outsiders included, over 3 addresses |
| `claim_reopen`, `claim_pipe` | what the code does not keep, below | the smallest that show it |

Hazards in this code are races of two actors about one env or of two envs about
one address or one cap, and take no third actor, so two of each
suffice to show them; the theorems remove the bounds where they exist. `kento`,
`provision`, `owners_race` and `claim_pipe` check for deadlock. The other runs
say `CHECK_DEADLOCK FALSE`: creates come to an end, openers and the scan are
done, watchers may all hang, and the clock reaches its bound, which is no deadlock of
seadog. The types of `Alloc`, `Watcher` and `Migration` are in no run, since they are proved.

The conditions under which properties hold are part of what the runs show:

- `DeadlineBounded` assumes `default_ttl <= max_ttl`. The configuration's check does not
  demand it, and re-adoption does not clamp. A row with an address, which its create inserted,
  keeps its deadline within `max_ttl` of its creation; a re-adopted row only within
  `max_ttl` of the clock (why not more is told below).
- `VanishOnlyGone` assumes `ProvisionTime < AgeFloor` and `ListTime < AgeFloor`.
- `ReapOnlyOverdue` and `ReapOnlyConfirmed` speak of reaps on a row that is still as
  the sweep read it; the other case is among those below.
- `LeasedGuestsDistinct` speaks of rows that record an address; the rows that do not
  are among those below.
- `BackoffClimbs` and `NeverMilder` hold where one reaper runs at a time. Two at once
  read the same state and speak twice. `AckSilences` speaks of acks that raced no
  recording and that no sweep has failed to read (`route` treats an error as no state,
  and its write un-mutes).
- `OpenSucceedsUndisturbed` holds until two openings overlap or one dies between a
  migration's commit and its stamp.
- `OkIsTrue` and `ImplementsBridge` take from kento that exit status 0 means done and
  printed. `CallReturns` excepts the two waits
  without a deadline: for an heir that holds the pipe (`kento.rs:586`), and for a child that
  was killed and does not die, as in a system call that does not return (`kento.rs:577`).
- `RefusesOnlyEdited`, and of `ReplyIsTrue` size and login user, speak of
  creates whose helper loaded the config that the front end had loaded.
- `OwnerIsOfLine` speaks of lines with a forced command; it does not say who is behind a
  bare key whose client names an owner itself (`PlainKeyHasNoOwner`).
- `OverdueIsReaped` excepts a guest that an operator alters before it is reaped. It is checked
  for one env, under a herd cap of one: that the cap defers one of two guests is in
  `lifecycle_reap`, which asks for no liveness. It is checked with a retention longer than the clock: a guest whose
  teardown fails until its terminal row is pruned is re-adopted with a new deadline.

### What the code does not keep

Two runs check a sentence of the sources and find how the code violates it; the
findings in `PROJECT.json` quote the sentences.

| Run | How |
|---|---|
| `claim_reopen` | a crash between migration 3 and its stamp makes the database unopenable: the column is added again at every opening |
| `claim_pipe` | a list bigger than the pipe makes kento wait for its reader, which waits for kento to exit: each such list is killed after `OP_TIMEOUT` and fails, so that nothing is reaped any more |

The models show more of the kind, for which no run is kept. Each is a behaviour of
the module named, by a few actions:

| Module | Sentence | Behaviour |
|---|---|---|
| `Lifecycle` | "Live env, holding its vmid/ip lease.", `models.rs:54` | after `SweepEnd` (the prune), `SweepReadopt`: the guest keeps its address, its Active row records none, and `CreateAllocate` leases the address again (`ActiveGuestsDistinct`) |
| `Lifecycle` | "The DB row is authoritative for `ttl_deadline`", `models.rs:97` | `SweepJoin`, `ExtendRead`, `ExtendSelect`, `ExtendWrite`, `SweepKill`: an extend that was accepted is lost |
| `Lifecycle` | "never before the row's own create time", `store.rs:411-412` | `ExtendSelect`, then the env is reaped, pruned and, its guest still up after a destroy that came too early or a late create, re-adopted, then `ExtendWrite`: the new row gets a deadline by the old row's creation (`DeadlineInWindow`) |
| `Lifecycle` | "*reap-eligible* (past deadline + grace)", `README.md:132-133` | `Due` compares with the deadline alone |
| `Lifecycle` | "Guest disappeared from the backend without seadog acting.", `models.rs:58` | `CreateRollback` marks Vanished a row whose guest is up; after `SweepKill` and `SweepCrash` the vanished pass so marks a guest that seadog tore down |
| `Lifecycle` | "the env is already gone", `teardown.rs:19` | `DestroyRead`, `HelperRead`, `HelperList` before `Provision`: the row is marked Reaped and the guest comes up |
| `Lifecycle` | "Global per-owner concurrency ceilings.", `config.rs:123` | two `CreateCheck` before either `CreateAllocate` |
| `Notify` | "Acked → fully suppressed until the operator clears it.", `notify.rs:205` | `RouteEmit`, `AckPut`, `RoutePut`: the ack is written over |
| `Notify` | "emit once per appearance", `notify.rs:268-269` | the row of the key `sweeper` is never deleted, so a second quorum loss is silent |
| `Watcher` | "the watcher is dead/wedged", `sweep.rs:167-168` | `TimerOverride` during the first tick of a watcher, which has not written a heartbeat |
| `Watcher` | "while ≥1 env is active it sweeps on the fast cadence", `watch.rs:6` | `CreateSpawn`, the watcher's whole life, `CreateLease` |
| `Migration` | "re-running it is a no-op once the DB is current", `store.rs:209` | a slow opener, having read an old version, runs `Migrate2` on a current database and blanks fingerprints |
| `Migration` | "intentionally NOT recreated", `store.rs:99` | `CreateBaseline` recreates the index after `Migrate2` |
| `OwnerKeys` | "Remove all managed lines mapped to `args.owner`", `owners.rs:264` | `RemoveOwner` keeps a line whose comment ends in a word that `key_body_of` takes for the key type, and reports success |
| `OwnerKeys` | "a key already mapped to a *different* owner is rejected", `README.md:233-234` | two `AddOwner` before either `Write` |
| `Provision` | "removed on drop (success OR error path)", `provision.rs:42-43`; "RAII-removed on every path", `:211` | `RunKento` whose write to the key file fails: there is no guard yet to be dropped, the create goes on without keys, and after `KentoReturns` the file is there (`KeyFileRemoved`); so it is after `HelperDies` |
| `Provision`, `Kento` | "it lives until after `kento.provision` returns", `provision.rs:212` | it does, but after `Expire` kento's heirs go on (`LateWork`), and may want the file when it is gone |
| `Provision` | "The sizing actually applied (clamped)", `create.rs:239` | `Lease`, `Edit` to a lower ceiling, `Load`: the guest is smaller than the reply says |
| `Provision` | "confirms SOME image entry exists" for the nesting, `config.rs:394-395` | mode and nesting are each confirmed, but of aliases of one ref by different entries (`Accepts`): a helper may be asked for a pair that no entry has |
| `CommandLine` | "we never mine `--owner` from it", `seadog/src/main.rs:344`; also `:150-153` | without a forced command `OwnerFromArgs` reads the `--owner` of the client's text |
| `CommandLine` | "so a no-command login [...] gives the clean error", `seadog/src/main.rs:395-396` | under the seadog login shell the words of the forced command itself are left, and reach the parser of verbs |
| `Kento` | "we kill on expiry rather than block the sweep forever", `kento.rs:487-488` | `KidForks`, `KidExits`, `Reap`: the collection waits for an heir without a deadline; `Expire` and a child that does not die of its kill: so does `Bury` |

## Fairness

- `Lifecycle`, `FairSpec`: time passes, although it waits for guests and lists whose time is
  up (SF); a create that has begun goes on or dies
  (kento's calls are killed after `OP_TIMEOUT`), and what it leaves behind comes to an end;
  sweeps are started for ever, by the timer if by nothing else, and go on or die (WF). Not
  every one of infinitely many sweeps dies before it has its list, has judged the instances or
  has read the rows, and a teardown or an update that is retried for ever does not fail each
  time (SF). Nothing is assumed of destroys, extends and operators. Any
  finite number of failures, lost quorums and crashes is possible.
- `Notify`, `FairSpec`: the same for sweeps, and SF for emitting, pushing and recording. That
  reads do not fail and records are not pruned for ever is a condition of
  `UnackedReachesCrit`, not of the specification.
- `Watcher`, `FairSpec`: nothing of watchers, which may hang with the lock; of the
  one-shot sweeps, that the timer starts them for ever (`OnUnitInactiveSec`) and
  that not all are killed (`RuntimeMaxSec`) at the same step; and
  that time passes. Nothing is assumed of creates.
- `Kento`, `FairSpec` in `MCKento`: the caller goes on whenever it can, and `OP_TIMEOUT`
  passes, which is one of its steps (`Expire`); WF per caller. Nothing is assumed
  of kento, its children or what they leave behind, not even that a child dies when it is
  killed.

## The proofs

All theorems hold for every value of the constants: any set of guids, owners and
processes, any pool, any durations, any config files, any command lines. Beside the
assumptions that say what kind of value a constant is, they rest on these: the
name that stands for no owner and the value that stands for no key are none
(`OwnerKeysAssumption`), the tokens of a client's text are a sequence
(`TextsAssumption`), images and modes are sequences and memory is a natural
(`ConfigsAssumption`), and, for the two theorems on the ladder, that one reaper runs
at a time (`OneReaper`, a hypothesis of the theorems).

- *Types* (`LifecycleProofs`). `Typed` is `TypeOK` with the facts about locals it needs
  to be inductive (a sweep that judges has a current guid, and so on); one lemma
  per process shows that its steps preserve it, `TypeCorrect` follows.
- *Step lemmas* (`LifecycleProofs`). `RowStep` and `GuestStep` say all that a step can do
  to a row and to a guest; the safety proofs use these and not the actions.
- *Addresses* (`LifecycleProofs`). `ActiveIpsDistinct` is inductive with `LeaseInv`,
  which relates what a create still holds in its hands to its row and its guest: a guest that
  is up, under a row with an address, has that address. That is why
  `LeasedGuestsDistinct` follows, and it is not inductive by itself.
- *History, deadlines, herd cap.* `HistoryKept` follows from `RowStep`;
  `DeadlineIsBounded` strengthens the bound to creates that hold a row not yet inserted
  (`DraftOf`), to extends that hold a creation they have selected (`ExtendOf`), and to creations
  that are not ahead of the clock: a creation that an extend still holds may be that of a row
  which is no more, hence the bound from the clock; `HerdCapIsHeld` is inductive with the types.
- *Reaps.* `ReapsAreOverdue` and `ReapsAreConfirmed` need `ReadPast`: a sweep's clock
  reading is not ahead of the clock.
- *Retirement.* `VanishedAreGone` needs the create window: when a sweep has its list, at
  most `ListTime` after its clock reading (`ListWindowNext`), a row older than the age floor
  has no create before its provision (`WindowNext`), so that a guest of such a row that is
  not listed never comes up, and no row appears with such an age later (`NeverUpStays`,
  `GoneList`, `GoneNext`).
- *Migration* (`MigrationProofs`). `MigrationInv`: whatever version an opener holds is
  backed by the schema, as is the stamp; the schema's columns are never taken away.
- *Allocator* (`AllocProofs`). `AllocInv`: the vector is sorted and holds the pool's
  taken addresses, all addresses below the candidate are taken, and those before the
  index are below the candidate.
- *Undisturbed openings* (`MigrationProofs`). `OpenSucceedsUndisturbed` needs that an
  opener's version is the database's as long as nothing has disturbed it.
- *Notifications* (`NotifyProofs`). `NotifyInv` relates what a sweep holds between its
  read and its write to its own push of it (`PutIsPushed`, by `pushed`; what is on record, by
  `backed`) and to the ack on record (`MutedIsAcked`); `PushedRecords` and `AckIsFinal` follow, for any number of sweepers and
  ackers. Without the first, a record could be written by a sweep that never pushed.
- *Lock* (`WatcherProofs`). `WatcherInv`: whoever sweeps without an override holds the
  lock, hence `OneSweeper`.
- *Owners* (`AccessProofs`). `OwnersInv`: what each process is about to write
  has one line per key and the hand-written lines (`PendingSound`), since its rename
  may come at any time.
- *Bridge* (`KentoProofs`). `KentoInv`: for every caller (`Sound`), what is read, what is in the
  pipe and what is yet to be printed make up what the child saw, and an exit with 0
  leaves nothing to be printed; `AnswersAreTrue` follows, for every capacity.

- *The ladder* (`NotifyProofs`). `LadderInv` relates three things: what was said last of an
  event, what is on record of it (`OnRecord`: same rung, same age, unless acked) and
  what the sweep is about to record (`OnItsWay`). An emission whose record was lost or
  pruned is on no record; then the next is at most a rung above the row that stayed
  (`NextRung`), hence never milder. `ClimbsRungByRung` and `NoStepDown` follow.
- *The ledger* (`LifecycleProofs`). `LedgerImplemented`: the rows of `envs` implement
  `Lease` under the mapping `Entry`. `TableStep` says what a step may do to the rows as the
  ledger sees them: leave them all, rewrite one (`Rewritten`: its status or its deadline),
  lease one, re-adopt one, or prune; `LedgerStep` takes each to an action of `Lease` or to
  a stutter (`GrantStep`, `RewriteStep`, `ForgetStep`).
- *The bridge's promise* (`KentoProofs`). `BridgeImplemented`: under the mapping `Pending` a
  call is open until its child has had its effect, and what a killed child still does
  (`Outlasting`) is late. The lemmas say which steps of caller, child and heir map to a
  stutter (`RestUnseen`, `ReadingUnseen`), to an effect within the call (`WorkMaps`,
  `LookMaps`), to one after it (`LateMaps`), and to an answer (`FinishMaps`, `InspectMaps`, and
  `GiveUpMaps` for a child that is given up).
- *The privilege boundary* (`ProvisionProofs`). `ProvisionInv` keeps what each process
  knows: the front end's request is what its config resolves by name (`Resolved`), the helper's
  what its config accepts by ref (`Granted`). That a helper with the same config refuses
  nothing (`OnlyEditsAreRefused`) is a fact about valid configs, proved as lemmas: the
  two look-ups agree on an entry of the image's ref (`ResolvedIsAccepted`), and capping a
  size twice is capping it once (`ClampedTwice`).
- *A connection* (`AccessProofs`). Lemmas about `CommandLine` for command lines of
  every length (`ScanOfTwo`, `ScanOfDashC`, `SplicedOwner`, `ForcedOutcome`, `PlainOutcome`):
  behind a forced command the first owner that is read is the spliced one. With `SessionInv`,
  by which the line of a connection without an owner is in the file for ever, they
  give `OwnersAreOfLines` and `PlainKeysHaveNoOwner`.

Every invariant and every safety action property that a run checks is also proved.
Only model-checked is liveness (`OverdueIsReaped`, `LeaseIsReleased`, `UnackedReachesCrit`,
`BackstopRuns`, `CallReturns`), since fairness and ENABLED are out of the
prover's reach.

## Not modelled

The text of things: parsing of TOML, JSON, durations and shell words, character sets of
names, base64, argv, the JSON envelope, logs and what a push writes. The content of an
env but for owner, mode, name, MAC, address and times; `soft_deadline`, which is informational;
vmids; host-key fingerprints in the lifecycle, which decide nothing. Minting of names and
MACs, which is random; sudo, setsid and the environment of the helper; file permissions;
installation. What a read-only verb prints: it changes nothing, but for the watcher that
`ls` spawns (`Watcher`). Test doubles. The `Flagged` status and `ForeignHeadsUp` are
declared and never used by the code; `set_mac` is called by no verb.

## Plan

Done, in this order: `Lifecycle` with its runs and proofs, `Notify`, `Watcher`,
`Migration`, `OwnerKeys`, `Alloc`; then `Kento` under `Bridge`, `Config` and `Provision`,
`CommandLine` and `Access`; then the proofs, refinements last.

1. A module that composes `Watcher` with the sweeps of `Lifecycle`, so
   that overlaps happen only as lock and heartbeat allow, and liveness of reaping
   rests on the timer alone; a module that composes the events a sweep routes with
   `Notify`.
2. What two reapers at once may do to the ladder: how far behind a record may fall as a
   function of `SweepTime` and `Reescalate`.
