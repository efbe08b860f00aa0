# TLA+ models of deb-s3

deb-s3 keeps a Debian package repository in an S3 bucket. There is no server:
every invocation is a *run*, a process that reads and rewrites the objects of
the bucket one call at a time, beside other runs, beside apt clients that
download the same objects, and under failures at any call. These modules model
the runs, the bucket, the client that turns store calls into requests, and the
reader and writer of package records. TLC checks them on small instances, TLAPS
proves the central facts for every number of runs, keys and packages.

Contents: [the system](#the-system), [the modules](#the-modules),
[what the checks show](#what-the-checks-show), [bounds](#bounds),
[fairness](#fairness), [what is proved](#what-is-proved),
[where code and documents differ](#where-code-and-documents-differ),
[abstractions](#abstractions), [not modelled](#not-modelled), [plan](#plan).

## The system

| Component (code) | State | Operations | Interacts with |
|---|---|---|---|
| Repository lock (`internal/lock`) | the object `dists/<codename>/lockfile`; in each process a handle with token and ETag, an attempt counter, a deadline | `Acquire`, `Release`, `Get` | conditional `Put`, `Head`, `Get`, `DeleteIfMatch` of the store |
| Packages manifests (`internal/apt/manifest*.go`) | a list of packages per component and architecture; the artifacts rendered from it | `Add`, `DeletePackage`, `BuildArtifacts`, `PublishPackages`, `PublishByHash`, `PublishCanonical` | the store; the Release that lists them |
| Release metadata (`internal/apt/release*.go`, `metadata_publish.go`) | components, architectures, listed files, Acquire-By-Hash; on the store `Release`, `Release.gpg`, `InRelease` | `RetrieveRelease`, `UpdateManifest`, `MissingManifests`, `ValidateOtherManifests`, `PublishMetadata`, `Publish` | manifests, signer, store |
| Upload (`internal/upload`) | package files read; manifests and Release in memory | `Upload` | apt metadata, store |
| Copy and delete (`internal/manage`) | the same, and the source manifest of a copy | `Copy`, `Delete` | apt metadata, store |
| Verify and clean (`internal/maintenance`) | packages without a body; referenced pool keys | `Verify`, `Clean` | apt metadata, `List` and `Delete` of the store |
| Commands (`internal/cli`, `internal/config`, `cmd`) | flags; the context that SIGINT cancels | `withRepositoryLock` around upload, copy, delete and clean | everything above |
| Signing (`internal/signing`) | none | `Sign`: two gpg calls, each verified | called by `Release.Publish` |
| S3 store (`internal/storage/s3.go`, `store.go`) | the bucket | `Put` (a Head, then a conditional PutObject), `Get`, `Head`, `Copy`, `Delete`, `DeleteIfMatch`, paged `List` | AWS SDK with its own retries |
| Memory store (`internal/storage/memory.go`) | a map under a mutex | the same operations, each atomic | tests |
| Package records (`internal/apt/package*.go`, `control.go`, `dependency.go`) | one package | parse, render, version and pool key | manifests, reader |
| Package reader (`internal/deb`) | one open archive | `Inspect`: ar members, control archive, checksums under size limits | upload |
| Queries (`internal/query`) | none | `List`, `Show`, `Exists` | read the Release and manifests without a lock |
| Build and packaging | none | – | – |

What is hard here is what happens *between* two calls on the store:

- **Mutual exclusion without a server.** Two runs race to create one object;
  the reply to a create may be lost after it was applied; the SDK may repeat
  it; a deadline may pass with the request in flight; a process may die and
  leave its lock; an operator may remove a lock. Correct means: at most one
  run works under a lock, `Release` deletes its own lock or none, a run that
  returns leaves no lock behind, and every run comes to an end.
- **Read-modify-write of shared indexes.** A command reads the Release and the
  manifests, computes, and writes them back. Correct means: locked commands
  have the effect of atomic ones, and no acknowledged upload is undone.
- **Readers without transactions.** apt fetches the Release, then indexes,
  then bodies, while a run publishes. Correct means: whatever a served Release
  lists can be fetched, under its by-hash name and from the pool, and
  signatures describe the Release beside them.
- **Calls that are several requests.** `Put`, `Copy` and `List` of the S3 store
  look and then act, and the SDK repeats requests whose reply was lost. Correct
  means: with a stated leeway, each call has the effect of one on an atomic
  store.
- **Records that are read and written again by every command.** Correct means:
  what a package file says is accepted only when the whole file was read, and
  its entry keeps its meaning and settles.
- **Runs that stop half way.** A publication is up to a dozen puts. Correct
  means: the next upload repairs what the run before left, and `clean` never
  deletes a body that an index lists.

`PROJECT.json` lists each of these hazards at its source line with the
properties that would notice it.

## The modules

| Module | Models | How it corresponds to the code |
|---|---|---|
| `LockService` | what a lock promises | abstract: `Request`, `Grant`, `Release`, `Abandon`, `Break` on one `holder` |
| `RepositoryLock` | `internal/lock` over an S3-like store | one action per store call. `try` is the Head inside `S3Store.Put`, `create` the PutObject with `If-None-Match: *`, `etag` the Head after success, `current` the Get of the owner after a conflict, `wait` the backoff, `relGet` and `relDelete` the two calls of `Handle.Release` |
| `MCRepositoryLock`, `RepositoryLockProofs` | – | instances for TLC; theorems |
| `Manifests` | the pure part of `internal/apt` | `Add`, `DeletePackage`, `UpdateManifests`, `MissingManifests`, `Artifacts` as operators on sequences of entries |
| `Commands` | what a command decides from its options | which manifests it reads, where a package is placed, which entries it adds or selects |
| `Publication` | the store and the publication sequence all commands share | `packages` is `PublishPackages`, `byHash` and `canonical` the loops of `publishMetadata`, `sign` to `putInRelease` is `Release.Publish` |
| `Repository` | the five commands that write, the three that ask, and `withRepositoryLock` | reads (`source`, `release`, `manifests`, `heads`, `list`, `scan`, `lookup`), then one `Decide…` action for what the code computes after its last read, then `Publication` or the deletes of `clean`, or the `Answer` of a query; failures at each call, and calls that are applied after their run is gone (`LateCall`) |
| `AtomicRepository` | a repository whose commands take effect at once | abstract: `Commit` replaces what a codename lists by the effect of one command, written declaratively over the set of index names; what one index becomes is computed by the operators of `Manifests` and `Commands` that `Repository` uses too |
| `RepositoryProperties` | – | invariants, action and liveness properties, and the refinement mapping to `AtomicRepository` |
| `MCRepository` | – | scenarios for TLC |
| `ManifestProofs` | – | lemmas: what the operators of `Manifests` and `Commands` return |
| `RepositoryTypes`, `RepositoryReferenceProofs` | – | theorems for any commands, locked or not: types, then what is under its hash and what is in the pool; the second extends the first |
| `RepositoryProofs` | – | theorems about the lock and, under it, the signatures, the Release that lists the indexes, and the commands as atomic ones; extends the two |
| `AcknowledgedProofs` | – | theorems about what stays of an upload that succeeded, what queries report of it, what `clean` spares and what an upload puts right; extends all of these |
| `MemoryStore` | `storage.MemoryStore` | every operation in one step, as under its mutex: an action per outcome |
| `ObjectStore` | what callers may rely on with S3 | abstract: `MemoryStore` and the leeway a store of several requests needs, one action for each kind |
| `S3Store` | `storage.S3Store`, the SDK's repeats and the bucket | `source` and `head` are the HeadObjects of `Copy` and `Put`, `request` the one request of each call that the bucket serves with its conditions, `reply` the way back, `page` one `ListObjectsV2`; `Repeat` and `GiveUp` are the SDK |
| `MCS3Store`, `S3StoreProofs` | – | two clients for TLC; theorems |
| `PackageRecords` | `apt.ParseParagraph`, `ParsePackage`, versions, dependencies, `Render` | operators on paragraphs of lines |
| `PackageReader` | `internal/deb`: `ReadPackage` and `arReader`, then the entry | one action per read or decision: `next`, `skip`, `header` are `arReader.Next`; `member` the switch over what is expected; `entry`, `control`, `tarEnd` the control archive behind `sizeLimitedReader`; `Fetch` a decoder that reads its member; `Publish` and `Republish` render and read the entry |
| `PackageProperties`, `MCPackage`, `PackageProofs` | – | well-formed packages stated without the steps of the reader, properties; packages for TLC; theorems |

`RepositoryLock` is composed with `Repository` through `LockService`: in
`Repository` taking and giving back the lock is one step each, which is what
`ImplementsLockService` justifies. A run that ends with an error after its
lockfile was created (`GiveUp`), or that cannot remove it (`UnlockFails`), is
an outcome of `LockService` too, so `Repository` has it.

State of `Publication` and `Repository`: `pool`, `byHash`, `index`, `release`,
`releaseGpg`, `inRelease`, `lockfile` are the objects of the bucket. `job` is
the command line of a run, `rel`, `manifests`, `kept`, `refs`, `todo`, `work`,
`batches`, `at` are the local variables of its Go functions, `pc` is the call
it makes next, `outcome` how it ended. `Release.date` names the run that
rendered the Release, so two Releases with the same files still differ.

Definitions whose comment begins with "Mutant:" are not part of the system.
Each is the definition below it with a plausible mistake; put in its place, it
makes the run that `PROJECT.json` names fail, which shows that the property
depends on that piece of code.

## What the checks show

| Run | Question | Properties |
|---|---|---|
| `lock_faults` | Does the protocol implement `LockService`, and exclusion survive lost replies, repeated requests, failed calls, deadlines and runs that die? | `ImplementsLockService`, `GrantedOwnsLockfile`, `MutualExclusion`, `EveryRunEnds` |
| `lock_bounded` | With bounded attempts and an operator who removes locks in use: whose lock does `Release` delete, and does anybody leave one behind? | `TypeOK`, `ReleaseRemovesOnlyOwnLock`, `LockNotLeaked`, `EveryRunEnds` |
| `locked` | Do locked commands act atomically, and can clients fetch everything at every moment? | `ImplementsAtomic`, `ListedPackagesExist`, `ReleaseMatchesIndexes`, `TypeOK` |
| `faulty` | What holds when every call may fail, gpg may fail and processes may die, for maintainers and for queries? | `WorksUnderLock`, `AcknowledgedUploads`, `UploadHeals`, `IndexedPackagesExist`, `SignaturesMatch`, `QueriesSeeAcknowledged` |
| `unlocked` | What does the order of the puts give by itself, without any lock and with calls that are applied late? | `CanonicalByHash`, `ServedByHash`, `ListedPackagesExist` |
| `competing` | Do commands that wait for runs that die come to an end? | `EveryRunEnds` |
| `store` | Are the calls of the S3 store atomic, up to a stated leeway, and do they return? | `ImplementsObjectStore`, `ListComplete`, `EveryCallReturns`, `TypeOK` |
| `package` | Which package files are accepted, what is measured of them, and does an entry survive being rendered again and again? | `AcceptsWellFormed`, `DigestsCoverFile`, `EntryKeepsPackage`, `EntrySettles`, `ReaderEnds`, `TypeOK` |
| `lock_leak`, `unsigned_upload`, `repair`, `copy_and_clean` | Does the code do what a document says? It does not, see [below](#where-code-and-documents-differ) | one each |

Six results are worth spelling out.

*Atomic commands.* `ImplementsAtomic` maps the files of the stored Release to
what a codename lists, and a run to committed from its put of the Release on.
All orders of the jobs in `LockedJobs` refine it, including those in which an
`Architecture: all` package meets an empty codename, a second component
appears, or `--preserve-versions` decides what a copy leaves. `AtomicRepository`
says without loops, reads or manifests which indexes a command changes, so the
run also checks `UploadArchs`, `MissingManifests`, and that updating manifest by
manifest comes to that. It is not independent in what a changed index contains:
`Added`, `Selected` and the operators under them (`Add`, `DeletePackage`) are
shared, and a mistake in these would be on both sides. What `Add` and the
others return is the subject of the lemmas of `ManifestProofs`.

*The order of puts alone.* In `unlocked` no run takes the lock; runs
interleave and die anywhere, and the call in which a run died may be applied
later, after another run has finished. Updates are lost there, acknowledged
ones too: nothing in the code fences a late put of an index or a Release. Yet
the contents of every canonical index, and of every index a served Release
lists, are stored under their hash before anything names them, and every
package body a client is told of exists. That is all a by-hash client needs.
The exception is stated in the properties: a component that some run writes
without by-hash objects (`WrittenPlainly`).

*Repair.* In `faulty` a run may die between the plain and the compressed
index, or between the indexes and the Release. `clean` then deletes by the
plain indexes alone. `UploadHeals` says that the next upload that succeeds,
although it reads only the plain indexes, leaves Release, plain and compressed
indexes of its component equal, with every listed body in the pool.

*Queries.* `list`, `show` and `exists` take no lock. `QueriesSeeAcknowledged`
says that one that started after an upload had succeeded reports the package,
once, whatever is published or fails while it reads index after index.

*The store.* `ImplementsObjectStore` maps a call of `S3Store` that has got its
reply to an answered call of `ObjectStore`. What clients lose against
`MemoryStore` is exactly what the head of `ObjectStore` lists: repeated
effects, failures with or without an effect, a conflict with an identical
object that another client created meanwhile. A guarded call never replaces an
object, and a conditional delete removes only what it was meant for.

*Packages.* `AcceptsWellFormed` compares the verdict of the reader with
`Acceptable`, a description of packages that knows nothing of read-ahead,
states or limits on streams; both directions are checked for every shape of
archive, cut at every unit. The decoder of zstd reads from goroutines of its
own; the run shows that closing it before the next member is what makes the
verdict and the digests independent of how far it got.

## Bounds

- Three runs (four in `copy_and_clean`, one in `unsigned_upload`). Two runs
  race; the third finds what they left: a lock that changed hands between two
  calls of `Release`, an index repaired after a failure, a pool swept after
  both. No run needs a second turn, since a process runs one command.
- `MaxAttempts = 2` in `lock_bounded`: a first attempt that waits and a last
  one that does not. Elsewhere 0, which stands for `lock.Unlimited`, the value
  every command passes. In the code a deadline may expire at any moment, so it is
  an action and not a counter.
- One codename, or two where a copy crosses them. One or two components, the
  architectures `amd64` and `arm64` with `all`: two of the code's standard
  architectures, so that `MissingManifests` has something to add. `MCFaulty`
  has `amd64` and `all`, `MCCompeting` and the small violation runs `amd64`.
- Up to five package files: two versions of one package, the same version
  under another file name, the same file name with another content, a second
  package, and one for all architectures.
- `Before` fixes in some scenarios which runs have ended before another one
  starts. It restricts what is explored, never what a started run may do.
- In `faulty` the third command, or the query, joins when the first run has
  ended; in `unlocked` when the first two have. One call per run may be late,
  the one in which it failed or died.
- `store`: two clients with five calls each, which together contain every
  operation, guarded and unguarded writes of the same key, and a copy in each
  direction; two keys, two contents and objects of other tools, pages of one
  key, so that a listing of both keys takes two, and one repeat per call.
- `package`: 24 control archives with and without members around them, other
  orders of members, wrong sizes and headers, each cut at every unit; limits of
  9 units for the unpacked archive and 6 for the control file, which archives
  of the instance meet exactly and exceed by one; all versions of up to four
  characters of `1`, `:`, `-`; 20 more control files; four renderings, so that
  `EntrySettles` compares the second with the third and the fourth.
- No state constraint and no symmetry are used: all counters are bounded by
  the code's own loops or by the constants named here.

## Fairness

`WF(Proceed(p))` for each run: a process that was started keeps executing; Go
and the operating system schedule it, and every store call returns or fails
(the SDK has its own timeouts). Crashing, failing and losing a reply are never
fair. `WF(Expire(p))`: clocks advance, so a deadline that is set passes.

Removal of a stale lock is an act of a person. It is assumed to happen
eventually only where nothing in the program bounds the wait: without
`--lock-timeout` and with unlimited attempts, for an operator who follows
`docs/LOCKING.md`. In `lock_faults` and `lock_bounded` the liveness property
holds without that help. In `competing` the help is assumed (`Fairness` of
`Repository`), because there runs wait without limit. Waiting for the lock is
not fair among the waiters, and need not be: each run works once.

`S3Store`: `WF(Advance(c))`, every request is answered, or given up, in the
end; losing a reply and failing are never fair, and the limit of the SDK on
repeats is what makes `EveryCallReturns` true. `PackageReader`: `WF(Read)`, for
reading a local file waits for nobody.

## What is proved

All theorems hold for every set of runs, clients or packages and every value
of the other constants, under `LockAssumption`, `RepositoryAssumption`,
`ObjectsAssumption`, `StoreAssumption` and `LimitsAssumption`. These give the
constants their types: `NoObject` is neither an index nor a Release,
jobs are what the command line accepts (`IsJob`), names of codenames,
components, architectures and files are finitely many, and the keys of
`S3Store` are positive numbers, for only their order matters. The TLC runs above
evaluate them.

`RepositoryLockProofs`:

- `TypeCorrect`: `Spec => []TypeOK`, with the bound of the attempt counter.
- `GrantIsExclusive`: `Spec => []GrantedOwnsLockfile` unless
  `Operator = "careless"`. The invariant is inductive together with `TypeOK`.
  `MoverOwnsLockfile` handles the run that takes the step; any other granted
  run keeps its lockfile because a step changes the lockfile only by creating
  it where there is none, or by deleting the one the stepping run owns
  (`RunStep` bounds what a step of one run may do to the others).
- `Exclusion`: `MutualExclusion` follows, since one lockfile has one owner.
- `ReleaseIsSafe`: `Spec => ReleaseRemovesOnlyOwnLock` for every operator. It
  needs the invariant `HandleETag`: once the token has been compared, the ETag
  in the handle is the run's own; before that it is so or the lockfile belongs
  to somebody else. `If-Match` alone would not do, because the Head after the
  create may read another run's ETag when a lock was removed in between.

- `LockRefinement`: `Spec => ImplementsLockService` unless
  `Operator = "careless"`. `StepKinds` sorts the fifteen actions of a run into
  the five things that can happen to an abstract lock, `OtherStates` says that
  nobody else's abstract state changes, and `RunImplements` finds the action
  of `LockService` for each kind. `IdleOwnsNothing` (a run that has not
  started wrote no lockfile) is the one further invariant it needs.

- `NothingLeaked`: `Spec => []LockNotLeaked` without deadlines and with no
  failing call but a lost reply to the delete (`Undisturbed`), for every
  operator and any number of attempts. `NoLeak` strengthens it by what is
  true of runs that still work; it needs `HandleETag`, since a run that had read
  another run's ETag would be refused its own delete. The run `lock_leak`
  shows that the assumption is needed.

`ManifestProofs` says what the loops over packages, manifests and architectures
return: `KeepOnlyFacts`, `AddAllFacts` (the entries that an addition leaves and
adds), `AddAllRange`, `ReportedFacts`, `ReadArchsFacts`, `FlattenFacts`,
`SetToSeqFacts`. The operators are folds of the community modules. Each fold is
first unrolled into a chain of steps (`FoldSteps`: the recursive function that
the fold chooses exists, and its value on `1..i` is that on `1..i-1` and one
step); then the least index at which the fact fails is led to a contradiction
(`LeastNat`, `Interval`). That is induction without an induction theorem, and it
works for every fact that is a set of indices.

`RepositoryTypes`:

- `TypesHold`: `Spec => []TypeOK`. `TypeOK` alone is not inductive: whether the
  head of `todo` is an architecture or an index, and the head of `work` an entry
  or a pool key, depends on the command and its label. `RunOK` says which; it
  also bounds what a late call may find of the memory of its run. The proof
  goes through all commands, so it also shows that no `Head` is taken of an
  empty sequence and no index read that does not exist.

`RepositoryReferenceProofs`, for any commands, locked or not, any failures and late
calls:

- `CanonicalByHashHolds`: `Spec => []CanonicalByHash`.
- `ServedByHashHolds`: `Spec => []ServedByHash`. The invariant `HashInv` follows
  an index from the decision to the Release: what the Release in memory lists is
  under its hash or among the artifacts still to be published (`ListedHashed`),
  and the artifacts of the current batch before `at` are stored, all of them
  once the canonical names are written (`BatchHashed`). That has to hold of
  runs that died too, for their last call may be applied at any later time. It
  rests on `PreparePublishes`: `UpdateManifests` lists nothing that
  `Artifacts` does not publish.

The second half of `RepositoryReferenceProofs`, for commands that take no body out of the pool and
replace none (`GuardedUploads`: no `clean`, and uploads with
`--fail-if-exists` and without `--skip-package-upload`), locked or not, with any
failures and late calls:

- `ListedPackagesHeld`: `Spec => []ListedPackagesExist`.
- `IndexedPackagesHeld`: `Spec => []IndexedPackagesExist`. `PoolInv` follows the
  entries: those a run reads have their bodies (`ReadBacked`), those it announces
  have them or are about to get them by its own upload (`AnnouncedBacked`). The
  step from one to the other is `DecidesSourced`, and its hard case is the
  package for all architectures: it is uploaded once but enters every manifest,
  so the upload must have read a manifest of `all` (`PlacesRead`). The
  hypothesis is needed: `clean` removes bodies that an upload without the lock
  is about to list, an upload without `--fail-if-exists` replaces a body under
  the entries of other indexes, and with `--skip-package-upload` the maintainer
  vouches for the bodies. `CleanSpares`, below, is about `clean` under the lock.

`RepositoryProofs`:

- `ShapeHolds`: the part of the types the arguments rest on.
- `LockDiscipline`: `Spec => []WorksUnderLock`, inductive with `Shape`, for
  any mix of commands, locked or not, and any failures, late calls included.
- `SignaturesDescribeRelease`: if all commands take the lock and no call is
  applied late (`Fenced`), `Spec => []SignaturesMatch`. `SignaturesInv`
  strengthens it by `Progress` (which signatures are absent or current at each
  label of a publication) and by `WriterKnown` (the run that dated the stored
  Release has got as far as storing it). Lemmas split the steps: `SteadySteps`
  are those that store neither a Release nor a signature, `StoringSteps` the
  five that do, and `OneAtATime` uses the lock to exclude a second publisher.
- `ReleaseListsIndexes`: if every command that changes indexes takes the lock
  (`ChangesUnderLock`; `verify` has no lock flag, so it does not run) and
  nothing fails but the wait for the lock (`Untroubled`),
  `Spec => []ReleaseMatchesIndexes`. `MatchInv` relates three things at each label
  of the run that holds the lock: the indexes, the Release in memory and the
  batch. What was read agrees with the indexes (`ReadMatches`); from the decision
  on the Release in memory lists what the artifacts contain and, for every index
  the run has not still to write, what the index contains (`BatchMatches`).
  `PreparedLists` is the heart of it: although `UpdateManifests` is applied twice
  and a command may read one index twice, no two artifacts of a batch disagree
  about an index, since an empty manifest is added only where nothing is listed
  after the first update (`ObjectsAssumption`) and manifests read under the lock
  for the same index are the same (`DecidesAgree`). The hypotheses are needed:
  TLC finds the invariant violated when a run dies between two indexes and its
  lock is removed, and when a `verify` without the lock publishes beside another
  run (the scenario of `repair`).
- `CommandsAreAtomic`: under the same two hypotheses, and if copy stays within
  its codename (`CopiesInside`), `Spec => ImplementsAtomic`: every step is the
  whole effect of one command on what is listed at that moment, or changes
  nothing. `AtomicInv` adds to `MatchInv` what a run knows, in terms of the Release
  that is stored (`RunAtomic`): which indexes it has read and what it has made of
  them (`Planned`), what copy has selected, and from the decision on that the
  Release in memory is the effect of its command, which may take effect
  (`Lawful`). Nobody else stores a Release in between (`OthersAtomic`), so this
  still holds when it is stored, and that step is the commit (`PutReleaseAtomic`,
  `StepImplements`); the other steps stutter, save the last one of `clean` and of a
  query. That the loops compute the declarative effects is `RewriteAgrees`:
  updating the changed manifests and then the missing ones is one rewriting of
  the index names, provided that a Release has the components and the
  architectures of the indexes it lists, plain and compressed (`Coherent`, a part
  of `AtomicInv`); `UploadReads` says which architectures an upload touches, and
  `UploadIsLawful`, `CopyIsLawful` and `DeleteIsLawful` put the two together. The
  hypotheses are needed: TLC finds the refinement violated when runs may die, for
  one whose effect is complete can die before it gives back the lock, and counts
  as failed; and when a delete commits in the source codename while a copy from
  there, which does not hold its lock, is under way.

`AcknowledgedProofs`, for commands of which those that change indexes take the
lock (`ChangesUnderLock`) and no call of which is applied late (`Fenced`), with
every other failure:

- `UploadsStay`: `Spec => []AcknowledgedUploads`. The invariant `KeepInv`
  follows an entry that was promised by an upload which succeeded, or is being
  published by one (`Due`), through everything that may write over it: it is in
  the indexes and the Release (`StoreKeeps`), and every run that holds the lock
  and is going to write an index or the Release has it in what it has read, in
  what it is going to write, and in the Release in memory (`Carries`). For
  that, nothing else in a list may have its name and version (`Sole`), since `Add`
  replaces by these. `DecidesKeep` shows that no decision loses it: additions
  replace packages of their own names (`Retracted` excludes those), deletes take
  the named one, the empty manifests come where nothing is listed. A run that
  dies leaves indexes ahead of the Release; they still have the entry.
- `QueriesAnswer`: `Spec => []QueriesSeeAcknowledged`. While a query that was
  started after the upload runs, `KeepInv` keeps the entry in the index and the
  Release at every moment, hence at the one at which the query reads it
  (`AnswersInv`: what a query expects it has found or has still to read). That
  `list` reads the index in question at all needs `ArchsInv`: a Release has among
  its architectures those of the indexes it lists. That it reports the entry
  itself, once, needs `OwnInv`: every entry that is read or written anywhere is
  that of an uploaded package, so that an entry which `list` takes for the same
  one (name, version and file) is the same one, if nothing else was uploaded
  under its name.

The rest of `AcknowledgedProofs`, where moreover `clean` takes the lock, copy
stays within its codename, and uploads are given `--fail-if-exists` and not
`--skip-package-upload` (`SweepsUnderLock`), still with every failure but late
calls:

- `CleanSpares`: `Spec => []IndexedPackagesExist`, with `clean` among the commands.
  `SweepInv` relates the two ends of a body. On the side of `clean`, an index of
  the codename is either still to be read or its entries are referenced, and no
  entry of a plain index has a key that is to be deleted (`Spares`); on the side
  of a command, what was read, selected or decided on has its bodies or is about
  to upload them (`HoldsBacked`). Either side is undone by a step of the other,
  so both rest on the lock (`OneRewrites`, `OthersUndisturbed`). The compressed
  indexes are left out: after a run that died between the two forms, `clean` does
  delete bodies that only the compressed one lists. The hypotheses are needed:
  without the lock `clean` deletes what an upload is about to list, a copy from
  another codename lists bodies that the lock of that codename would protect (the
  run `copy_and_clean`), and an upload that replaces a body takes it from
  under the entries of other indexes.
- `UploadsHeal`: `Spec => []UploadHeals`. `HealInv` follows an upload: it reads
  every index of its component that its Release lists (`ReadsAll`, which needs
  `ArchsInv` and the fact that `UploadArchs` keeps all architectures of the
  Release), writes them in both forms or lists nothing for them (`WritesAll`:
  each index of the component is still to be written, or is whole, that is equal
  to what the Release lists, with every body in the pool), and the Release that
  it stores is the one in memory (`ListsAll`). That the bodies are there when the
  canonical index is written comes from `SweepInv`; that the two forms agree, from
  `PreparedLists`, as in `ReleaseListsIndexes`, but here with no assumption on
  what the store contained before.

`S3StoreProofs`:

- `StoreRefinement`: `Spec => ImplementsObjectStore` for any clients, keys,
  calls and faults. The invariant `Progress` keeps what a client remembers
  between two requests: above all that a `Copy` past its first Head saw a
  source with the ETag it asked for. `ClientSteps` shows that what happens
  without the bucket is a failure, a refusal, an idempotent success or a
  stutter, `BucketSteps` that each served request is one atomic step.
- `StoreTypes`: `Spec => []TypeOK`.
- `ListingsComplete`: `Spec => []ListComplete`, for any number of pages. The
  invariant `Paging` says what a token stands for: every steady key up to it is
  listed, and none beyond it. A page ends with its greatest key, which exists
  because pages are finite.

`PackageProofs`:

- `DigestsAreComplete`: `Spec => []DigestsCoverFile` for archives of any shape
  and any limits. The invariant says that a decoder is open only while the
  control archive is read, that from the end of the file on the position is its
  length, and that the package says that position, whatever the control file
  claims.
- `ReadsInBounds`: `Spec => []TypeOK` for archives of any shape
  (`ArchivesAssumption`) and any limits: whatever sizes ar and tar headers claim,
  no step reads beyond the file, a member is read to its size at most, and
  neither the unpacked control archive nor the control file passes its limit.
  `Kept` strengthens it by what a step finds of the member and the entry whose
  headers an earlier one has read; `FlattenTyped` gives the units of an encoded
  file their types.

Only model-checked:

- All liveness (`EveryRunEnds`, `EveryCallReturns`, `ReaderEnds`), for the
  prover knows neither fairness nor `ENABLED`.
- `EntryKeepsPackage` and `EntrySettles`: what `ParseParagraph` and `Render`
  compute is defined by recursion on texts, and that one undoes the other would
  be an induction over both at once.
- `AcceptsWellFormed`, which needs the same of whole archives, and also that the
  archives contain no member whose claimed size makes the reader look for the
  next header in the body of another.

## Where code and documents differ

- `docs/SIGNING.md:20-21`, "If signing or verification fails, nothing new is
  published". Upload stores bodies and canonical indexes before
  `Release.Publish` calls the signer. Run `unsigned_upload`.
- `internal/cli/flags.go:15-16`, the lock options are "shared by every command
  that mutates a repository". `verify` with `--fix-manifests` or `--sign`
  mutates and has none; it can undo an acknowledged locked upload. Run
  `repair`: one entry has no body (`--skip-package-upload`), and `verify` is
  right to take it out. It reads the index, then an upload under the lock
  publishes another package, body and all, and reports success, and then
  `verify` writes back what it has read, without that package.
- `docs/LOCKING.md:23-24`, "The lock is released even when the operation fails
  or is cancelled". A deadline, or a failing call, that makes `Acquire` return
  an error after the bucket has created the lockfile leaves the lock. In the
  run `lock_leak` the deadline passes while the create is under way: the bucket
  applies it, `Put` reports the interrupted request, and `Acquire` returns the
  timeout without looking whether the lock is there (`lock.go:124-129`); the
  same follows when the Head after the create is interrupted. Without deadlines
  and failing calls the sentence holds: `lock_bounded` checks it and
  `NothingLeaked` proves it.
- `docs/CHEATSHEET.md:164`, `clean` deletes objects "not referenced by any
  discovered manifest". A copy under its destination's lock and a clean under
  the source's overlap, and the copied entry loses its body. Run
  `copy_and_clean`.

Four more are visible in the models without a run of their own:

- `internal/storage/store_test.go:114`, "Identical bytes are always idempotent,
  including create-only writes". With S3 the second of two identical creates
  that race is refused, because `Put` maps the failed `If-None-Match` to a
  conflict without looking again (`s3.go:191-197`). This is `Refuse` in
  `ObjectStore`; restricted to different contents it makes
  `ImplementsObjectStore` fail.
- `docs/SIGNING.md:28-30`, with `--by-hash` "clients that already fetched the
  previous signed generation keep working". `RetrieveRelease` switches the whole
  Release to Acquire-By-Hash, but a command writes by-hash objects only of the
  manifests it publishes: components that were published without it have none.
  This is the exception `WrittenPlainly` in `ServedByHash`.
- `internal/deb/reader.go:117-120`, fields of an index in a control file are not
  carried over. A user-defined field `XB-Filename` is: it loses its prefix on
  parsing, after the known fields were taken, and so stands in the entry as a
  second `Filename`. `Rewritable` excludes it.
- Rendering is not the identity for a value with a line that is a lone dot
  indented further, a version that begins with a dash, and a field with two
  prefixes to lose (`X-XB-Tag`): each becomes something else when its entry is
  rendered again. `Rewritable` excludes them, and `EntrySettles` shows that they
  too come to rest with the second rendering.

## Abstractions

- A lock's owner record, its random token, its MD5 and its ETag are all the
  run that wrote it. Hashes, compressed and rendered forms of an index are its
  sequence of packages, so equal contents have equal hashes.
- In `Repository` a store call is one step, as `ImplementsObjectStore` allows;
  a conflict with an identical object is covered by `StoreFails`. `List` of the
  pool is one step there, the pages are in `S3Store`.
- A call that was applied although it reported an error is the call followed
  by `StoreFails` at the next one, or a `LateCall`. Deletes of `clean` are not
  applied late. SIGINT cancels the context: `StoreFails`, then `Unlock`, which
  `withRepositoryLock` runs under a context of its own.
- What a run computes between two calls is part of the step that ends its
  reads. A misplaced package is reported there too; the code reports it a few
  reads earlier, and writes nothing in either case.
- `Origin`, `Suite`, `Cache-Control`, ACLs, encryption, prefix, dates, sizes
  and all text are left out. The random jitter and the length of the backoff
  are left out: `Retry` may fire at any time.
- In `Repository` only a lock whose run has ended is removed by hand. The
  careless operator is part of `RepositoryLock`.
- `ListedPackagesExist` is checked and proved with `--fail-if-exists`; without
  that flag an upload replaces a body that indexes list with the old checksum.
- In `S3Store` contents, MD5, `md5` metadata and ETag of what deb-s3 stored are
  one value; an object that another tool stored in parts has an ETag that is no
  digest (`Foreign`). ACL, encryption, metadata and prefix are left out.
- In `Reported` the architecture of an entry is that of its file, so the pool
  key stands for both.
- In `PackageReader` a file is a sequence of units; header fields are legal or
  not, a block of a compressed member unpacks to units of a tar archive, and
  names are split at slashes. In `PackageRecords` a text is split at the
  characters the code looks at.

## Not modelled

- Flag parsing, validation, configuration and output of the commands: no state,
  and nothing to interleave.
- The gpg processes and the parser of the gpg option string: `Sign` runs in a
  directory of its own and has one visible result, success or failure.
- Building the S3 client from the configuration, joining and splitting prefixes.
- A package file that is rebuilt between its inspection and its upload: the
  program cannot notice (`manifest_publish.go:176`).
- The length of backoffs: commands never set them, and `Retry` may fire at any
  time.
- S3's reply 409 `ConditionalRequestConflict` to a conditional request that
  meets another one in flight. The code takes it for a failed condition
  (`s3.go:394`), so a call may report a conflict with an object that is not
  there yet. In the lock loop this looks like a lock that is gone before `Current`
  reads it, which `RepositoryLock` has; for the calls of `S3Store` it would be
  one more leeway in `ObjectStore`: a refusal without effect.
- Codecs, tar and ar byte layouts, digests as algorithms, dates.
- Build files and demo data have no behaviour.

## Plan

Done: the lock and its proofs; manifests, commands, publication, the atomic
repository; queries and late calls; the stores and their refinement; package
reader and records. What is left, in order of importance:

1. `clean` beside clients that follow compressed and older by-hash indexes, and
   deletes of `clean` that are applied late.
2. `Repository` over `ObjectStore`, so that the leeway of the store, above all
   repeated effects, is composed with the publication instead of covered by
   failures.
3. The option parser of the signer against a reference definition.
