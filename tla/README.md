# policy-helpers: a TLA+ development

policy-helpers verifies the signatures of container images and of build
artifacts. It has four parts with logic of their own:

* a *trust provider* that keeps the Sigstore trusted root up to date from a TUF
  repository, in a cache directory shared by processes, and works without the
  network too;
* a *verifier* that makes the trust provider once, resolves the chain from an
  image to its signature in a registry, and lets sigstore-go check the signature;
* small pure parts: the conversion of cosign annotations into a signed entity,
  the classification of a verified signature (`Kind`);
* a command line around all that, with a registry provider of its own.

This directory models all four. The
modules are checked by TLC on small instances; for all of them every safety
property is proved with TLAPS for every value of the constants. For the two
verifications that is soundness (what is accepted is signed) and completeness (what
is signed in good order is accepted).

## Inventory

| Component | State | Operations | Interacts with |
|---|---|---|---|
| `roots/roots.go` `TrustProvider` | `client`, `status` under `mu`; the file lock `.lock` | `NewTrustProvider`, `update`, `wait`, `TrustedRoot`, `lock` | goroutines of its own (one update at the start, a ticker, one update per waiting call); other processes through the cache directory |
| cache directory: `copyEmbeddedRoot`, `airgappedFetcher`, `tufClientOpts`, embedded files | `root.json`, `timestamp.json`, `snapshot.json`, `targets.json`, `roots/N.root.json`, `targets/trusted_root.json` | seed, refresh, load without network | go-tuf's updater (vendored), sigstore-go's tuf client (vendored) |
| `verifier.go` `loadTrustProvider` | `v.tp`, singleflight's map | `NewVerifier`, `loadTrustProvider` | `NewTrustProvider`; concurrent verifications |
| `verifier.go` `VerifyImage` | locals | resolve chain, read blobs, choose options, verify, classify | the registry, `TrustedRoot`, sigstore-go |
| `image/` | `SignatureChain` | `ResolveSignatureChain`, `ReadBlob`, `isDHIIndex` | the registry: content and referrers |
| `hashedrecordbundle.go` | none | `newHashedRecordSignedEntity`, `parseRekorBundle` | called by `VerifyImage` |
| `roots/dhi` | the embedded DHI key | `TrustedRoot`, `ValidAtTime` | wraps the Sigstore root |
| `types/` | none | `DetectKind`, `Name`, JSON of `SignatureInfo` | called by both verifications and the report |
| `verifier.go` `VerifyArtifact` | locals | threshold of log entries, SLSA check | `TrustedRoot`, sigstore-go |
| `cmd/policy-helper/utils.go` | `dhiReferrersFetcher` under `dhiInitMutex`; a reader's `offset` | `providerFromRef`, `ReaderAt`, `FetchReferrers`, `ReadAt` | registries; called by `VerifyImage` |
| `cmd/policy-helper`, `githubapi` | none | arguments, report, one HTTP request | all of the above |

What is hard in it:

* *concurrency*: updates of one provider that finish in any order; processes
  that share files; a target file that is read and written without the lock; a
  field (`v.tp`) without a lock;
* *failure*: an unreachable repository, one that never answers, or a mirror that
  serves old data and withholds new roots, a full disk, a process that stops in the middle of a file, requests to a registry
  that fail one by one;
* *ordering and time*: a deadline of five seconds that races an update's answer,
  an error recorded after the lock was released, root rotations, expiry;
* *a registry that is not trusted*: lists of referrers that say anything;
* *data with gaps*: JSON fields of several types, numbers that do not fit, zero
  that means absent, parts of a bundle that are optional and are not looked for.

`PROJECT.json` lists these as hazards, each at its line, with the property that
would catch it.

## Modules

| Module | Models | Notes |
|---|---|---|
| `TrustProvider` | `roots.go` with its goroutines and processes | core module |
| `TrustProviderProofs` | | theorems about `TrustProvider` |
| `TufCache` | the cache directory, file by file | what `TrustProvider` leaves open: when a directory loads offline |
| `TufCacheProofs` | | theorems about `TufCache` |
| `OnceProvider` | | abstract: what `loadTrustProvider` promises |
| `TrustLoader` | `loadTrustProvider` on singleflight | implements `OnceProvider` |
| `TrustLoaderProofs` | | theorems about `TrustLoader`, the refinement included |
| `SigstoreVerifier` | sigstore-go's `Verify` under the options this code gives it, `roots/dhi` | no state; used by the two verifications |
| `SigstoreVerifierProofs` | | what a verdict rests on, and when there is one, for every entity; used by the proofs about both verifications |
| `RekorBundle` | `parseRekorBundle`, `anyToInt64`, `TlogEntries` | no state; used by `ImageVerification` |
| `RekorBundleProofs` | | what is read from an annotation, for every annotation; used by the proofs about `ImageVerification` |
| `SignatureKind` | `types/`, `toRootStatus`, the sections of the report | no state; used by the two verifications |
| `ImageVerification` | `VerifyImage`, `image/`, the signed entity | extends the three above |
| `ImageVerificationProofs` | | theorems about `ImageVerification` |
| `ArtifactVerification` | `VerifyArtifact`, the artifact command, `PullAttestation`, the report | extends `SigstoreVerifier` and `SignatureKind` |
| `ArtifactVerificationProofs` | | theorems about `ArtifactVerification` |
| `RegistryProvider` | `cmd/policy-helper/utils.go` | the registry that `ImageVerification` asks, as the command sees it |
| `RegistryProviderProofs` | | theorems about `RegistryProvider` |
| `MCSigstore` | | certificates and log entries for TLC |
| `MCTrustProvider`, `MCTufCache`, `MCImageVerification`, `MCArtifactVerification` | | constants for TLC |

An operator whose comment begins with "Bug:" is a mistaken variant of the
definition after it. No specification uses it; `PROJECT.json` pairs each
property with one that violates it, which shows that the property depends on
what the code does.

### TrustProvider

`th` says where each goroutine is that takes the file lock: `New(p)` for the
caller of `NewTrustProvider`, `Boot(p)` and `Tick(p)` for the updates it spawns,
`Wait(c)` for the update that the call `c` spawns when it finds an error. `pc`
says where each call of `TrustedRoot` is. A section under `tp.mu` is one step,
and so is everything the code does between two points where another goroutine
or process can see a difference. `update()`'s deferred functions run in the
order of the code: unlock first, then the error is recorded, then the result is
sent on `errCh`.

Abstractions:

* a *version* stands for a consistent set of TUF metadata, and only the
  `trusted_root.json` it names matters. `cache` is the version on disk. A file
  whose hash is the one that is named is taken to parse;
* `healthy` means that the repository answers with what it publishes and that
  the disk and the lock file can be used. While it does not hold, each request
  may fail, or be answered by a mirror with an older version (`RefreshResults`).
  go-tuf refuses one that is older than the timestamp on disk, but only if that file
  verifies under the root it has reached. It walks from the embedded root every time,
  so a mirror that withholds later roots ends it where other keys (`KeyOf`) are in
  force, and then the old version is taken. `replayed` records that this has
  happened; `TufCache` has the walk itself;
* a refresh that fails or is cut short leaves the old version or a new one
  (`AfterFailedRefresh`, an over-approximation of what the files can be);
* whether metadata on disk loads without the network is open: `NewFromCache`
  and `NewAirgapped` may or may not happen. `TufCache` decides it;
* `os.WriteFile` of the target is two steps, truncate and complete. Two writers
  at the same time may leave either content or a mixture (`Torn`).

`Crash` stops a process at any point, with the files as far as they were written.

### TufCache

All operations here hold the file lock, so there is one at a time, but a crash
may come between any two steps and inside every file that is written in place
(the files of `copyEmbeddedRoot` and the roots the fetcher keeps; go-tuf's
`persistMetadata` renames a temporary file). The repository goes through states;
state `s` has the root version `RootOf[s]` and one timestamp, snapshot and
targets file, all signed with the keys `KeyOf[RootOf[s]]`. `Expire` lets older
states and older roots expire. Keys that a root replaces stay replaced
(`KeysStayReplaced`): a repository that went back to keys it had given up would make
files from before the change acceptable again, and go-tuf, which cannot verify the
timestamp on disk with the keys of the present root, would not know how old they are.

`update()` calls `tuf.New` and `Refresh`; one refresh stands for both. `tufClientOpts`
gives the updater the embedded root, so every refresh walks through all later roots
again, whatever the cache holds. "Not found" ends the walk (`LastRootReached`), and a
mirror may say so of a root that is published. It may also send something else for the
next root, which the fetcher keeps before go-tuf refuses it (`RootRefused`); in the
chain this is `"torn"`, like a link that was cut short. Of timestamps a mirror may
serve any that was ever published. It has the snapshot and targets files that the
timestamp names; go-tuf refuses a snapshot older than the one on disk if that one
verifies (`SnapshotRefused`). A torn file gives a JSON error, which go-tuf does not
count among the errors after which it downloads the file anew, so the refresh ends
(`TornFile`).

`whole` says that the directory was completely written: by the seed, or by a refresh
that went through all the roots kept there. A refresh behind a withheld root leaves
files that the airgapped fetcher, which walks all the roots it has, does not accept;
one that follows a wrong root file leaves that file, until the repository publishes the
root of that number. Both make a start without the network fail and neither
one with it.

### TrustLoader

`flight` is singleflight's map for the one key that is used, `leader` the call a
waiting call waits for, `val` the leader's result. `NewVerifier`'s own call
(`Boot`) ends before the other calls begin. Providers are named after the call
that made them, so that two providers can be told apart. `NewTrustProvider` is one step,
which may never come.

### ImageVerification

One action per request to the registry, with everything `VerifyImage` does until
the next one. `world` says what the parsers make of each blob, and stays fixed:
blobs are known by their digest. `ReadBlob` gives the blob, fails (`NoAnswer`), or, when
the content has another digest, gives a nil slice and no error (`None`). What is read is
then parsed, and it is the parser that refuses a nil slice (`Parsed`). Lists of referrers are chosen
freely at each request from `RefLists`; `heard` records whether the registry has
told the truth, said something else, or failed.

The entity is what `SigstoreVerifier` verifies; one that comes from a cosign
annotation has the log entry `RekorBundle` reads from it.

`InGoodOrder` says, without following the code, when an image is published and signed
as it should be: one of its manifests fits, and whichever of the best ones, of their
listed attestations and of the signatures listed for these is taken, manifests refer to
each other, and the signature is `WellSigned`. `DueKind` is the kind that such an image
has. `SignedImageAccepted` is stated with them.

### SigstoreVerifier

A signature is a record of the key and of the document it is over; only who has
the key makes one. The same holds for a log's promise (over log id, index, time
and body), for its inclusion proof (over the body) and for a TSA's timestamp. On
top of that the checks of `Verify` are written as sigstore-go makes them: entries
of unknown logs and entries whose promise does not verify are *skipped*, every
other entry has to fit the entity or all fails; duplicates fail; distinct logs are
counted; a log's time counts only with a promise; the first timestamp of a TSA
counts; more entries or timestamps than the library allows (`MaxAllowedTlogEntries`,
`MaxAllowedTimestamps`) are refused. The promise is checked over canonical JSON, which
reads numbers as `float64` (`Float64`), so it covers index and time as rounded. Rekor v2
entries, hash algorithms and the identity policy (which accepts any identity here) are
left out.

`SealingLogs`, `TimeSigned` and `CertificateTrusted` say what a verdict has to rest
on without following the code's way there; the soundness properties are stated with
them. `ProperlySigned`, `ProperlyLogged`, `StampsFit` and `TimeStamped` say what a
signer, a log and a TSA have to provide; the completeness properties are stated with
those.

### RekorBundle

An annotation is what `json.Unmarshal` makes of it for each of the two shapes, with
the JSON type of every field. `anyToInt64` gives the set of possible results:
`float64` has every integer from `-MaxExact` to `MaxExact` and then every other one, and a
number outside of `int64` converts to either end, as Go leaves that to the machine.
A log id that is no hex string makes `TlogEntries` fail; protobuf's JSON, which
the newer shape looks like, has base64 there, so such an annotation is refused.

`WellWritten` and `Meant` are the writer's side: an annotation that keeps to one of the
shapes, with numbers that every reader of JSON reads alike and no zero at the top
level over something else below, and the entry that it is meant to be.

### SignatureKind

A URI is a sequence of path segments, so that "has the prefix `p/`" is "goes on
after `p`". `Name` is modelled by the parts it is put together from, the report by the
sections it has.

### ArtifactVerification

`call` is a command line with the files and the answer of GitHub it will meet, or
the arguments of another program. One step reaches to the next thing that can
fail. `panic` is a crash: GitHub's `bundle` field is dereferenced unseen, and so is
`result.Statement`, which only an envelope sets; and `rawDigest` asks a digest for its
algorithm, which panics if there is no colon in it (`NoColon`). Hex that does not decode
is an ordinary error (`Unparsable`). The command computes its digest, so only another
program can pass such ones.

`WellAsked` and `WellSigned` say when a call and its bundle are in good order:
`SignedArtifactAccepted` is about these.

### RegistryProvider

Requests come one after the other, as `VerifyImage` makes them. `Wanted` lists what
it asks for, with the fields that `ReaderAt` looks at; `Home` is where that is kept.
`rd` is a `readerAt` with its own `offset` and the stream with its true position.
The stream may be shorter or longer than the descriptor says, give any number of bytes at
a time, end with or after the last bytes, or break. `ReadBlob` is the first user of a
reader; `ReadAgain` is any other use of the same reader, which `io.ReaderAt` allows and
`ReadAt` is written for, although `ReadBlob` closes it after one use and nothing else in
the program has readers: the model allows more than the program does. Sizes are not
negative (a negative one would fail in `make`); a stream that is itself an
`io.ReaderAt`, which a fetcher does not give, is left out.

## Runs

| Run | Instance | Shows |
|---|---|---|
| `provider_together` | one process, two calls, three versions of which two name the same file and the last has new keys | an answer without error is refreshed, matches its metadata and is not older than the provider at the beginning of the call; a client is stored while it is the newest and the provider never goes back, unless an old version was replayed behind a withheld root |
| `provider_apart` | two processes, one call, three versions with the same keys | the file lock excludes; a client is stored while it is the newest; `TrustedRoot` returns, even when another process keeps the file lock for ever: only its own download can keep it |
| `provider_updating` | one process with a ticker, one call, two versions | spawned updates end though nobody reads their result; a provider recovers when the repository stays healthy; only a refresh that is never answered stops either |
| `cache` | four states, three roots, one change of keys | a complete directory starts offline until it expires; the timestamp goes back only behind a withheld root and a change of keys; only a torn file is beyond repair |
| `loader` | five calls | one provider, no race on `v.tp`, no stale error, every call returns unless `NewTrustProvider` never does, `OnceProvider` is implemented |
| `image` | eight blobs, seven lists of referrers, about 1600 worlds | an accepted image is connected with its signature by content alone; the signer, the log entry and every reported time are vouched for; the kind is earned; a failure is not reported as "unsigned"; an image in good order is accepted, with the kind that is due |
| `artifact` | about 20000 calls: bundles with up to three entries or timestamps where two are allowed, every threshold, every failure of the command | an accepted artifact is signed and logged as was asked; a panic has one of three known causes; the report fits the verdict; an artifact signed in good order is refused only for want of a trusted root |
| `registry` | blobs of two bytes, three uses of a reader, two registries and Scout | requests go where the answer is; a blob comes out whole or not at all; a reader knows its place; requests end |
| `require_online` | one process, one call | violated, see below |
| `last_updated` | one process, one call | violated, see below |
| `cache_cause` | as `cache` | violated, see below |
| `artifact_panic` | as `artifact` | violated, see below |

The bounds. Two calls are enough for every pair of a reader and a writer of the
target file, of two spawned updates and of a spawned and a boot update; two
processes for every pair across the lock; three versions for an old, a newer and
a newest client; two of them with the same file for a cached file that serves
two versions; one change of keys for a version that may be replayed and one that may
not. The other two provider runs have no change of keys: who replays, and in which
process it is noticed, makes no difference to a lock or to a deadline. Four states over three roots have a rotation that keeps the keys,
one that changes them, and two states under the last root. Five callers are a
failed first attempt, a leader with a waiter, and a leader with a waiter after
that. The worlds have images of each kind in good order (`GoodWorldsAreInOrder`
says so, and TLC evaluates it), and images with
one part of the chain wrong in every way that the code looks at, and log entries
in both shapes of annotation with numbers at zero, past `MaxExact` (5) and past
`MaxInt64` (12): the values are small, their order is the real one. Two entries
are enough for one log twice, two logs, and a good entry beside each kind of bad
one; a third entry or timestamp is one more than the instance allows. Blobs of two bytes can be read whole, in pieces, up to the middle and past
the end; the third use of a reader comes after one that broke off. `Publish`
stops at `MaxVersion` or `MaxState`, a reader is used `MaxUses` times; nothing else is bounded. Calls are not
restarted: each model value is one call.

`TrustLoader` may stop when all its calls have returned, so deadlock is not
checked there. The other specifications never stop.

Fairness. The TUF repository need not answer: the code's HTTP requests to it have no
timeout, so nothing is assumed of a download or a refresh, and the properties say what
such a request may hold up. `PatientSpec`: the goroutine of a call runs when it can,
except in its download (`WF` of `CallStep`), and the deadline is taken some time if the
loop in `wait` keeps coming to its `select` (`SF` of `WaitDone`): the context expires
after five seconds and Go's `select` chooses at random among the ready cases. Nothing is
assumed of other goroutines. `UpdatingSpec`: goroutines run when they can, except in a
refresh, the ticker ticks, and an updater that finds the file lock free again and again
gets it some time (`SF` of `Lock` with `UpdateStep`); no fairness for calls, because
a result nobody reads is the case in question. `TrustLoader`'s `FairSpec`: a goroutine
that can run does. Nothing is assumed of `NewTrustProvider`, which takes no context,
waits for the file lock without limit and makes such requests. `RegistryProvider`:
the goroutine runs, the registry answers a request and its stream goes on (`WF` of
`Step`; nothing rests on a connection that breaks). The command sets no deadline, so a registry
that never answers does hang it.

## What was found

* `require_online` (`RequireOnlineHonoured`): the flag is documented as "Require
  online TUF roots update", but a provider that cannot go online falls back on
  the cache, at the start and in every call.
* `last_updated` (`LastUpdatedReported`): the report prints when the trust root
  was last updated if the status says so, but the status that `TrustedRoot`
  returns never does.
* `cache_cause` (`FailureHasCause`): a comment names expiry as the reason for
  which the airgapped attempt can still fail. A process that stops while
  `copyEmbeddedRoot` writes a metadata file leaves a directory in which every
  later start fails, with the network up, until somebody deletes it.
* `artifact_panic` (`NoProvenanceIsAnError`): a bundle that is no provenance is
  meant to be refused with an error. One with a message signature has no statement
  at all, and `VerifyArtifact` dereferences the nil pointer; the caller panics
  unless it waived SLSA.

Other observations, within what the properties allow: `PullAttestation` panics on
an attestation whose `bundle` is null, and `VerifyArtifact` on a digest without a colon
(`PanicHasKnownCause` names all three causes); a mirror that withholds a root with new
keys can take the cache back to an older state, since later roots in the cache are not
built upon (`RollbackOnlyBehindOldRoot`); a repository that accepts a request and does
not answer holds up `TrustedRoot` and, through `NewTrustProvider`, every verification
(`CallReturns`);
with the default threshold a bundle that has an entry of a log the root does not
know is always refused, and a bundle without entries is accepted on a TSA's word
(`LogsAsAsked`); a number that is zero at the top level of an old annotation is
replaced by the one under `Payload`, which is harmless since the log's promise
covers the result (`SignerTrusted`); past 2^53 the promise covers the log index only as
`float64` has it.

## What is proved

For any sets of providers and calls, any number of versions and any assignment
of calls to providers (`ConstantsAssumption`, `NoneIsNoThread`):

* `TrustProviderProofs!TypeCorrect`: `TypeOK`.
* `LockSafe`: `MutualExclusion`.
* `CommitSafe`: `CommitIsNewest`.
* `ClientMonotone`: `ClientNeverOlder`, as an action property.
  (What these and `AnswerFresh` say of versions holds while nothing was `replayed`.)
* `AnswerRefreshed`, `AnswerFits`, `AnswerFresh`: `NoErrorMeansRefreshed`,
  `AnswerMatchesMetadata` and `AnswerNotOlderThanCall`.

The inductive invariant `IInv` adds to `TypeOK` and `MutualExclusion`:
`LifeInv` (the updaters of a process that is down are idle, an active call's
process is up, and where `NewTrustProvider` is says whether the provider is made), without which a stale goroutine
could store a client after a restart; `CommitIsNewest`, which is inductive only
together with mutual exclusion, since another updater could move `cache` between
refresh and commit; `OnlineInv` (a status with `LastUpdated` goes with a client from the
repository, and a call that has taken its client has such a one or an error);
`LowInv` (a call's `low` is at most its provider's client, and at most `snap` once it
has one), which needs that clients only grow; and `AnswerMatchesMetadata`. Each
lemma is about one part of it, with one step per action that touches the part.

For any set of callers (`LoaderAssumption`):

* `TrustLoaderProofs!TypeCorrect`: `TypeOK`.
* `LoaderRaceFree`, `LoaderOnce`, `LoaderKeeps`: `NoRace`, `OneProvider` and
  `OnceLoadedAlwaysLoaded`.
* `LoaderFresh`: `NoStaleResult`.
* `LoaderImplementsOnce`: `Spec => ImplementsOnce`. A waiting call counts as
  answered from the moment its leader is done, so `Finish` answers the leader and
  all its waiters together and `Share` stutters.

Its invariant says that the call in `flight` is the one that runs the function
(`FlightInv`, `RunInv`), that a provider once made is `tp` or about to be
(`MadeInv`, `KeptInv`), that a waiter's leader is running or done with a result
(`WaitInv`), and what results and answers can be (`AnswerInv`, `KnownInv`).

For any number of states, root versions and keys, with roots that never go back
and keys that stay replaced (`CacheAssumption`, `KeysStayReplaced`):

* `TufCacheProofs!TypeCorrect`: `TypeOK`.
* `StartsOffline`: `OfflineStart`.
* `TornFileAtFault`: `OnlyTornFilesWedge`.
* `RollbackExplained`: `RollbackOnlyBehindOldRoot`, as an action property.

The invariant has a part for each phase: `SeedInv` (there is no timestamp and no
later root before the seed is complete), `ChainInv` (the roots on disk have no
gap, none is from the future, and an updater that asks for a timestamp has walked to
the end of them if it has only the cache), `GotInv` (what a refresh has
loaded is on disk), `WholeInv` (a complete directory has three files of one state,
signed with the keys of the last root on disk) and `WedgeInv` (an attempt that gave
up without a cause met a torn file, and it is still there). `EndOfChain` joins the
two descriptions of the chain: an updater in a whole directory reaches just the root
whose keys signed the files, which is why the airgapped attempt succeeds. For
`RollbackExplained` the case that matters is a timestamp on disk that does not verify,
so that go-tuf has no floor (`AcceptedOlder`): if the updater had reached the root that
timestamp was made under, an older one would have to be signed with keys that were given
up and came back. That an old timestamp is accepted behind a withheld root is what the code
does, and no invariant excludes it.

`SigstoreVerifierProofs` has no state to argue about: `CountedLogsSealed`,
`ReportedTimesSigned`, `FulcioVerdict` and `DHIVerdict` hold for every entity, root
and option, and say that what `Verify` checks step by step gives what
`SealingLogs`, `TimeSigned` and `CertificateTrusted` ask for. `ProperVerified` is the
other direction: what is `ProperlySigned`, and logged or timestamped as the options ask,
with no more entries and timestamps than are allowed (any limits: `LimitsAssumption`), is
verified. It needs that no entry in order is skipped (`ProperEntries`) and that
there is a first time to report for a log or TSA (`LeastIndex`, from the well-founded
order of the natural numbers).

`RekorBundleProofs` is about every annotation, for any `MaxExact` below `MaxInt64`
(`FloatIsNarrower`):

* `AnnotationRead`: `TlogEntries` of one that is `WellWritten` gives exactly the entry
  that is `Meant`, in either shape, with strings or numbers, at the top level or below.
* `EntryFits`: any annotation at all gives nothing, an error, or one entry with 64-bit numbers.

For any blobs, any lists of referrers and any annotations (`WorldsAssumption`: the
descriptors of a list have digests, layers, log entries and timestamps are lists, and a
certificate has a summary with URIs that are strings, which the Go types guarantee):

* `ImageVerificationProofs!TypeCorrect`: `TypeOK`.
* `ChainSound`, `SignerSound`, `KindSound`, `UnsignedSound`: `ChainHolds`,
  `SignerTrusted`, `KindEarned` and `UnsignedWasAnswered`.
* `SignedAccepted`: `SignedImageAccepted`.

The invariant says what has been checked at each point: the links of the chain so
far (`LinkInv`), where the entity came from (`EntityInv`), the verdict (`VerdictInv`)
and that a failed request has failed the call (`HeardInv`). `KindSound` needs facts
about URIs as sequences (`UnderConcat`, `BuilderAt`): a URI under
`source + "/.github/workflows"` begins with `source`, one under a builder's has
Docker's name and the builder's in their places.

`SignedAccepted` has a second invariant on top of that, `CompleteInv`: as long as the
registry has told the truth about an image in good order, what was chosen is one of
the best images, listed attestations and listed signatures, the entity is the one that
is meant, and nothing has failed. Each request's answer is then the truth
(`TruthHeard`), so the next check is one that `InGoodOrder` promises; `AnnotationRead`
gives the entity and `ProperVerified` the verdict. That the kind is `DueKind` follows
from the verdict alone (`KindIsDue`). The theorem does not say that the call ends,
only that it does not end badly.

For any calls (`CallsAssumption`: the bundles have the fields protojson gives them,
a threshold is an integer, and the command's own digest is one):

* `ArtifactVerificationProofs!TypeCorrect`: `TypeOK`.
* `ArtifactSigned`, `ThresholdMet`, `PanicExplained`, `ReportTrue`:
  `AcceptedIsSigned`, `LogsAsAsked`, `PanicHasKnownCause` and `ReportFits`.
* `SignedAccepted`: `SignedArtifactAccepted`.

Its invariant is `LoadInv` (which bundle was loaded, for which digest), `VerdictInv` (what
`Verify` has found) and `PanicHasKnownCause`. `ThresholdMet` counts: with the default
threshold, the number of logs in the bundle, the counted logs are a subset of those
of the same size, so they are all of them. `SignedAccepted` has a `CompleteInv` again:
digest and bundle are those that the call is about, and nothing but the trusted root
has failed.

For blobs and streams of any length and any number of uses of a reader
(`BlobLenAssumption`, `MaxUsesAssumption`):

* `RegistryProviderProofs!TypeCorrect`: `TypeOK`.
* `RequestServed`, `ReadAtRight`: `HonestRequestServed` and `ReadsWhatWasAsked`.

`ReaderInv` is the heart of it: `readerAt`'s offset is its stream's position,
after every short read, seek and break, and what is in the buffer was read without
a gap. `RouteInv` says that a request goes to where its object is, `ServedInv` that
the first use of a reader asks for the whole blob and later ones leave its result alone.

Only model-checked: the liveness properties `CallReturns` (of both modules),
`SpawnedUpdateEnds`, `RecoversWhenHealthy` and `RequestReturns`, since the prover has
no rule for fairness.

## What is not modelled

* the wording of errors, logging, flags that choose nothing but output, and the
  layout of the report;
* cryptography, X.509 path building and the encodings of log entries: a signature
  is a record of who made it over what. Of sigstore-go the parts named under
  `SigstoreVerifier`;
* `Manifest.OCIManifest`, which nothing calls, and the mutex of `Manifest`;
* credentials and the closing of connections.

## Plan

Done: every component is modelled, except for what the last section names, and every
safety property is proved. What is left is out of the prover's reach (liveness) or left
out for a reason given above. When the code changes, the definitions that
`PROJECT.json` maps to the changed lines are the ones to look at first.
