--------------------------- MODULE TrustProvider ---------------------------
(***************************************************************************)
(* roots/roots.go: the provider of the Sigstore trusted root.              *)
(*                                                                         *)
(* A process that verifies signatures makes a TrustProvider with           *)
(* NewTrustProvider and asks it for the trusted root with TrustedRoot.     *)
(* Behind both stands update(), which runs in goroutines: once after the   *)
(* provider is made, at every tick of UpdateInterval, and once for every   *)
(* TrustedRoot call that finds the provider in error.  Providers of        *)
(* several processes share one cache directory: the metadata in it is      *)
(* guarded by a file lock, the target file trusted_root.json is not.       *)
(*                                                                         *)
(* A trust-root repository publishes successive versions of its metadata;  *)
(* version 0 is the one embedded in the program.  What a version contains  *)
(* matters only through the content of trusted_root.json that it names     *)
(* (TargetOf) and the keys it is signed with (KeyOf).  Sections guarded by *)
(* tp.mu are single steps.  Whether the files in the cache can be loaded   *)
(* without the network is left open here (module TufCache decides it).     *)
(***************************************************************************)
EXTENDS Naturals

CONSTANTS
    Providers,      \* the TrustProvider instances that share a cache path
    Calls,          \* calls of TrustedRoot
    Home,           \* the provider each call is made on
    MaxVersion,     \* bound: the last version the repository publishes
    TargetOf,       \* the content of trusted_root.json named by each version
    KeyOf,          \* the keys each version is signed with
    RequireOnline,  \* SigstoreRootsConfig.RequireOnline
    Ticking,        \* SigstoreRootsConfig.UpdateInterval > 0
    None,           \* nobody holds the file lock; no file; no data
    Torn            \* a partly written target file

Versions == 0..MaxVersion
Contents == {TargetOf[v] : v \in Versions}

ASSUME ConstantsAssumption ==
    /\ Home \in [Calls -> Providers]
    /\ MaxVersion \in Nat
    /\ DOMAIN TargetOf = Versions
    /\ DOMAIN KeyOf = Versions
    /\ RequireOnline \in BOOLEAN
    /\ Ticking \in BOOLEAN
    /\ None \notin Contents
    /\ Torn \notin Contents
    /\ None # Torn

\* The goroutines that take the file lock: the caller of NewTrustProvider, the
\* update it spawns, the ticker's update, and the update a waiting call spawns.
New(p)  == <<"new", p>>
Boot(p) == <<"boot", p>>
Tick(p) == <<"tick", p>>
Wait(c) == <<"wait", c>>

News     == {New(p) : p \in Providers}
Waits    == {Wait(c) : c \in Calls}
Updaters == {Boot(p) : p \in Providers} \cup {Tick(p) : p \in Providers} \cup Waits
Threads  == News \cup Updaters

ASSUME NoneIsNoThread == None \notin Threads

\* The calls made on provider p, and the goroutines of its process.
CallsOf(p)   == {c \in Calls : Home[c] = p}
ThreadsOf(p) == {New(p), Boot(p), Tick(p)} \cup {Wait(c) : c \in CallsOf(p)}

\* The provider whose update() a goroutine runs.
ProviderOf(t) == IF t \in Waits THEN Home[t[2]] ELSE t[2]

VARIABLES
    \* the environment
    healthy,    \* repository reachable and current, cache directory usable
    repo,       \* the version the repository publishes
    \* the cache directory
    seeded,     \* root.json exists
    cache,      \* the version of the metadata files
    target,     \* targets/trusted_root.json
    flock,      \* the goroutine that holds .lock
    \* the processes
    th,         \* where each goroutine is
    cver,       \* the version of the client each update() has built
    prov,       \* is the provider made, and has NewTrustProvider returned
    client,     \* tp.client: its metadata version, and where it has it from
    status,     \* tp.status
    \* the calls of TrustedRoot
    pc,         \* where each call is
    first,      \* wait's variable first
    errch,      \* wait's channel errCh, of capacity one
    st,         \* the Status that TrustedRoot returns
    snap,       \* the client the call uses
    data,       \* the content the call returns
    \* history
    low,        \* tp.client's version when the call began
    replayed    \* the metadata on disk went back, behind a root that was withheld

envVars   == <<healthy, repo>>
cacheVars == <<cache, replayed>>
diskVars  == <<seeded, cacheVars, target>>
procVars == <<prov, client, status>>
callVars == <<pc, first, errch, st, snap, data, low>>
vars == <<envVars, diskVars, flock, th, cver, procVars, callVars>>

Client == [ver : Versions, from : {"cache", "repo"}]
Status == [err : {"nil", "err"}, updated : {"nil", "set"}]

NewPCs    == {"idle", "lock", "seed", "load", "unlock", "unlockErr"}
UpdatePCs == {"idle", "lock", "refresh", "commit", "unlock", "unlockErr", "fail",
              "sendNil", "sendErr"}
Active    == {"poll", "select", "fallback", "get", "download", "write", "mix"}
Ended     == {"done", "failed", "crashed"}

EnvType ==
    /\ healthy \in BOOLEAN
    /\ repo \in Versions
DiskType ==
    /\ seeded \in BOOLEAN
    /\ cache \in Versions
    /\ replayed \in BOOLEAN
    /\ target \in Contents \cup {None, Torn}
ThreadType ==
    /\ flock \in Threads \cup {None}
    /\ th \in [Threads -> NewPCs \cup UpdatePCs]
    /\ cver \in [Updaters -> Versions]
ProviderType ==
    /\ prov \in [Providers -> {"down", "made", "up"}]
    /\ client \in [Providers -> Client]
    /\ status \in [Providers -> Status]
WaitType ==
    /\ pc \in [Calls -> {"idle"} \cup Active \cup Ended]
    /\ first \in [Calls -> BOOLEAN]
    /\ errch \in [Calls -> {"empty", "nil", "err"}]
    /\ st \in [Calls -> Status]
AnswerType ==
    /\ snap \in [Calls -> Client]
    /\ data \in [Calls -> Contents \cup {None}]
    /\ low \in [Calls -> Versions]

\* Type correctness.
TypeOK == EnvType /\ DiskType /\ ThreadType /\ ProviderType /\ WaitType /\ AnswerType

NoClient == [ver |-> 0, from |-> "cache"]
NoStatus == [err |-> "nil", updated |-> "nil"]

Init ==
    /\ healthy \in BOOLEAN
    /\ repo = 0
    /\ seeded = FALSE
    /\ cache = 0
    /\ replayed = FALSE
    /\ target = None
    /\ flock = None
    /\ th = [t \in Threads |-> "idle"]
    /\ cver = [t \in Updaters |-> 0]
    /\ prov = [p \in Providers |-> "down"]
    /\ client = [p \in Providers |-> NoClient]
    /\ status = [p \in Providers |-> NoStatus]
    /\ pc = [c \in Calls |-> "idle"]
    /\ first = [c \in Calls |-> TRUE]
    /\ errch = [c \in Calls |-> "empty"]
    /\ st = [c \in Calls |-> NoStatus]
    /\ snap = [c \in Calls |-> NoClient]
    /\ data = [c \in Calls |-> None]
    /\ low = [c \in Calls |-> 0]

-----------------------------------------------------------------------------
(* The environment. *)

Publish ==
    /\ repo < MaxVersion
    /\ repo' = repo + 1
    /\ UNCHANGED <<healthy, diskVars, flock, th, cver, procVars, callVars>>

HealthChanges ==
    /\ healthy' = ~healthy
    /\ UNCHANGED <<repo, diskVars, flock, th, cver, procVars, callVars>>

\* Bug: the timestamp on disk is not looked at.
RefreshResultsUnchecked == IF healthy THEN {repo} ELSE 0..repo

\* The versions a refresh can end with.  A healthy repository serves the current
\* one.  An unhealthy one may still answer, with any version it ever published.  The
\* updater refuses one older than the timestamp on disk if that verifies under the
\* root it has reached; it begins at the embedded root every time, and a repository
\* that withholds later roots ends it where other keys are in force.
RefreshResults ==
    {v \in (IF healthy THEN {repo} ELSE 0..repo) : v >= cache \/ KeyOf[v] # KeyOf[cache]}

\* The versions on disk after a refresh that failed or was cut short.  update()
\* may refresh twice, in tuf.New and in Refresh, so one of two can have completed.
AfterFailedRefresh == {cache} \cup RefreshResults

\* The metadata files are replaced by those of version v.
CacheBecomes(v) ==
    /\ cache' = v
    /\ replayed' = (replayed \/ (v < cache /\ KeyOf[v] # KeyOf[cache]))

-----------------------------------------------------------------------------
(* The file lock: tp.lock and the deferred unlock. *)

\* Bug: the lock call does not wait for the holder.
CanLockShared(t) == th[t] = "lock"
\* flock.Lock waits until nobody has the lock.
CanLock(t) == th[t] = "lock" /\ flock = None

Lock(t) ==
    /\ CanLock(t)
    /\ flock' = t
    /\ th' = [th EXCEPT ![t] = IF t \in News THEN "seed" ELSE "refresh"]
    /\ UNCHANGED <<envVars, diskVars, cver, procVars, callVars>>

LockError(t) ==
    /\ th[t] = "lock"
    /\ ~healthy
    /\ th' = [th EXCEPT ![t] = IF t \in News THEN "idle" ELSE "fail"]
    /\ UNCHANGED <<envVars, diskVars, flock, cver, procVars, callVars>>

-----------------------------------------------------------------------------
(* NewTrustProvider, called again after a failure by Verifier. *)

NewTrustProvider(p) ==
    /\ prov[p] = "down"
    /\ th[New(p)] = "idle"
    /\ th' = [th EXCEPT ![New(p)] = "lock"]
    /\ UNCHANGED <<envVars, diskVars, flock, cver, procVars, callVars>>

\* The embedded files are copied only when root.json does not exist.
CopyEmbeddedRoot(p) ==
    /\ th[New(p)] = "seed"
    /\ th' = [th EXCEPT ![New(p)] = "load"]
    /\ seeded' = TRUE
    /\ target' = IF seeded THEN target ELSE TargetOf[0]
    /\ UNCHANGED <<envVars, cacheVars, flock, cver, procVars, callVars>>

\* What a copy leaves on disk when it fails or is cut short.
CutCopy ==
    \/ UNCHANGED <<seeded, target>>
    \/ /\ ~seeded
       /\ seeded' = TRUE
       /\ target' \in {target, Torn, TargetOf[0]}

CopyEmbeddedRootError(p) ==
    /\ th[New(p)] = "seed"
    /\ ~healthy
    /\ CutCopy
    /\ th' = [th EXCEPT ![New(p)] = "unlockErr"]
    /\ UNCHANGED <<envVars, cacheVars, flock, cver, procVars, callVars>>

\* The end of NewTrustProvider: the client is stored and the update goroutines
\* are spawned, before the deferred unlock.
Made(p, c) ==
    /\ client' = [client EXCEPT ![p] = c]
    /\ prov' = [prov EXCEPT ![p] = "made"]
    /\ th' = [th EXCEPT ![New(p)] = "unlock", ![Boot(p)] = "lock"]
    /\ UNCHANGED <<envVars, seeded, target, flock, cver, status, callVars>>

\* tuf.New with ForceCache is content with metadata that loads from disk.
NewFromCache(p) ==
    /\ th[New(p)] = "load"
    /\ ~RequireOnline
    /\ Made(p, [ver |-> cache, from |-> "cache"])
    /\ UNCHANGED cacheVars

\* Otherwise it refreshes, and so does it when the cache does not load.
NewOnline(p) ==
    /\ th[New(p)] = "load"
    /\ \E v \in RefreshResults :
          /\ CacheBecomes(v)
          /\ Made(p, [ver |-> v, from |-> "repo"])

\* The refresh failed; the airgapped fetcher answers from the cache.
NewAirgapped(p) ==
    /\ th[New(p)] = "load"
    /\ ~healthy
    /\ Made(p, [ver |-> cache, from |-> "cache"])
    /\ UNCHANGED cacheVars

\* Both failed.  The refresh may have replaced some files before it did.
NewError(p) ==
    /\ th[New(p)] = "load"
    /\ ~healthy
    /\ \E v \in AfterFailedRefresh : CacheBecomes(v)
    /\ th' = [th EXCEPT ![New(p)] = "unlockErr"]
    /\ UNCHANGED <<envVars, seeded, target, flock, cver, procVars, callVars>>

\* NewTrustProvider returns, with or without a provider.
NewReturn(p) ==
    /\ th[New(p)] \in {"unlock", "unlockErr"}
    /\ flock' = None
    /\ th' = [th EXCEPT ![New(p)] = "idle"]
    /\ prov' = [prov EXCEPT ![p] = IF th[New(p)] = "unlock" THEN "up" ELSE "down"]
    /\ UNCHANGED <<envVars, diskVars, cver, client, status, callVars>>

\* The ticker fires; a tick that finds the last update running is dropped.
TickerFires(p) ==
    /\ Ticking
    /\ prov[p] # "down"
    /\ th[Tick(p)] = "idle"
    /\ th' = [th EXCEPT ![Tick(p)] = "lock"]
    /\ UNCHANGED <<envVars, diskVars, flock, cver, procVars, callVars>>

-----------------------------------------------------------------------------
(* update *)

\* tuf.New and Refresh, under the file lock.
UpdateRefresh(t) ==
    /\ th[t] = "refresh"
    /\ \E v \in RefreshResults :
          /\ CacheBecomes(v)
          /\ cver' = [cver EXCEPT ![t] = v]
    /\ th' = [th EXCEPT ![t] = "commit"]
    /\ UNCHANGED <<envVars, seeded, target, flock, procVars, callVars>>

UpdateRefreshError(t) ==
    /\ th[t] = "refresh"
    /\ ~healthy
    /\ \E v \in AfterFailedRefresh : CacheBecomes(v)
    /\ th' = [th EXCEPT ![t] = "unlockErr"]
    /\ UNCHANGED <<envVars, seeded, target, flock, cver, procVars, callVars>>

\* Bug: the error of an earlier update is kept.
UpdatedKeepsError(s) == [s EXCEPT !.updated = "set"]
Updated(s) == [err |-> "nil", updated |-> "set"]

\* The new client and a clean status are stored while the file lock is held.
UpdateCommit(t) ==
    /\ th[t] = "commit"
    /\ status' = [status EXCEPT ![ProviderOf(t)] = Updated(status[ProviderOf(t)])]
    /\ client' = [client EXCEPT ![ProviderOf(t)] = [ver |-> cver[t], from |-> "repo"]]
    /\ cver' = [cver EXCEPT ![t] = 0]
    /\ th' = [th EXCEPT ![t] = "unlock"]
    /\ UNCHANGED <<envVars, diskVars, flock, prov, callVars>>

\* The deferred unlock runs before the deferred closure that records the error.
UpdateUnlock(t) ==
    /\ th[t] \in {"unlock", "unlockErr"}
    /\ flock' = None
    /\ th' = [th EXCEPT ![t] = CASE th[t] = "unlockErr" -> "fail"
                                 [] t \in Waits         -> "sendNil"
                                 [] OTHER               -> "idle"]
    /\ UNCHANGED <<envVars, diskVars, cver, procVars, callVars>>

UpdateSetError(t) ==
    /\ th[t] = "fail"
    /\ status' = [status EXCEPT ![ProviderOf(t)].err = "err"]
    /\ th' = [th EXCEPT ![t] = IF t \in Waits THEN "sendErr" ELSE "idle"]
    /\ UNCHANGED <<envVars, diskVars, flock, cver, prov, client, callVars>>

\* Bug: an unbuffered channel, which needs the call at its select.
CanSendUnbuffered(c) == errch[c] = "empty" /\ pc[c] = "select"
\* The channel has room for one result.
CanSend(c) == errch[c] = "empty"

\* errCh <- tp.update() in the goroutine a waiting call spawned.
WaitSend(c) ==
    /\ th[Wait(c)] \in {"sendNil", "sendErr"}
    /\ CanSend(c)
    /\ errch' = [errch EXCEPT ![c] = IF th[Wait(c)] = "sendNil" THEN "nil" ELSE "err"]
    /\ th' = [th EXCEPT ![Wait(c)] = "idle"]
    /\ UNCHANGED <<envVars, diskVars, flock, cver, procVars, pc, first, st, snap, data, low>>

-----------------------------------------------------------------------------
(* TrustedRoot and wait *)

TrustedRoot(c) ==
    /\ pc[c] = "idle"
    /\ prov[Home[c]] = "up"
    /\ pc' = [pc EXCEPT ![c] = "poll"]
    /\ low' = [low EXCEPT ![c] = client[Home[c]].ver]
    /\ UNCHANGED <<envVars, diskVars, flock, th, cver, procVars,
                   first, errch, st, snap, data>>

\* Bug: the absence of an error is taken for an update.
CleanIgnoringLastUpdated(s) == s.err = "nil"
\* wait's condition for returning the client.
Clean(s) == s.updated # "nil" /\ s.err = "nil"

\* One turn of wait's loop: status and client are read together.
WaitPoll(c) ==
    LET p == Home[c] IN
    /\ pc[c] = "poll"
    /\ \/ /\ Clean(status[p])
          /\ snap' = [snap EXCEPT ![c] = client[p]]
          /\ pc' = [pc EXCEPT ![c] = "get"]
          /\ UNCHANGED <<th, first>>
       \/ /\ ~Clean(status[p])
          /\ status[p].err # "nil" /\ first[c]
          /\ th' = [th EXCEPT ![Wait(c)] = "lock"]
          /\ first' = [first EXCEPT ![c] = FALSE]
          /\ pc' = [pc EXCEPT ![c] = "select"]
          /\ UNCHANGED snap
       \/ /\ ~Clean(status[p])
          /\ ~(status[p].err # "nil" /\ first[c])
          /\ pc' = [pc EXCEPT ![c] = "select"]
          /\ UNCHANGED <<th, first, snap>>
    /\ UNCHANGED <<envVars, diskVars, flock, cver, procVars, errch, st, data, low>>

\* The spawned update's result arrives.
WaitReceive(c) ==
    /\ pc[c] = "select"
    /\ errch[c] # "empty"
    /\ pc' = [pc EXCEPT ![c] = IF errch[c] = "nil" THEN "poll" ELSE "fallback"]
    /\ st' = [st EXCEPT ![c].err = errch[c]]
    /\ errch' = [errch EXCEPT ![c] = "empty"]
    /\ UNCHANGED <<envVars, diskVars, flock, th, cver, procVars, first, snap, data, low>>

\* Bug: the select has no case for the context.
WaitDoneForgotten(c) == pc[c] = "select" /\ FALSE /\ UNCHANGED vars

\* The five seconds are over, or the caller cancelled.
WaitDone(c) ==
    /\ pc[c] = "select"
    /\ pc' = [pc EXCEPT ![c] = "fallback"]
    /\ st' = [st EXCEPT ![c].err = "err"]
    /\ UNCHANGED <<envVars, diskVars, flock, th, cver, procVars, first, errch, snap, data, low>>

\* time.After(100ms)
WaitTimer(c) ==
    /\ pc[c] = "select"
    /\ pc' = [pc EXCEPT ![c] = "poll"]
    /\ UNCHANGED <<envVars, diskVars, flock, th, cver, procVars,
                   first, errch, st, snap, data, low>>

\* wait failed: the provider's present client is used all the same.
TrustedRootFallback(c) ==
    /\ pc[c] = "fallback"
    /\ snap' = [snap EXCEPT ![c] = client[Home[c]]]
    /\ pc' = [pc EXCEPT ![c] = "get"]
    /\ UNCHANGED <<envVars, diskVars, flock, th, cver, procVars,
                   first, errch, st, data, low>>

-----------------------------------------------------------------------------
(* GetTarget, without the file lock. *)

\* Bug: the cached file is not checked against the metadata.
CachedAnything(f, v) == f # None
\* The file is there and has the length and hashes that version v names.
Cached(f, v) == f = TargetOf[v]

FindCachedTarget(c) ==
    /\ pc[c] = "get"
    /\ IF Cached(target, snap[c].ver)
         THEN /\ pc' = [pc EXCEPT ![c] = "done"]
              /\ data' = [data EXCEPT ![c] = target]
         ELSE /\ pc' = [pc EXCEPT ![c] = "download"]
              /\ UNCHANGED data
    /\ UNCHANGED <<envVars, diskVars, flock, th, cver, procVars,
                   first, errch, st, snap, low>>

Writing == {"write", "mix"}

\* The downloaded target passed its hash check; os.WriteFile truncates the
\* file.  Two calls may be writing at once.
DownloadTarget(c) ==
    LET others == {d \in Calls : pc[d] \in Writing} IN
    /\ pc[c] = "download"
    /\ target' = Torn
    /\ pc' = [d \in Calls |-> IF d = c THEN (IF others = {} THEN "write" ELSE "mix")
                              ELSE IF d \in others THEN "mix" ELSE pc[d]]
    /\ UNCHANGED <<envVars, seeded, cacheVars, flock, th, cver, procVars,
                   first, errch, st, snap, data, low>>

\* The file is complete, unless another call wrote it in the same time.
WriteTarget(c) ==
    LET content == TargetOf[snap[c].ver] IN
    /\ pc[c] \in Writing
    /\ target' \in IF pc[c] = "mix" THEN {content, Torn} ELSE {content}
    /\ data' = [data EXCEPT ![c] = content]
    /\ pc' = [pc EXCEPT ![c] = "done"]
    /\ UNCHANGED <<envVars, seeded, cacheVars, flock, th, cver, procVars,
                   first, errch, st, snap, low>>

\* The download or the write fails, and with it the call.
GetTargetError(c) ==
    /\ pc[c] \in {"download"} \cup Writing
    /\ ~healthy
    /\ pc' = [pc EXCEPT ![c] = "failed"]
    /\ snap' = [snap EXCEPT ![c] = NoClient]
    /\ low' = [low EXCEPT ![c] = 0]
    /\ UNCHANGED <<envVars, diskVars, flock, th, cver, procVars, first, errch, st, data>>

-----------------------------------------------------------------------------
(* The process of provider p stops, at any point of what it is doing.  What it *)
(* had in memory is gone; its calls end without an answer.                    *)

\* f with every element of S set back to d.
Lost(f, S, d) == [x \in DOMAIN f |-> IF x \in S THEN d ELSE f[x]]

Crash(p) ==
    LET cut == {c \in CallsOf(p) : pc[c] \in Active} IN
    /\ prov[p] # "down" \/ th[New(p)] # "idle"
    /\ prov' = [prov EXCEPT ![p] = "down"]
    /\ client' = [client EXCEPT ![p] = NoClient]
    /\ status' = [status EXCEPT ![p] = NoStatus]
    /\ th' = Lost(th, ThreadsOf(p), "idle")
    /\ cver' = Lost(cver, ThreadsOf(p), 0)
    /\ flock' = IF flock \in ThreadsOf(p) THEN None ELSE flock
    /\ IF th[New(p)] = "seed" THEN CutCopy ELSE UNCHANGED <<seeded, target>>
    /\ IF \E t \in ThreadsOf(p) : th[t] \in {"load", "refresh"}
         THEN \E v \in AfterFailedRefresh : CacheBecomes(v)
         ELSE UNCHANGED cacheVars
    /\ pc' = Lost(pc, cut, "crashed")
    /\ first' = Lost(first, CallsOf(p), TRUE)
    /\ errch' = Lost(errch, CallsOf(p), "empty")
    /\ st' = Lost(st, cut, NoStatus)
    /\ snap' = Lost(snap, cut, NoClient)
    /\ low' = Lost(low, cut, 0)
    /\ UNCHANGED <<envVars, data>>

-----------------------------------------------------------------------------
UpdateStep(t) ==
    \/ UpdateRefresh(t)
    \/ UpdateRefreshError(t)
    \/ UpdateCommit(t)
    \/ UpdateUnlock(t)
    \/ UpdateSetError(t)

NewStep(p) ==
    \/ CopyEmbeddedRoot(p)
    \/ CopyEmbeddedRootError(p)
    \/ NewFromCache(p)
    \/ NewOnline(p)
    \/ NewAirgapped(p)
    \/ NewError(p)
    \/ NewReturn(p)

\* The steps that a call takes by itself, but for the end of its patience.
CallStep(c) ==
    \/ WaitPoll(c)
    \/ WaitReceive(c)
    \/ WaitTimer(c)
    \/ TrustedRootFallback(c)
    \/ FindCachedTarget(c)
    \/ DownloadTarget(c)
    \/ WriteTarget(c)
    \/ GetTargetError(c)

Next ==
    \/ Publish
    \/ HealthChanges
    \/ \E t \in Threads : Lock(t) \/ LockError(t)
    \/ \E p \in Providers : NewTrustProvider(p) \/ NewStep(p) \/ TickerFires(p) \/ Crash(p)
    \/ \E t \in Updaters : UpdateStep(t)
    \/ \E c \in Calls : TrustedRoot(c) \/ CallStep(c) \/ WaitDone(c) \/ WaitSend(c)

Spec == Init /\ [][Next]_vars

-----------------------------------------------------------------------------
(* What must hold. *)

\* Steps under the file lock exclude each other across all goroutines of all
\* processes (tp.lock), so at most one of them is between loading the metadata
\* on disk and storing a client made from it.
Locked == {"seed", "load", "refresh", "commit", "unlock", "unlockErr"}
MutualExclusion == \A t \in Threads : th[t] \in Locked => flock = t

\* A client about to be stored is the newest that any process has: it has the
\* version on disk, and no provider's client is ahead of the disk, unless the
\* repository replayed an old version behind a root it withheld.  That update()
\* stores the client before it releases the file lock is what this is about.
CommitIsNewest ==
    /\ \A t \in Updaters : th[t] = "commit" => cver[t] = cache
    /\ ~replayed => \A p \in Providers : prov[p] # "down" => client[p].ver <= cache

\* While a process lives its provider never goes back to older metadata, however
\* the boot update, the ticker and the updates of waiting calls interleave: only a
\* repository that withholds a root can take it back, never an order of steps.
ClientNeverOlder ==
    [][~replayed => \A p \in Providers :
          prov[p] # "down" /\ prov'[p] # "down" => client'[p].ver >= client[p].ver]_vars

\* An answer that carries no error was made with metadata that was refreshed
\* from the repository: neither the embedded metadata nor what NewTrustProvider
\* found on disk is passed off as current.
NoErrorMeansRefreshed ==
    \A c \in Calls : pc[c] = "done" /\ st[c].err = "nil" => snap[c].from = "repo"

\* The trusted root that is returned is the one the client's metadata names,
\* although trusted_root.json is read and written without the file lock.
AnswerMatchesMetadata ==
    \A c \in Calls : pc[c] = "done" => data[c] = TargetOf[snap[c].ver]

\* A call never answers from older metadata than its provider had when the call
\* began, also when it falls back after an error or a timeout, unless the repository
\* replayed an old version behind a root it withheld.
AnswerNotOlderThanCall ==
    ~replayed => \A c \in Calls : pc[c] = "done" => snap[c].ver >= low[c]

-----------------------------------------------------------------------------
(* Fairness.  A goroutine that can run does.  select chooses at random among    *)
(* the ready cases, so a context that is done wins some turn of wait's loop.    *)
(* The kernel gives the file lock to a waiter again and again.  Nothing is      *)
(* assumed of the repository: the HTTP client has no timeout and none of its    *)
(* users a deadline, so a request that is not answered may stay open for ever,  *)
(* in GetTarget as in a refresh.                                                *)

CallFairness ==
    \A c \in Calls : WF_vars(pc[c] # "download" /\ CallStep(c)) /\ SF_vars(WaitDone(c))

UpdateFairness ==
    /\ \A p \in Providers : WF_vars(th[New(p)] # "load" /\ NewStep(p)) /\ WF_vars(TickerFires(p))
    /\ \A t \in Updaters : SF_vars(th[t] # "refresh" /\ (Lock(t) \/ UpdateStep(t)))
    /\ \A c \in Calls : WF_vars(WaitSend(c))

\* Only the calls' own goroutines are fair: a process that stops for ever with
\* the file lock in its hands is a behaviour of this specification.
PatientSpec == Spec /\ CallFairness

\* Only the updates are fair: a call may never look at its channel again.
UpdatingSpec == Spec /\ UpdateFairness

\* A refresh is under way.
Refreshing == \E t \in Threads : th[t] \in {"load", "refresh"}

\* TrustedRoot returns, whatever the other goroutines and processes do: the deadline
\* of five seconds ends wait even when nobody releases the file lock.  The one thing
\* that can keep it is its own download of the target, which has no deadline.
CallReturns ==
    \A c \in Calls : (pc[c] \in Active ~> pc[c] \in Ended) \/ <>[](pc[c] = "download")

\* The update that a waiting call spawned comes to its end, also when the call gave up
\* waiting for it: it gets the file lock, and errCh has room for the result.  Only a
\* refresh that is never answered, its own or that of the lock's holder, keeps it.
SpawnedUpdateEnds ==
    \A c \in Calls : (th[Wait(c)] # "idle" ~> th[Wait(c)] = "idle") \/ <>[]Refreshing

\* When the repository stays reachable and the process stays up, a provider with
\* an update interval ends with a clean status and the published version, or with a
\* refresh that is never answered.
RecoversWhenHealthy ==
    \A p \in Providers :
        <>[](healthy /\ prov[p] = "up")
            => <>[](Clean(status[p]) /\ client[p].ver = repo) \/ <>[]Refreshing

-----------------------------------------------------------------------------
(* What the documentation says and the code does not do. *)

\* The flag for RequireOnline is documented as "Require online TUF roots
\* update": an answer is then always made with a refreshed client.
RequireOnlineHonoured ==
    RequireOnline => \A c \in Calls : pc[c] = "done" => snap[c].from = "repo"

\* The report prints "Using trust root last updated at" below the warning that
\* the latest root could not be fetched: a call that falls back on a provider
\* with a LastUpdated returns it in the status.
LastUpdatedReported ==
    [][\A c \in Calls :
          pc[c] = "fallback" /\ pc'[c] = "get" /\ status[Home[c]].updated # "nil"
              => st'[c].updated # "nil"]_vars
=============================================================================
