------------------------------ MODULE TufCache ------------------------------
(***************************************************************************)
(* The cache directory of roots/roots.go file by file: how                 *)
(* NewTrustProvider seeds it from the embedded repository, how a refresh   *)
(* replaces one metadata file after the other, and how the airgapped       *)
(* fetcher loads a client from it without the network.                     *)
(*                                                                         *)
(* Everything here runs under the file lock (module TrustProvider), so     *)
(* there is one operation at a time; a process that stops in the middle    *)
(* leaves its files to the next.  The repository publishes states 0, 1,    *)
(* ..., each with a timestamp, a snapshot and a targets file; state 0 and  *)
(* root 0 are embedded.  The state is all that is kept of a file: it       *)
(* determines its version, its signing keys and when it expires.           *)
(***************************************************************************)
EXTENDS Naturals

CONSTANTS
    MaxState,       \* bound: the last state the repository publishes
    RootOf,         \* the version of the root in force in each state
    KeyOf,          \* the keys each root version names for the other files
    RequireOnline,  \* SigstoreRootsConfig.RequireOnline
    None,           \* no such file
    Torn            \* a partly written file

States   == 0..MaxState
LastRoot == RootOf[MaxState]
\* The root versions a mirror may answer a request for: there is always a next one.
Later    == 1..(LastRoot + 1)

ASSUME CacheAssumption ==
    /\ MaxState \in Nat
    /\ RootOf \in [States -> Nat]
    /\ RootOf[0] = 0
    /\ \A s, t \in States : s <= t => RootOf[s] <= RootOf[t]
    /\ DOMAIN KeyOf = 0..LastRoot
    /\ RequireOnline \in BOOLEAN
    /\ None \notin States /\ Torn \notin States /\ None # Torn

\* A root that replaces keys replaces them for good.
ASSUME KeysStayReplaced ==
    \A m, n, r \in 0..LastRoot : m <= n /\ n <= r /\ KeyOf[m] = KeyOf[r] => KeyOf[n] = KeyOf[r]

VARIABLES
    \* the world
    online,     \* the repository can be reached
    repo,       \* the state that is published
    expired,    \* files of states before this one have expired
    rootExpired,\* and so have root versions before this one
    \* the cache directory
    rootJson,   \* root.json exists
    file,       \* timestamp.json, snapshot.json and targets.json
    chain,      \* roots/N.root.json for each later root version N: "torn" if it
                \* is not that root, whatever else was written
    \* the operation in progress
    op,         \* NewTrustProvider or update
    pc,         \* where it is
    mode,       \* the fetcher's isOnline
    root,       \* the updater's trusted root
    got,        \* the state of its trusted timestamp
    made,       \* some NewTrustProvider has returned a provider
    \* history
    blame,      \* what went wrong outside the program during this operation
    whole       \* the last operation that wrote to the directory completed

worldVars == <<online, repo, expired, rootExpired>>
dirVars   == <<rootJson, file, chain>>
opVars    == <<op, pc, mode, root, got, made>>
vars == <<worldVars, dirVars, opVars, blame, whole>>

Roles == {"timestamp", "snapshot", "targets"}
Seeding == {"seedRoot", "seedSnapshot", "seedTargets", "seedTimestamp"}
Fetching == {"root", "timestamp", "snapshot", "targets"}

\* Type correctness.
TypeOK ==
    /\ online \in BOOLEAN
    /\ repo \in States
    /\ expired \in States
    /\ rootExpired \in 0..LastRoot
    /\ rootJson \in BOOLEAN
    /\ file \in [Roles -> States \cup {None, Torn}]
    /\ chain \in [Later -> {"none", "torn", "ok"}]
    /\ op \in {"new", "update"}
    /\ pc \in {"idle", "load", "done", "failed"} \cup Seeding \cup Fetching
    /\ mode \in {"online", "airgapped"}
    /\ root \in 0..LastRoot
    /\ got \in States \cup {None}
    /\ made \in BOOLEAN
    /\ blame \in SUBSET {"network", "disk", "expiry"}
    /\ whole \in BOOLEAN

Init ==
    /\ online \in BOOLEAN
    /\ repo = 0
    /\ expired = 0
    /\ rootExpired = 0
    /\ rootJson = FALSE
    /\ file = [r \in Roles |-> None]
    /\ chain = [n \in Later |-> "none"]
    /\ op = "new"
    /\ pc = "idle"
    /\ mode = "online"
    /\ root = 0
    /\ got = None
    /\ made = FALSE
    /\ blame = {}
    /\ whole = FALSE

-----------------------------------------------------------------------------
(* The world. *)

Publish ==
    /\ repo < MaxState
    /\ repo' = repo + 1
    /\ UNCHANGED <<online, expired, rootExpired, dirVars, opVars, blame, whole>>

NetworkChanges ==
    /\ online' = ~online
    /\ UNCHANGED <<repo, expired, rootExpired, dirVars, opVars, blame, whole>>

\* The published files never expire before they are replaced.
Expire ==
    /\ \/ expired < repo /\ expired' = expired + 1 /\ UNCHANGED rootExpired
       \/ rootExpired < RootOf[repo] /\ rootExpired' = rootExpired + 1 /\ UNCHANGED expired
    /\ UNCHANGED <<online, repo, dirVars, opVars, blame, whole>>

-----------------------------------------------------------------------------
(* NewTrustProvider up to tuf.New: the directory is seeded if root.json is absent. *)

Begin(o) ==
    /\ pc \in {"idle", "done", "failed"}
    /\ op' = o
    /\ mode' = "online"
    /\ root' = 0
    /\ got' = None
    /\ blame' = {}
    /\ UNCHANGED made

New ==
    /\ Begin("new")
    /\ pc' = IF rootJson THEN "load" ELSE "seedRoot"
    /\ UNCHANGED <<worldVars, dirVars, whole>>

\* fs.WalkDir copies in lexical order: root.json is the first file of all.
Seed(at, next, role) ==
    /\ pc = at
    /\ file' = [file EXCEPT ![role] = 0]
    /\ pc' = next
    /\ UNCHANGED <<worldVars, rootJson, chain, op, mode, root, got, made, blame>>

SeedRoot ==
    /\ pc = "seedRoot"
    /\ rootJson' = TRUE
    /\ pc' = "seedSnapshot"
    /\ whole' = FALSE
    /\ UNCHANGED <<worldVars, file, chain, op, mode, root, got, made, blame>>
SeedSnapshot  == Seed("seedSnapshot", "seedTargets", "snapshot") /\ UNCHANGED whole
SeedTargets   == Seed("seedTargets", "seedTimestamp", "targets") /\ UNCHANGED whole
SeedTimestamp == Seed("seedTimestamp", "load", "timestamp") /\ whole' = TRUE

\* DownloadFile keeps what it gets for the next root before anyone looks at it.
KeepNoRoot ==
    /\ pc = "root" /\ mode = "online" /\ online
    /\ chain' = [chain EXCEPT ![root + 1] = "torn"]
    /\ UNCHANGED <<rootJson, file>>

\* What the file being copied or kept is when that stops half way.
CutSeed(role) == file' = [file EXCEPT ![role] = Torn] /\ UNCHANGED <<rootJson, chain>>
CutWrite ==
    \/ pc = "seedRoot" /\ rootJson' = TRUE /\ UNCHANGED <<file, chain>>
    \/ pc = "seedSnapshot" /\ CutSeed("snapshot")
    \/ pc = "seedTargets" /\ CutSeed("targets")
    \/ pc = "seedTimestamp" /\ CutSeed("timestamp")
    \/ KeepNoRoot

-----------------------------------------------------------------------------
(* What is accepted. *)

\* A file of state s is signed with keys that root r names.
Signed(r, s) == KeyOf[r] = KeyOf[RootOf[s]]

\* unsafeLocalRefresh: the files on disk verify against the embedded root, name
\* each other and have not expired.
LoadsLocally ==
    LET s == file["timestamp"] IN
    /\ s \in States
    /\ file["snapshot"] = s /\ file["targets"] = s
    /\ Signed(0, s)
    /\ s >= expired /\ rootExpired = 0

\* Bug: the timestamp on disk is no bar to an older one.
FloorOfNothing == 0
\* The timestamp on disk that the updater takes as the least acceptable, if it
\* verifies under the root it has reached.
Floor ==
    LET s == file["timestamp"] IN
    IF s \in States /\ Signed(root, s) THEN s ELSE 0

-----------------------------------------------------------------------------
(* tuf.New and Refresh. *)

\* An operation ends without a client.  NewTrustProvider tries again with the
\* airgapped fetcher when the online fetcher did not get it through.
Fail(causes) ==
    /\ blame' = blame \cup causes
    /\ root' = 0
    /\ got' = None
    /\ IF op = "new" /\ mode = "online"
         THEN pc' = "load" /\ mode' = "airgapped"
         ELSE pc' = "failed" /\ UNCHANGED mode
    /\ UNCHANGED <<worldVars, op, made>>

\* loadMetadata: a cache that loads is good enough under ForceCache.
LoadCache ==
    /\ pc = "load"
    /\ LoadsLocally /\ ~RequireOnline
    /\ pc' = "done"
    /\ got' = file["timestamp"]
    /\ made' = TRUE
    /\ UNCHANGED <<worldVars, dirVars, op, mode, root, blame, whole>>

LoadRefresh ==
    /\ pc = "load"
    /\ ~(LoadsLocally /\ ~RequireOnline)
    /\ pc' = "root"
    /\ UNCHANGED <<worldVars, dirVars, op, mode, root, got, made, blame, whole>>

\* update, of whichever process: tuf.New, which refreshes too if the cache does
\* not load, and Refresh.  One refresh stands for both.
Update ==
    /\ made
    /\ Begin("update")
    /\ pc' = "root"
    /\ UNCHANGED <<worldVars, dirVars, whole>>

\* Bugs: the root chain is not kept, or kept under the wrong number.
SavedChainOffByOne(n) == [m \in 1..(n + 1) |-> IF m = n + 1 THEN "ok" ELSE chain[m]]
SavedChainForgotten(n) == chain
\* DownloadFile keeps every later root it downloads.
SavedChain(n) == [chain EXCEPT ![n] = "ok"]

\* loadRoot: one later root after the other, until there is none.
NextRoot ==
    LET n == root + 1 IN
    /\ pc = "root"
    /\ n <= LastRoot
    /\ \/ /\ mode = "online" /\ online /\ n <= RootOf[repo]
          /\ chain' = SavedChain(n)
          /\ whole' = (whole /\ chain[n] = "ok")
       \/ /\ mode = "airgapped" /\ chain[n] = "ok"
          /\ UNCHANGED <<chain, whole>>
    /\ root' = n
    /\ UNCHANGED <<worldVars, rootJson, file, op, pc, mode, got, made, blame>>

\* "Not found" ends the walk: a mirror may say so of any root, also of one that is
\* published and that the cache holds.
LastRootReached ==
    /\ pc = "root"
    /\ \/ mode = "online" /\ online
       \/ mode = "airgapped" /\ \A n \in DOMAIN chain : n = root + 1 => chain[n] = "none"
    /\ pc' = "timestamp"
    /\ UNCHANGED <<worldVars, dirVars, op, mode, root, got, made, blame, whole>>

\* The timestamps the fetcher can answer with: the present one, from a mirror
\* perhaps one before it, or offline the file on disk.
Answers == IF mode = "airgapped" THEN {file["timestamp"]} \cap States
           ELSE IF online THEN 0..repo ELSE {}

Acceptable(s) == Signed(root, s) /\ s >= Floor /\ root >= rootExpired

\* loadTimestamp.  An expired timestamp is refused here, or by loadSnapshot if it
\* is the one on disk; either way no file changes.
LoadTimestamp ==
    /\ pc = "timestamp"
    /\ file["timestamp"] # Torn
    /\ \E s \in Answers :
          /\ Acceptable(s)
          /\ s >= expired
          /\ got' = s
          /\ file' = [file EXCEPT !["timestamp"] = s]
          /\ whole' = (whole /\ file["timestamp"] = s)
    /\ pc' = "snapshot"
    /\ UNCHANGED <<worldVars, rootJson, chain, op, mode, root, made, blame>>

\* A snapshot on disk that verifies under the root in force is the least acceptable,
\* although it is not the one that is named.
SnapshotIsNewer ==
    LET s == file["snapshot"] IN s \in States /\ Signed(root, s) /\ s > got

\* loadSnapshot and loadTargets: the file on disk if it is the one that is named,
\* or else a download.
LoadFile(role, next) ==
    /\ pc = role
    /\ file[role] # Torn
    /\ got >= expired
    /\ \/ file[role] = got /\ UNCHANGED file
       \/ /\ file[role] # got
          /\ mode = "online" /\ online
          /\ file' = [file EXCEPT ![role] = got]
    /\ pc' = next
    /\ UNCHANGED <<worldVars, rootJson, chain, op, mode, root, got, blame>>

LoadSnapshot == LoadFile("snapshot", "targets") /\ ~SnapshotIsNewer /\ UNCHANGED <<whole, made>>

\* The refresh is done; it was one of the whole directory if the walk went through
\* all the roots that are kept there.
LoadTargets ==
    /\ LoadFile("targets", "done")
    /\ made' = TRUE
    /\ whole' = (whole \/ \A n \in DOMAIN chain : n > root => chain[n] = "none")

-----------------------------------------------------------------------------
(* What goes wrong. *)

\* A download fails.
NetworkError ==
    /\ pc \in Fetching
    /\ mode = "online" /\ ~online
    /\ Fail({"network"})
    /\ UNCHANGED <<dirVars, whole>>

\* What the mirror sends for the next root is not that root: refused, and kept.
RootRefused ==
    /\ KeepNoRoot
    /\ whole' = FALSE
    /\ Fail({"network"})

\* The answer is refused: a stale or wrongly signed timestamp.
AnswerRefused ==
    /\ pc = "timestamp" /\ mode = "online" /\ online
    /\ file["timestamp"] # Torn
    /\ \E s \in Answers : (s # repo \/ root # RootOf[repo]) /\ ~(Acceptable(s) /\ s >= expired)
    /\ Fail({"network"})
    /\ UNCHANGED <<dirVars, whole>>

\* The snapshot that is named is older than the one on disk.
SnapshotRefused ==
    /\ pc = "snapshot" /\ mode = "online" /\ online
    /\ SnapshotIsNewer
    /\ Fail({"network"})
    /\ UNCHANGED <<dirVars, whole>>

\* A torn metadata file is neither absent nor an invalid one to be replaced: the
\* parse error ends the refresh.
TornFile ==
    /\ pc \in Roles
    /\ file[pc] = Torn
    /\ Fail({})
    /\ UNCHANGED <<dirVars, whole>>

\* The files got too old, before or while they are loaded.  The repository publishes
\* newer ones, so online it is the mirror that does not show them.
TooOld ==
    /\ \/ pc = "timestamp" /\ root < rootExpired
       \/ pc \in {"snapshot", "targets"} /\ got < expired
       \/ /\ pc = "timestamp" /\ mode = "airgapped"
          /\ \E s \in Answers : s < expired
    /\ Fail({IF mode = "airgapped" THEN "expiry" ELSE "network"})
    /\ UNCHANGED <<dirVars, whole>>

\* Bug: a file that is missing on disk is an error online too.
OnlyCacheAlways == TRUE
\* There is nothing but the cache to get a file from.
OnlyCache == mode = "airgapped"

\* Offline: the chain is torn, a file is missing, or the three do not fit.
NotInCache ==
    /\ OnlyCache
    /\ \/ pc = "root" /\ chain[root + 1] = "torn"
       \/ pc = "timestamp" /\ ~ \E s \in Answers : Signed(root, s)
       \/ pc \in {"snapshot", "targets"} /\ file[pc] \notin {got, Torn}
    /\ Fail({})
    /\ UNCHANGED <<dirVars, whole>>

\* The disk is full: copyEmbeddedRoot or the fetcher returns an error, and the
\* file is left as far as it got.  persistMetadata leaves the old file.
DiskError ==
    /\ \/ CutWrite /\ whole' = FALSE
       \/ pc \in Fetching /\ UNCHANGED <<dirVars, whole>>
    /\ IF pc \in Fetching THEN Fail({"disk"})
       ELSE /\ pc' = "failed"
            /\ blame' = blame \cup {"disk"}
            /\ UNCHANGED <<worldVars, op, mode, root, got, made>>

\* The process stops, perhaps half way through a file.
Crash ==
    /\ pc \notin {"idle", "done", "failed"}
    /\ \/ CutWrite /\ whole' = FALSE
       \/ UNCHANGED <<dirVars, whole>>
    /\ pc' = "idle"
    /\ root' = 0
    /\ got' = None
    /\ mode' = "online"
    /\ UNCHANGED <<worldVars, op, made, blame>>

Step ==
    \/ SeedRoot \/ SeedSnapshot \/ SeedTargets \/ SeedTimestamp
    \/ LoadCache \/ LoadRefresh
    \/ NextRoot \/ LastRootReached
    \/ LoadTimestamp \/ LoadSnapshot \/ LoadTargets
    \/ NetworkError \/ RootRefused \/ AnswerRefused \/ SnapshotRefused
    \/ TornFile \/ TooOld \/ NotInCache

Next ==
    \/ Publish \/ NetworkChanges \/ Expire
    \/ New \/ Update
    \/ Step
    \/ DiskError \/ Crash

Spec == Init /\ [][Next]_vars

-----------------------------------------------------------------------------
(* What must hold. *)

\* A directory that was completely written (by the seed, or by a refresh that went
\* through all the roots kept in it) is enough to start without the network, also
\* after root rotations, until its files expire or cannot be read: the reason for
\* airgappedFetcher and for keeping the root chain.
OfflineStart ==
    pc = "failed" /\ op = "new" /\ whole => blame \cap {"expiry", "disk"} # {}

\* The step puts an older timestamp in the place of the one on disk.
GoesBack ==
    /\ file["timestamp"] \in States /\ file'["timestamp"] \in States
    /\ file'["timestamp"] < file["timestamp"]

\* The timestamp on disk is replaced by an older one in one case only: every refresh
\* walks from the embedded root again, the mirror ended the walk before the root that
\* timestamp was made under, and the keys were replaced in between, so that it does
\* not verify.  A crash, a full disk, a lagging mirror or a torn file is not enough.
RollbackOnlyBehindOldRoot ==
    [][GoesBack => /\ mode = "online"
                   /\ root < RootOf[file["timestamp"]]
                   /\ ~Signed(root, file["timestamp"])]_vars

\* An operation that fails although network, disk and expiry dates are in order
\* met a torn metadata file: missing files and files of different states heal.
OnlyTornFilesWedge ==
    pc = "failed" /\ blame = {} => \E r \in Roles : file[r] = Torn

-----------------------------------------------------------------------------
(* What a comment says and the code does not do. *)

\* "this can still fail if the last root or timestamps file has expired": an
\* operation fails only for such a cause, or when network or disk failed it.
FailureHasCause == pc = "failed" => blame # {}
=============================================================================
