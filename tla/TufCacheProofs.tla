--------------------------- MODULE TufCacheProofs ---------------------------
(***************************************************************************)
(* Proofs about TufCache for any number of states and root versions and    *)
(* any keys: what a crash, a full disk, a mirror and the network can do to *)
(* the cache directory, and what a complete directory is good for.         *)
(***************************************************************************)
EXTENDS TufCache, TLAPS

-----------------------------------------------------------------------------
(* The inductive invariant. *)

\* The steps of a refresh after the root chain.
Metadata == {"timestamp", "snapshot", "targets"}

\* Nothing is in the directory before root.json; while it is seeded there are no
\* later roots and no timestamp, which comes last.
SeedInv ==
    /\ made => rootJson
    /\ ~rootJson => pc \in {"idle", "failed", "seedRoot"}
    /\ ~rootJson \/ pc \in Seeding =>
          /\ ~whole
          /\ file["timestamp"] = None
          /\ \A n \in Later : chain[n] = "none"
    /\ pc \in Seeding => mode = "online" /\ op = "new"
    /\ pc \in {"seedTargets", "seedTimestamp"} => file["snapshot"] = 0
    /\ pc = "seedTimestamp" => file["targets"] = 0

\* The root chain on disk has no gaps; the updater has walked through it as far as it
\* is, and when nothing but the disk can end the walk, to its end.
ChainInv ==
    /\ \A m, n \in Later : m <= n /\ chain[n] # "none" => chain[m] # "none"
    /\ pc \in Seeding \cup {"load"} => root = 0
    /\ pc \in Fetching => \A n \in Later : n <= root => chain[n] = "ok"
    /\ pc \in Metadata /\ mode = "airgapped" => \A n \in Later : n > root => chain[n] = "none"

\* What a refresh has loaded is on disk.
GotInv ==
    /\ pc \in {"snapshot", "targets"} =>
          got \in States /\ file["timestamp"] = got /\ Signed(root, got)
    /\ pc = "targets" => file["snapshot"] = got

\* A directory that was completely written has three files of one state, signed
\* with the keys of the last root of a chain that is whole.
Reaches(k) ==
    /\ \A n \in Later : chain[n] = IF n <= k THEN "ok" ELSE "none"
    /\ Signed(k, file["timestamp"])
WholeInv ==
    whole =>
        /\ file["timestamp"] \in States
        /\ file["snapshot"] = file["timestamp"] /\ file["targets"] = file["timestamp"]
        /\ \E k \in 0..LastRoot : Reaches(k)

\* An attempt that gave up without a cause to name met a torn file, which is still
\* there: the airgapped fetcher replaces nothing.
WedgeInv ==
    mode = "airgapped" \/ pc = "failed" =>
        blame # {} \/ \E r \in Roles : file[r] = Torn

IInv == TypeOK /\ SeedInv /\ ChainInv /\ GotInv /\ WholeInv /\ WedgeInv /\ OfflineStart

-----------------------------------------------------------------------------
(* Roots and states. *)

\* Every state has a root version, later ones no older.
LEMMA RootFacts ==
    /\ MaxState \in Nat
    /\ 0 \in States
    /\ LastRoot \in Nat
    /\ 0 \in 0..LastRoot
    /\ Later = 1..(LastRoot + 1)
    /\ \A s \in States : s \in Nat /\ RootOf[s] \in 0..LastRoot /\ RootOf[s] \in Nat
    /\ \A s, t \in States : s <= t => RootOf[s] <= RootOf[t]
    /\ None \notin States /\ Torn \notin States /\ None # Torn
  BY CacheAssumption DEF CacheAssumption, States, LastRoot, Later

\* The embedded files are signed with the keys of the embedded root.
LEMMA EmbeddedSigned == Signed(0, 0)
  BY CacheAssumption DEF CacheAssumption, Signed

\* The root an updater has reached offline is the one at the end of a whole chain.
LEMMA EndOfChain ==
    ASSUME TypeOK, ChainInv, pc \in Metadata, mode = "airgapped", NEW k \in 0..LastRoot, Reaches(k)
    PROVE  root = k
<1>1. root \in Nat /\ k \in Nat /\ root \in 0..LastRoot /\ LastRoot \in Nat /\ Later = 1..(LastRoot + 1)
  BY RootFacts DEF TypeOK
<1>2. CASE root < k
  <2>1. root + 1 \in Later /\ root + 1 > root /\ root + 1 <= k
    BY <1>1, <1>2
  <2> QED BY <2>1 DEF ChainInv, Reaches
<1>3. CASE k < root
  <2>1. k + 1 \in Later /\ k + 1 <= root /\ ~(k + 1 <= k)
    BY <1>1, <1>3
  <2>2. pc \in Fetching
    BY DEF Metadata, Fetching
  <2> QED BY <2>1, <2>2 DEF ChainInv, Reaches
<1> QED BY <1>1, <1>2, <1>3

-----------------------------------------------------------------------------
(* Every step preserves the inductive invariant. *)

\* The directory does not exist at first.
LEMMA InitInv == ASSUME Init PROVE IInv
<1> USE RootFacts
<1>1. TypeOK
  BY DEF Init, TypeOK, Roles
<1>2. SeedInv /\ GotInv /\ WedgeInv /\ OfflineStart
  BY DEF Init, SeedInv, GotInv, WedgeInv, OfflineStart, Seeding, Roles
<1>3. ChainInv
  BY DEF Init, ChainInv, Seeding, Fetching, Metadata
<1>4. WholeInv
  BY DEF Init, WholeInv
<1> QED BY <1>1, <1>2, <1>3, <1>4 DEF IInv

\* Time passes and the repository moves on: no file and no operation changes.
LEMMA WorldInductive ==
    ASSUME IInv, Publish \/ NetworkChanges \/ Expire
    PROVE  IInv'
<1> USE RootFacts DEF dirVars, opVars
<1>1. /\ UNCHANGED <<dirVars, opVars, blame, whole>>
      /\ repo' \in States
      /\ online' \in BOOLEAN /\ expired' \in States /\ rootExpired' \in 0..LastRoot
  <2>1. CASE Publish
    BY <2>1 DEF Publish, IInv, TypeOK, States
  <2>2. CASE NetworkChanges
    BY <2>2 DEF NetworkChanges, IInv, TypeOK, States
  <2>3. CASE Expire
    <3>1. RootOf[repo] \in 0..LastRoot
      BY DEF IInv, TypeOK
    <3> QED BY <2>3, <3>1 DEF Expire, IInv, TypeOK, States
  <2> QED BY <2>1, <2>2, <2>3
<1>2. TypeOK'
  BY <1>1 DEF IInv, TypeOK
<1>3. SeedInv' /\ ChainInv' /\ GotInv' /\ WholeInv' /\ WedgeInv' /\ OfflineStart'
  BY <1>1 DEF IInv, SeedInv, ChainInv, GotInv, WholeInv, Reaches, WedgeInv, OfflineStart, Signed
<1> QED BY <1>2, <1>3 DEF IInv

\* An operation begins.
LEMMA BeginInductive ==
    ASSUME IInv, New \/ Update
    PROVE  IInv'
<1> USE RootFacts DEF worldVars, dirVars
<1>1. /\ UNCHANGED <<worldVars, dirVars, made, whole>>
      /\ op' \in {"new", "update"} /\ mode' = "online" /\ root' = 0 /\ got' = None /\ blame' = {}
      /\ \/ pc' = "load" /\ rootJson
         \/ pc' = "seedRoot" /\ ~rootJson /\ op' = "new"
         \/ pc' = "root" /\ rootJson
  BY DEF New, Update, Begin, IInv, SeedInv, TypeOK
<1>2. TypeOK'
  BY <1>1 DEF IInv, TypeOK, Seeding, Fetching
<1>3. SeedInv' /\ GotInv' /\ WedgeInv' /\ OfflineStart'
  BY <1>1 DEF IInv, SeedInv, GotInv, WedgeInv, OfflineStart, Seeding
<1>4. ChainInv'
  BY <1>1 DEF IInv, ChainInv, Seeding, Fetching, Metadata
<1>5. WholeInv'
  BY <1>1 DEF IInv, WholeInv, Reaches, Signed
<1> QED BY <1>2, <1>3, <1>4, <1>5 DEF IInv

\* One file of the embedded repository is copied.
LEMMA SeedInductive ==
    ASSUME IInv, SeedRoot \/ SeedSnapshot \/ SeedTargets \/ SeedTimestamp
    PROVE  IInv'
<1> USE RootFacts DEF worldVars
<1>1. TypeOK'
  BY DEF IInv, TypeOK, SeedRoot, SeedSnapshot, SeedTargets, SeedTimestamp, Seed, Seeding, Fetching, Roles
<1>2. SeedInv' /\ GotInv' /\ WedgeInv' /\ OfflineStart'
  BY DEF IInv, TypeOK, SeedInv, GotInv, WedgeInv, OfflineStart,
         SeedRoot, SeedSnapshot, SeedTargets, SeedTimestamp, Seed, Seeding, Roles
<1>3. ChainInv'
  BY DEF IInv, ChainInv, SeedRoot, SeedSnapshot, SeedTargets, SeedTimestamp, Seed, Seeding, Fetching, Metadata
<1>4. WholeInv'
  <2>1. CASE SeedTimestamp
    <3>1. /\ file'["timestamp"] = 0 /\ file'["snapshot"] = 0 /\ file'["targets"] = 0
          /\ \A n \in Later : chain'[n] = "none"
      BY <2>1 DEF SeedTimestamp, Seed, IInv, TypeOK, SeedInv, Roles, Seeding
    <3>2. Reaches(0)'
      BY <3>1, EmbeddedSigned DEF Reaches, Signed
    <3> QED BY <3>1, <3>2 DEF WholeInv
  <2>2. CASE SeedRoot \/ SeedSnapshot \/ SeedTargets
    BY <2>2 DEF SeedRoot, SeedSnapshot, SeedTargets, Seed, IInv, SeedInv, WholeInv, Seeding
  <2> QED BY <2>1, <2>2
<1> QED BY <1>1, <1>2, <1>3, <1>4 DEF IInv

\* The cache is loaded, or a refresh begins, or the end of the root chain is met.
LEMMA LoadInductive ==
    ASSUME IInv, LoadCache \/ LoadRefresh \/ LastRootReached
    PROVE  IInv'
<1> USE RootFacts DEF worldVars, dirVars
<1>1. TypeOK'
  BY DEF IInv, TypeOK, LoadCache, LoadsLocally, LoadRefresh, LastRootReached, Fetching
<1>2. SeedInv' /\ GotInv' /\ WedgeInv' /\ OfflineStart'
  BY DEF IInv, SeedInv, GotInv, WedgeInv, OfflineStart, LoadCache, LoadRefresh, LastRootReached, Seeding
<1>3. ChainInv'
  <2>1. CASE LoadCache \/ LoadRefresh
    BY <2>1 DEF IInv, ChainInv, TypeOK, LoadCache, LoadRefresh, Seeding, Fetching, Metadata
  <2>2. CASE LastRootReached
    <3>1. root \in Nat /\ root <= LastRoot
      BY DEF IInv, TypeOK
    <3>2. ASSUME mode = "airgapped", NEW n \in Later, n > root
          PROVE  chain[n] = "none"
      <4>1. root + 1 \in Later /\ root + 1 <= n
        BY <3>1, <3>2
      <4>2. chain[root + 1] = "none"
        BY <2>2, <3>2, <4>1 DEF LastRootReached, IInv, TypeOK
      <4> QED BY <4>1, <4>2 DEF IInv, ChainInv
    <3> QED BY <2>2, <3>2 DEF LastRootReached, IInv, ChainInv, Seeding, Fetching, Metadata
  <2> QED BY <2>1, <2>2
<1>4. WholeInv'
  BY DEF IInv, WholeInv, Reaches, Signed, LoadCache, LoadRefresh, LastRootReached
<1> QED BY <1>1, <1>2, <1>3, <1>4 DEF IInv

\* A later root is trusted, and kept if it was downloaded.
LEMMA NextRootInductive ==
    ASSUME IInv, NextRoot
    PROVE  IInv'
<1> USE RootFacts DEF worldVars
<1>1. /\ root \in Nat /\ root' = root + 1 /\ root + 1 \in Later /\ root + 1 <= LastRoot
      /\ pc = "root" /\ pc' = "root"
      /\ UNCHANGED <<worldVars, rootJson, file, op, mode, got, made, blame>>
      /\ chain \in [Later -> {"none", "torn", "ok"}]
  BY DEF IInv, TypeOK, NextRoot
<1>2. \/ chain' = [chain EXCEPT ![root + 1] = "ok"] /\ whole' = (whole /\ chain[root + 1] = "ok")
      \/ UNCHANGED <<chain, whole>> /\ chain[root + 1] = "ok"
  BY DEF NextRoot, SavedChain
<1>3. whole' => whole /\ chain' = chain
  BY <1>1, <1>2
<1>4. TypeOK'
  <2>1. whole' \in BOOLEAN
    BY <1>2 DEF IInv, TypeOK
  <2>2. chain' \in [Later -> {"none", "torn", "ok"}]
    BY <1>1, <1>2
  <2>3. root' \in 0..LastRoot
    BY <1>1
  <2> QED BY <1>1, <2>1, <2>2, <2>3 DEF IInv, TypeOK
<1>5. SeedInv' /\ GotInv' /\ WedgeInv' /\ OfflineStart'
  BY <1>1 DEF IInv, SeedInv, GotInv, WedgeInv, OfflineStart, Seeding
<1>6. ChainInv'
  <2>1. \A n \in Later : n # root + 1 => chain'[n] = chain[n]
    BY <1>1, <1>2
  <2>2. chain'[root + 1] = "ok"
    BY <1>1, <1>2
  <2>3. \A n \in Later : n <= root + 1 => chain'[n] = "ok"
    BY <1>1, <2>1, <2>2 DEF IInv, ChainInv, Fetching
  <2>4. \A m, n \in Later : m <= n /\ chain'[n] # "none" => chain'[m] # "none"
    <3> SUFFICES ASSUME NEW m \in Later, NEW n \in Later, m <= n, chain'[n] # "none"
                 PROVE  chain'[m] # "none"
      OBVIOUS
    <3>1. CASE m <= root + 1
      BY <2>3, <3>1
    <3>2. CASE m > root + 1
      BY <1>1, <2>1, <3>2 DEF IInv, ChainInv
    <3> QED BY <1>1, <3>1, <3>2
  <2> QED BY <1>1, <2>3, <2>4 DEF ChainInv, Seeding, Fetching, Metadata
<1>7. WholeInv'
  BY <1>1, <1>3 DEF IInv, WholeInv, Reaches, Signed
<1> QED BY <1>4, <1>5, <1>6, <1>7 DEF IInv

\* The timestamp the fetcher answers with is accepted and written.
LEMMA LoadTimestampInductive ==
    ASSUME IInv, LoadTimestamp
    PROVE  IInv'
<1> USE RootFacts DEF worldVars
<1>1. PICK s \in Answers :
          /\ Acceptable(s)
          /\ got' = s
          /\ file' = [file EXCEPT !["timestamp"] = s]
          /\ whole' = (whole /\ file["timestamp"] = s)
  BY DEF LoadTimestamp
<1>2. /\ pc = "timestamp" /\ pc' = "snapshot"
      /\ UNCHANGED <<worldVars, rootJson, chain, op, mode, root, made, blame>>
  BY DEF LoadTimestamp
<1>3. s \in States /\ (mode = "airgapped" => s = file["timestamp"])
  BY <1>1 DEF Answers, IInv, TypeOK, States
<1>4. file \in [Roles -> States \cup {None, Torn}] /\ "timestamp" \in Roles
  BY DEF IInv, TypeOK, Roles
<1>5. file'["timestamp"] = s /\ (s = file["timestamp"] => file' = file)
  BY <1>1, <1>4
<1>6. TypeOK'
  BY <1>1, <1>2, <1>3, <1>4 DEF IInv, TypeOK, Fetching
<1>7. SeedInv' /\ OfflineStart'
  BY <1>2 DEF IInv, SeedInv, OfflineStart, Seeding
<1>8. WedgeInv'
  BY <1>2, <1>3, <1>5 DEF IInv, WedgeInv, TypeOK
<1>9. ChainInv'
  BY <1>2 DEF IInv, ChainInv, Seeding, Fetching, Metadata
<1>10. GotInv'
  BY <1>1, <1>2, <1>3, <1>5 DEF GotInv, Acceptable, Signed
<1>11. WholeInv'
  BY <1>1, <1>2, <1>5 DEF IInv, WholeInv, Reaches, Signed
<1> QED BY <1>6, <1>7, <1>8, <1>9, <1>10, <1>11 DEF IInv

\* The file of a role that the timestamp leads to is found or downloaded.
LEMMA LoadFileInductive ==
    ASSUME IInv, LoadSnapshot \/ LoadTargets
    PROVE  IInv'
<1> USE RootFacts DEF worldVars
<1>1. PICK r \in {"snapshot", "targets"} :
          /\ pc = r /\ pc' = IF r = "snapshot" THEN "targets" ELSE "done"
          /\ \/ file[r] = got /\ file' = file
             \/ mode = "online" /\ file' = [file EXCEPT ![r] = got]
          /\ IF r = "snapshot" THEN UNCHANGED <<whole, made>> ELSE /\ made' = TRUE
                                 /\ whole' = (whole \/ \A n \in Later : n > root => chain[n] = "none")
          /\ UNCHANGED <<worldVars, rootJson, chain, op, mode, root, got, blame>>
  <2>1. CASE LoadSnapshot
    BY <2>1 DEF LoadSnapshot, LoadFile
  <2>2. CASE LoadTargets
    BY <2>2 DEF LoadTargets, LoadFile, IInv, TypeOK
  <2> QED BY <2>1, <2>2
<1>2. got \in States /\ file["timestamp"] = got /\ Signed(root, got)
  BY <1>1 DEF IInv, GotInv
<1>3. file \in [Roles -> States \cup {None, Torn}] /\ r \in Roles /\ r # "timestamp"
  BY <1>1 DEF IInv, TypeOK, Roles
<1>4. /\ file'[r] = got /\ \A q \in Roles : q # r => file'[q] = file[q]
      /\ file[r] = got => file' = file
      /\ file' \in [Roles -> States \cup {None, Torn}]
  BY <1>1, <1>2, <1>3
<1>5. file'["timestamp"] = got /\ (r = "targets" => file'["snapshot"] = got /\ file'["targets"] = got) /\ (r = "snapshot" => file'["snapshot"] = got)
  BY <1>1, <1>2, <1>3, <1>4 DEF IInv, GotInv, Roles
<1>6. TypeOK'
  BY <1>1, <1>4 DEF IInv, TypeOK, Fetching
<1>7. SeedInv'
  BY <1>1 DEF IInv, SeedInv, Seeding
<1>8. ChainInv'
  BY <1>1 DEF IInv, ChainInv, Seeding, Fetching, Metadata
<1>9. GotInv' /\ OfflineStart'
  BY <1>1, <1>2, <1>5 DEF IInv, GotInv, OfflineStart, Signed
<1>10. WedgeInv'
  BY <1>1, <1>4 DEF IInv, TypeOK, WedgeInv
<1>11. WholeInv'
  <2>1. CASE r = "snapshot"
    BY <1>1, <1>2, <1>4, <2>1 DEF IInv, WholeInv, Reaches, Signed
  <2>2. CASE r = "targets" /\ whole
    <3>1. file' = file
      BY <1>1, <1>2, <1>4, <2>2 DEF IInv, WholeInv
    <3> QED BY <1>1, <2>2, <3>1 DEF IInv, WholeInv, Reaches, Signed
  <2>3. CASE r = "targets" /\ ~whole
    <3> SUFFICES ASSUME whole' PROVE WholeInv'
      BY DEF WholeInv
    <3>1. root \in 0..LastRoot /\ root' = root
      BY <1>1 DEF IInv, TypeOK
    <3>2. Reaches(root)'
      <4>1. \A n \in Later : n > root => chain[n] = "none"
        BY <1>1, <2>3
      <4>2. \A n \in Later : n <= root => chain[n] = "ok"
        BY <1>1, <2>3 DEF IInv, ChainInv, Fetching
      <4>3. chain' = chain /\ root \in Nat /\ \A n \in Later : n \in Nat
        BY <1>1, <3>1
      <4>4. Signed(root, file["timestamp"])'
        BY <1>1, <1>2, <1>5 DEF Signed
      <4> QED BY <3>1, <4>1, <4>2, <4>3, <4>4 DEF Reaches
    <3> QED BY <1>2, <1>5, <2>3, <3>1, <3>2 DEF WholeInv
  <2> QED BY <1>1, <2>1, <2>2, <2>3
<1> QED BY <1>6, <1>7, <1>8, <1>9, <1>10, <1>11 DEF IInv

\* What an operation that ends without a client leaves behind, whatever ended it.
LEMMA FailInductive ==
    ASSUME IInv, NEW causes \in SUBSET {"network", "disk", "expiry"},
           Fail(causes), pc \in Fetching,
           rootJson' = rootJson, file' = file, whole' \in BOOLEAN,
           chain' \in [Later -> {"none", "torn", "ok"}],
           \A m, n \in Later : m <= n /\ chain'[n] # "none" => chain'[m] # "none",
           whole' => whole /\ chain' = chain,
           causes # {} \/ blame # {} \/ \E r \in Roles : file[r] = Torn,
           mode = "online" \/ ~whole' \/ causes \cap {"expiry", "disk"} # {}
    PROVE  IInv'
<1> USE RootFacts DEF worldVars
<1>1. /\ UNCHANGED <<worldVars, op, made>>
      /\ blame' = blame \cup causes /\ root' = 0 /\ got' = None
      /\ \/ pc' = "load" /\ mode' = "airgapped"
         \/ pc' = "failed" /\ mode' = mode /\ ~(op = "new" /\ mode = "online")
  BY DEF Fail
<1>2. TypeOK'
  <2>1. blame' \in SUBSET {"network", "disk", "expiry"}
    BY <1>1 DEF IInv, TypeOK
  <2> QED BY <1>1, <2>1 DEF IInv, TypeOK
<1>3. SeedInv'
  BY <1>1 DEF IInv, SeedInv, Seeding, Fetching
<1>4. ChainInv'
  BY <1>1 DEF ChainInv, Seeding, Fetching, Metadata
<1>5. GotInv'
  BY <1>1 DEF GotInv
<1>6. WholeInv'
  BY <1>1 DEF IInv, WholeInv, Reaches, Signed
<1>7. WedgeInv'
  BY <1>1 DEF WedgeInv
<1>8. OfflineStart'
  BY <1>1 DEF IInv, TypeOK, OfflineStart
<1> QED BY <1>2, <1>3, <1>4, <1>5, <1>6, <1>7, <1>8 DEF IInv

\* Another file in the place of the next root leaves no gap in the chain.
LEMMA KeepNoRootFacts ==
    ASSUME IInv, KeepNoRoot
    PROVE  /\ rootJson' /\ UNCHANGED <<rootJson, file>> /\ pc = "root" /\ mode = "online"
           /\ chain' \in [Later -> {"none", "torn", "ok"}]
           /\ \A m, n \in Later : m <= n /\ chain'[n] # "none" => chain'[m] # "none"
<1> USE RootFacts
<1>1. /\ root \in Nat /\ root + 1 \in Later
      /\ chain \in [Later -> {"none", "torn", "ok"}]
  BY DEF IInv, TypeOK
<1>2. /\ chain'[root + 1] = "torn"
      /\ \A n \in Later : n # root + 1 => chain'[n] = chain[n]
      /\ chain' \in [Later -> {"none", "torn", "ok"}]
      /\ pc = "root" /\ mode = "online" /\ UNCHANGED <<rootJson, file>>
  BY <1>1 DEF KeepNoRoot
<1>3. \A n \in Later : n <= root => chain'[n] = "ok"
  BY <1>1, <1>2 DEF IInv, ChainInv, Fetching
<1>4. \A m, n \in Later : m <= n /\ chain'[n] # "none" => chain'[m] # "none"
  <2> SUFFICES ASSUME NEW m \in Later, NEW n \in Later, m <= n, chain'[n] # "none"
               PROVE  chain'[m] # "none"
    OBVIOUS
  <2>1. CASE m <= root
    BY <1>3, <2>1
  <2>2. CASE m = root + 1
    BY <1>2, <2>2
  <2>3. CASE m > root + 1
    BY <1>1, <1>2, <2>3 DEF IInv, ChainInv
  <2> QED BY <1>1, <2>1, <2>2, <2>3
<1>5. rootJson'
  BY <1>2 DEF IInv, SeedInv, TypeOK
<1> QED BY <1>2, <1>4, <1>5

\* What a file that is cut short does to the directory.
LEMMA CutFacts ==
    ASSUME IInv, CutWrite
    PROVE  /\ rootJson'
           /\ file' \in [Roles -> States \cup {None, Torn}]
           /\ chain' \in [Later -> {"none", "torn", "ok"}]
           /\ file'["timestamp"] \in States => file'["timestamp"] = file["timestamp"]
           /\ \A m, n \in Later : m <= n /\ chain'[n] # "none" => chain'[m] # "none"
           /\ pc \in Seeding \/ (pc = "root" /\ UNCHANGED <<rootJson, file>>)
<1> USE RootFacts
<1>1. CASE pc \in Seeding
  <2>1. UNCHANGED chain /\ rootJson'
    BY <1>1 DEF CutWrite, CutSeed, KeepNoRoot, Seeding, IInv, SeedInv, TypeOK
  <2>2. /\ file' \in [Roles -> States \cup {None, Torn}]
        /\ file'["timestamp"] \in States => file'["timestamp"] = file["timestamp"]
    BY <1>1 DEF CutWrite, CutSeed, KeepNoRoot, Seeding, IInv, TypeOK, Roles
  <2> QED BY <1>1, <2>1, <2>2 DEF IInv, TypeOK, ChainInv
<1>2. CASE KeepNoRoot
  BY <1>2, KeepNoRootFacts DEF IInv, TypeOK
<1> QED BY <1>1, <1>2 DEF CutWrite, Seeding

\* What the mirror sends for the next root is refused, and kept.
LEMMA RootRefusedInductive ==
    ASSUME IInv, RootRefused
    PROVE  IInv'
<1>1. Fail({"network"}) /\ whole' = FALSE /\ KeepNoRoot
  BY DEF RootRefused
<1> QED BY <1>1, KeepNoRootFacts, FailInductive DEF Fetching

\* The steps that fail without writing: the network, a refused answer, expiry, and
\* a torn or missing file, which a directory that is whole does not have.
LEMMA RefusedInductive ==
    ASSUME IInv, NetworkError \/ AnswerRefused \/ SnapshotRefused \/ TooOld \/ TornFile \/ NotInCache
    PROVE  IInv'
<1> USE DEF dirVars
<1>1. /\ UNCHANGED <<rootJson, file, chain, whole>>
      /\ pc \in Fetching
      /\ whole' \in BOOLEAN
      /\ chain' \in [Later -> {"none", "torn", "ok"}]
  BY DEF NetworkError, AnswerRefused, SnapshotRefused, TooOld, TornFile, NotInCache, Fetching, Roles, IInv, TypeOK
<1>2. \A m, n \in Later : m <= n /\ chain'[n] # "none" => chain'[m] # "none"
  BY <1>1 DEF IInv, ChainInv
<1>3. CASE NetworkError \/ AnswerRefused \/ SnapshotRefused
  <2>1. Fail({"network"}) /\ mode = "online"
    BY <1>3 DEF NetworkError, AnswerRefused, SnapshotRefused
  <2> QED BY <1>1, <1>2, <2>1, FailInductive
<1>4. CASE TooOld
  <2>1. CASE mode = "airgapped"
    <3>1. Fail({"expiry"})
      BY <1>4, <2>1 DEF TooOld
    <3> QED BY <1>1, <1>2, <3>1, FailInductive
  <2>2. CASE mode = "online"
    <3>1. Fail({"network"})
      BY <1>4, <2>2 DEF TooOld
    <3> QED BY <1>1, <1>2, <2>2, <3>1, FailInductive
  <2> QED BY <2>1, <2>2 DEF IInv, TypeOK
<1>5. CASE TornFile
  <2>1. Fail({}) /\ pc \in Roles /\ file[pc] = Torn
    BY <1>5 DEF TornFile
  <2>2. ~whole
    BY <2>1, RootFacts DEF IInv, WholeInv, Roles
  <2>3. \E r \in Roles : file[r] = Torn
    BY <2>1
  <2>4. {} \in SUBSET {"network", "disk", "expiry"}
    OBVIOUS
  <2> QED BY <1>1, <1>2, <2>1, <2>2, <2>3, <2>4, FailInductive
<1>6. CASE NotInCache
  <2>1. Fail({}) /\ mode = "airgapped"
    BY <1>6 DEF NotInCache, OnlyCache
  <2>2. blame # {} \/ \E r \in Roles : file[r] = Torn
    BY <2>1 DEF IInv, WedgeInv
  <2>3. ~whole
    <3> SUFFICES ASSUME whole PROVE FALSE
      OBVIOUS
    <3>1. PICK k \in 0..LastRoot : Reaches(k)
      BY DEF IInv, WholeInv
    <3>2. /\ file["timestamp"] \in States
          /\ file["snapshot"] = file["timestamp"] /\ file["targets"] = file["timestamp"]
      BY DEF IInv, WholeInv
    <3>3. CASE pc = "root" /\ chain[root + 1] = "torn"
      <4>1. root + 1 \in Later
        BY <3>3, RootFacts DEF IInv, TypeOK
      <4> QED BY <3>1, <3>3, <4>1 DEF Reaches
    <3>4. CASE pc = "timestamp" /\ ~ \E s \in Answers : Signed(root, s)
      <4>1. root = k
        BY <2>1, <3>1, <3>4, EndOfChain DEF IInv, Metadata
      <4>2. file["timestamp"] \in Answers
        BY <2>1, <3>2 DEF Answers
      <4> QED BY <3>1, <3>4, <4>1, <4>2 DEF Reaches
    <3>5. CASE pc \in {"snapshot", "targets"} /\ file[pc] \notin {got, Torn}
      BY <3>2, <3>5 DEF IInv, GotInv
    <3> QED BY <1>6, <3>3, <3>4, <3>5 DEF NotInCache
  <2>4. {} \in SUBSET {"network", "disk", "expiry"}
    OBVIOUS
  <2> QED BY <1>1, <1>2, <2>1, <2>2, <2>3, <2>4, FailInductive
<1> QED BY <1>3, <1>4, <1>5, <1>6

\* The disk is full.
LEMMA DiskErrorInductive ==
    ASSUME IInv, DiskError
    PROVE  IInv'
<1> USE RootFacts
<1>1. CASE pc \in Fetching
  <2>1. Fail({"disk"})
    BY <1>1 DEF DiskError
  <2>2. CASE CutWrite /\ whole' = FALSE
    <3>1. UNCHANGED <<rootJson, file>>
      BY <1>1, <2>2, CutFacts DEF Fetching, Seeding
    <3> QED BY <1>1, <2>1, <2>2, <3>1, CutFacts, FailInductive
  <2>3. CASE UNCHANGED <<dirVars, whole>>
    <3>1. UNCHANGED <<rootJson, file, chain, whole>>
      BY <2>3 DEF dirVars
    <3>2. /\ whole' \in BOOLEAN
          /\ chain' \in [Later -> {"none", "torn", "ok"}]
          /\ \A m, n \in Later : m <= n /\ chain'[n] # "none" => chain'[m] # "none"
      BY <3>1 DEF IInv, TypeOK, ChainInv
    <3> QED BY <1>1, <2>1, <3>1, <3>2, FailInductive
  <2> QED BY <2>2, <2>3 DEF DiskError
<1>2. CASE pc \notin Fetching
  <2>1. /\ CutWrite /\ whole' = FALSE
        /\ pc' = "failed" /\ blame' = blame \cup {"disk"}
        /\ UNCHANGED <<online, repo, expired, rootExpired, op, mode, root, got, made>>
    BY <1>2 DEF DiskError, worldVars
  <2>2. pc \in Seeding /\ file["timestamp"] = None /\ ~whole
    BY <1>2, <2>1, CutFacts DEF Fetching, IInv, SeedInv
  <2>3. TypeOK'
    <3>1. blame' \in SUBSET {"network", "disk", "expiry"}
      BY <2>1 DEF IInv, TypeOK
    <3> QED BY <2>1, <3>1, CutFacts DEF IInv, TypeOK
  <2>4. SeedInv' /\ GotInv' /\ WholeInv' /\ WedgeInv' /\ OfflineStart'
    BY <2>1, CutFacts DEF SeedInv, GotInv, WholeInv, WedgeInv, OfflineStart, Seeding
  <2>5. ChainInv'
    BY <2>1, <2>2, CutFacts DEF ChainInv, Seeding, Fetching, Metadata
  <2> QED BY <2>3, <2>4, <2>5 DEF IInv
<1> QED BY <1>1, <1>2

\* The process stops.
LEMMA CrashInductive ==
    ASSUME IInv, Crash
    PROVE  IInv'
<1> USE RootFacts
<1>1. /\ pc' = "idle" /\ root' = 0 /\ got' = None /\ mode' = "online"
      /\ UNCHANGED <<online, repo, expired, rootExpired, op, made, blame>>
  BY DEF Crash, worldVars
<1>2. CASE CutWrite /\ whole' = FALSE
  <2>1. TypeOK'
    BY <1>1, <1>2, CutFacts DEF IInv, TypeOK
  <2>2. SeedInv' /\ GotInv' /\ WholeInv' /\ WedgeInv' /\ OfflineStart'
    BY <1>1, <1>2, CutFacts DEF SeedInv, GotInv, WholeInv, WedgeInv, OfflineStart, Seeding
  <2>3. ChainInv'
    BY <1>1, <1>2, CutFacts DEF IInv, ChainInv, Seeding, Fetching, Metadata
  <2> QED BY <2>1, <2>2, <2>3 DEF IInv
<1>3. CASE UNCHANGED <<rootJson, file, chain, whole>>
  <2>1. TypeOK'
    BY <1>1, <1>3 DEF IInv, TypeOK
  <2>2. SeedInv' /\ GotInv' /\ WholeInv' /\ WedgeInv' /\ OfflineStart'
    BY <1>1, <1>3 DEF IInv, SeedInv, GotInv, WholeInv, Reaches, Signed, WedgeInv, OfflineStart, Seeding
  <2>3. ChainInv'
    BY <1>1, <1>3 DEF IInv, ChainInv, Seeding, Fetching, Metadata
  <2> QED BY <2>1, <2>2, <2>3 DEF IInv
<1> QED BY <1>2, <1>3 DEF Crash, dirVars

\* The inductive invariant holds of every behaviour.
LEMMA Invariance == Spec => []IInv
<1>1. IInv /\ [Next]_vars => IInv'
  <2> SUFFICES ASSUME IInv, [Next]_vars PROVE IInv'
    OBVIOUS
  <2>1. CASE Next
    BY <2>1, WorldInductive, BeginInductive, SeedInductive, LoadInductive, NextRootInductive,
       LoadTimestampInductive, LoadFileInductive, RootRefusedInductive, RefusedInductive, DiskErrorInductive, CrashInductive
       DEF Next, Step
  <2>2. CASE UNCHANGED vars
    BY <2>2 DEF vars, worldVars, dirVars, opVars, IInv, TypeOK, SeedInv, ChainInv,
                GotInv, WholeInv, Reaches, Signed, WedgeInv, OfflineStart
  <2> QED BY <2>1, <2>2
<1> QED BY <1>1, InitInv, PTL DEF Spec

-----------------------------------------------------------------------------
(* The theorems. *)

\* Type correctness.
THEOREM TypeCorrect == Spec => []TypeOK
  BY Invariance, PTL DEF IInv

\* A cache directory that the seed or a refresh wrote completely is enough for
\* NewTrustProvider without the network, however often the root was rotated and
\* whatever crashed since, unless its files expired or the disk failed.
THEOREM StartsOffline == Spec => []OfflineStart
  BY Invariance, PTL DEF IInv

\* NewTrustProvider and update fail without network, disk or expiry being the
\* cause only over a torn metadata file: every other remnant of a crash is healed.
THEOREM TornFileAtFault == Spec => []OnlyTornFilesWedge
<1>1. IInv => OnlyTornFilesWedge
  BY DEF IInv, WedgeInv, OnlyTornFilesWedge
<1> QED BY <1>1, Invariance, PTL

\* A timestamp older than the one on disk is accepted only under a root older than the
\* one that was made under: once its keys are reached, keys before them are gone.
LEMMA AcceptedOlder ==
    ASSUME IInv, pc = "timestamp", NEW s \in Answers, Acceptable(s),
           file["timestamp"] \in States, s < file["timestamp"]
    PROVE  mode = "online" /\ root < RootOf[file["timestamp"]] /\ ~Signed(root, file["timestamp"])
<1> USE RootFacts
<1> DEFINE t == file["timestamp"]
<1>1. s \in States /\ s \in Nat /\ t \in Nat /\ root \in 0..LastRoot /\ RootOf[t] \in Nat
  BY DEF Answers, IInv, TypeOK, States
<1>2. mode = "online"
  BY <1>1 DEF Answers, IInv, TypeOK
<1>3. ~Signed(root, t)
  BY <1>1 DEF Acceptable, Floor
<1>4. root < RootOf[t]
  <2> SUFFICES ASSUME RootOf[t] <= root PROVE FALSE
    BY <1>1
  <2>1. RootOf[s] <= RootOf[t] /\ RootOf[s] \in 0..LastRoot /\ RootOf[t] \in 0..LastRoot
    BY <1>1
  <2>2. KeyOf[RootOf[s]] = KeyOf[root]
    BY DEF Acceptable, Signed
  <2>3. KeyOf[RootOf[t]] = KeyOf[root]
    BY <1>1, <2>1, <2>2, KeysStayReplaced DEF KeysStayReplaced
  <2> QED BY <1>3, <2>3 DEF Signed
<1> QED BY <1>2, <1>3, <1>4

\* An older timestamp takes the place of the one on disk only when the mirror showed
\* the updater, which begins at the embedded root every time, no root as new as the
\* one that timestamp was made under, and the keys changed in between.  No crash, full
\* disk, lagging mirror or remnant of an earlier refresh is enough.
THEOREM RollbackExplained == Spec => RollbackOnlyBehindOldRoot
<1> DEFINE t == file["timestamp"]
<1>1. IInv /\ [Next]_vars =>
          [GoesBack => /\ mode = "online"
                       /\ root < RootOf[file["timestamp"]]
                       /\ ~Signed(root, file["timestamp"])]_vars
  <2> SUFFICES ASSUME IInv, [Next]_vars, t \in States, t' \in States, t' < t
               PROVE  mode = "online" /\ root < RootOf[t] /\ ~Signed(root, t)
    BY DEF GoesBack
  <2>1. t \in Nat
    BY RootFacts
  <2>2. CASE LoadTimestamp
    <3>1. PICK s \in Answers : Acceptable(s) /\ file' = [file EXCEPT !["timestamp"] = s]
      BY <2>2 DEF LoadTimestamp
    <3>2. t' = s
      BY <3>1 DEF IInv, TypeOK, Roles
    <3> QED BY <2>2, <3>1, <3>2, AcceptedOlder DEF LoadTimestamp
  <2>3. CASE SeedRoot \/ SeedSnapshot \/ SeedTargets \/ SeedTimestamp
    BY <2>3, RootFacts DEF SeedRoot, SeedSnapshot, SeedTargets, SeedTimestamp, Seed, IInv, SeedInv, Seeding
  <2>4. CASE LoadSnapshot \/ LoadTargets
    <3>1. t' = t
      BY <2>4 DEF LoadSnapshot, LoadTargets, LoadFile, IInv, TypeOK, Roles
    <3> QED BY <2>1, <3>1
  <2>5. CASE CutWrite \/ RootRefused
    <3>1. t' = t
      BY <2>5, CutFacts, KeepNoRootFacts DEF RootRefused
    <3> QED BY <2>1, <3>1
  <2>6. CASE UNCHANGED file
    BY <2>1, <2>6
  <2>7. UNCHANGED file \/ LoadTimestamp \/ SeedRoot \/ SeedSnapshot \/ SeedTargets \/ SeedTimestamp
          \/ LoadSnapshot \/ LoadTargets \/ CutWrite \/ RootRefused
    BY DEF Next, Step, vars, worldVars, dirVars, Publish, NetworkChanges, Expire, New, Update,
           LoadCache, LoadRefresh, NextRoot, LastRootReached, NetworkError, AnswerRefused,
           SnapshotRefused, TornFile, TooOld, NotInCache, DiskError, Crash
  <2> QED BY <2>2, <2>3, <2>4, <2>5, <2>6, <2>7
<1> QED BY <1>1, Invariance, PTL DEF Spec, RollbackOnlyBehindOldRoot
=============================================================================
