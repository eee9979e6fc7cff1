------------------------ MODULE TrustProviderProofs ------------------------
(***************************************************************************)
(* Proofs about TrustProvider for every set of providers and calls and     *)
(* every number of versions: type correctness, the file lock, the order of *)
(* the versions, and what an answer of TrustedRoot was made from.          *)
(***************************************************************************)
EXTENDS TrustProvider, TLAPS

-----------------------------------------------------------------------------
(* The inductive invariant, in the order in which its parts build on each other. *)

\* Which provider a goroutine belongs to and what it may find there: before the
\* provider is made no other goroutine of it runs and nothing is updated.
LifeInv ==
    /\ \A p \in Providers :
          /\ th[New(p)] \in {"lock", "seed", "load", "unlockErr"} => prov[p] = "down"
          /\ th[New(p)] = "unlock" => prov[p] = "made"
          /\ prov[p] = "down" => status[p].updated = "nil"
    /\ \A t \in Updaters : th[t] # "idle" => prov[ProviderOf(t)] # "down"
    /\ \A c \in Calls : pc[c] \in Active => prov[Home[c]] = "up"

\* A status with LastUpdated goes with a client that was refreshed, and a call
\* that has its client has a refreshed one or an error to report.
Holding == {"get", "download", "write", "mix", "done"}
OnlineInv ==
    /\ \A p \in Providers : status[p].updated # "nil" => client[p].from = "repo"
    /\ \A c \in Calls :
          /\ pc[c] = "fallback" => st[c].err # "nil"
          /\ pc[c] \in Holding => st[c].err # "nil" \/ snap[c].from = "repo"

\* A call's history variable stays below the provider's client until the call
\* takes it, and below the client it took afterwards, while nothing was replayed.
LowInv ==
    ~replayed => \A c \in Calls :
        /\ pc[c] \in {"poll", "select", "fallback"} => low[c] <= client[Home[c]].ver
        /\ pc[c] \in Holding => low[c] <= snap[c].ver

IInv ==
    /\ TypeOK
    /\ MutualExclusion
    /\ LifeInv
    /\ CommitIsNewest
    /\ OnlineInv
    /\ LowInv
    /\ AnswerMatchesMetadata

-----------------------------------------------------------------------------
(* Goroutines and their providers. *)

\* Every goroutine has a kind and an owner of its own, and belongs to the process
\* of exactly one provider.
LEMMA ThreadFacts ==
    /\ \A p \in Providers : New(p) \in News /\ New(p) \in Threads /\ New(p) \notin Updaters
    /\ \A p \in Providers : Boot(p) \in Updaters /\ Tick(p) \in Updaters
    /\ \A c \in Calls : Wait(c) \in Updaters /\ Wait(c) \in Waits
    /\ \A t \in Updaters : t \in Threads /\ t \notin News
    /\ \A t \in Threads : t \in News \/ t \in Updaters
    /\ \A t \in News : \E p \in Providers : t = New(p)
    /\ \A p, q \in Providers : New(p) = New(q) => p = q
BY DEF Threads, Updaters, News, Waits, New, Boot, Tick, Wait

\* Every update() runs for a provider: its own, or that of the call that spawned it.
LEMMA ProviderFacts ==
    /\ \A p \in Providers : ProviderOf(Boot(p)) = p /\ ProviderOf(Tick(p)) = p
    /\ \A c \in Calls : ProviderOf(Wait(c)) = Home[c] /\ Home[c] \in Providers
    /\ \A t \in Updaters : ProviderOf(t) \in Providers
<1>1. \A p \in Providers : ProviderOf(Boot(p)) = p /\ ProviderOf(Tick(p)) = p
  BY DEF ProviderOf, Waits, Wait, Boot, Tick
<1>2. \A c \in Calls : ProviderOf(Wait(c)) = Home[c] /\ Home[c] \in Providers
  BY ConstantsAssumption DEF ProviderOf, Waits, Wait
<1>3. \A t \in Updaters : ProviderOf(t) \in Providers
  BY <1>1, <1>2 DEF Updaters, Waits
<1> QED
  BY <1>1, <1>2, <1>3

\* A goroutine belongs to the process of its provider, and to no other.
LEMMA ProcessFacts ==
    /\ \A p, q \in Providers : New(q) \in ThreadsOf(p) <=> p = q
    /\ \A p \in Providers : \A t \in Updaters : t \in ThreadsOf(p) <=> ProviderOf(t) = p
<1>1. \A p, q \in Providers : New(q) \in ThreadsOf(p) <=> p = q
  BY DEF ThreadsOf, CallsOf, New, Boot, Tick, Wait
<1>2. ASSUME NEW p \in Providers, NEW t \in Updaters
      PROVE  t \in ThreadsOf(p) <=> ProviderOf(t) = p
  <2>1. CASE t \in Waits
    <3>1. PICK c \in Calls : t = Wait(c)
      BY <2>1 DEF Waits
    <3>2. t \in ThreadsOf(p) <=> c \in CallsOf(p)
      BY <3>1 DEF ThreadsOf, CallsOf, New, Boot, Tick, Wait
    <3> QED
      BY <3>1, <3>2, ProviderFacts DEF CallsOf
  <2>2. CASE \E q \in Providers : t = Boot(q)
    <3>1. PICK q \in Providers : t = Boot(q)
      BY <2>2
    <3>2. t \in ThreadsOf(p) <=> q = p
      BY <3>1 DEF ThreadsOf, CallsOf, New, Boot, Tick, Wait
    <3> QED
      BY <3>1, <3>2, ProviderFacts
  <2>3. CASE \E q \in Providers : t = Tick(q)
    <3>1. PICK q \in Providers : t = Tick(q)
      BY <2>3
    <3>2. t \in ThreadsOf(p) <=> q = p
      BY <3>1 DEF ThreadsOf, CallsOf, New, Boot, Tick, Wait
    <3> QED
      BY <3>1, <3>2, ProviderFacts
  <2> QED
    BY <2>1, <2>2, <2>3 DEF Updaters
<1> QED
  BY <1>1, <1>2

-----------------------------------------------------------------------------
(* Type correctness. *)

\* A refresh, complete or not, ends with a version that is not older than the cache's or
\* has other keys.
LEMMA VersionFacts ==
    ASSUME EnvType, DiskType
    PROVE  /\ 0 \in Versions
           /\ \A v \in Versions : v \in Nat /\ TargetOf[v] \in Contents
           /\ \A v \in RefreshResults : v \in Versions /\ (v >= cache \/ KeyOf[v] # KeyOf[cache])
           /\ \A v \in AfterFailedRefresh : v \in Versions /\ (v >= cache \/ KeyOf[v] # KeyOf[cache])
BY ConstantsAssumption
   DEF EnvType, DiskType, Versions, Contents, RefreshResults, AfterFailedRefresh

\* The type invariant holds at the start.
LEMMA InitType ==
    ASSUME Init
    PROVE  TypeOK
<1>1. 0 \in Versions
  BY ConstantsAssumption DEF Versions
<1>2. EnvType
  BY <1>1 DEF Init, EnvType
<1>3. DiskType
  BY <1>1 DEF Init, DiskType
<1>4. ThreadType
  BY <1>1 DEF Init, ThreadType, NewPCs
<1>5. ProviderType
  BY <1>1 DEF Init, ProviderType, NoClient, NoStatus, Client, Status
<1>6. WaitType
  BY DEF Init, WaitType, NoStatus, Status
<1>7. AnswerType
  BY <1>1 DEF Init, AnswerType, NoClient, Client
<1> QED
  BY <1>2, <1>3, <1>4, <1>5, <1>6, <1>7 DEF TypeOK

\* Every step keeps the types.
LEMMA StepType ==
    ASSUME TypeOK, [Next]_vars
    PROVE  TypeOK'
<1> USE DEF vars, envVars, cacheVars, diskVars, procVars, callVars
<1>0. EnvType /\ DiskType /\ ThreadType /\ ProviderType /\ WaitType /\ AnswerType
  BY DEF TypeOK
<1> USE <1>0
<1>1. CASE UNCHANGED vars
  BY <1>1 DEF TypeOK, EnvType, DiskType, ThreadType, ProviderType, WaitType, AnswerType
<1>2. CASE Publish
  <2>1. EnvType'
    BY <1>2, ConstantsAssumption DEF EnvType, Publish, Versions
  <2>2. DiskType' /\ ThreadType' /\ ProviderType' /\ WaitType' /\ AnswerType'
    BY <1>2 DEF DiskType, ThreadType, ProviderType, WaitType, AnswerType,
       Publish
  <2> QED
    BY <2>1, <2>2 DEF TypeOK
<1>3. CASE HealthChanges
  <2>1. EnvType'
    BY <1>3 DEF EnvType, HealthChanges
  <2>2. DiskType' /\ ThreadType' /\ ProviderType' /\ WaitType' /\ AnswerType'
    BY <1>3 DEF DiskType, ThreadType, ProviderType, WaitType, AnswerType,
       HealthChanges
  <2> QED
    BY <2>1, <2>2 DEF TypeOK
<1>4. ASSUME NEW t \in Threads, Lock(t) \/ LockError(t) PROVE TypeOK'
  <2>1. CASE Lock(t) \/ LockError(t)
    <3>1. ThreadType'
      BY <2>1 DEF ThreadType, Lock, LockError, NewPCs, UpdatePCs
    <3>2. EnvType' /\ DiskType' /\ ProviderType' /\ WaitType' /\ AnswerType'
      BY <2>1 DEF EnvType, DiskType, ProviderType, WaitType, AnswerType, Lock,
         LockError
    <3> QED
      BY <3>1, <3>2 DEF TypeOK
  <2> QED
    BY <1>4, <2>1
<1>5. ASSUME NEW p \in Providers, NewTrustProvider(p) \/ NewStep(p) \/ TickerFires(p) PROVE TypeOK'
  <2>1. CASE NewTrustProvider(p) \/ TickerFires(p) \/ NewError(p)
    <3>1. ThreadType'
      BY <2>1, ThreadFacts DEF ThreadType, NewTrustProvider, TickerFires,
         NewError, NewPCs, UpdatePCs
    <3>2. DiskType'
      BY <2>1, VersionFacts DEF DiskType, NewTrustProvider, TickerFires, NewError, CacheBecomes
    <3>3. EnvType' /\ ProviderType' /\ WaitType' /\ AnswerType'
      BY <2>1 DEF EnvType, ProviderType, WaitType, AnswerType,
         NewTrustProvider, TickerFires, NewError
    <3> QED
      BY <3>1, <3>2, <3>3 DEF TypeOK
  <2>2. CASE CopyEmbeddedRoot(p)
    <3>1. DiskType'
      BY <2>2, VersionFacts DEF DiskType, CopyEmbeddedRoot
    <3>2. ThreadType'
      BY <2>2, ThreadFacts DEF ThreadType, CopyEmbeddedRoot, NewPCs, UpdatePCs
    <3>3. EnvType' /\ ProviderType' /\ WaitType' /\ AnswerType'
      BY <2>2 DEF EnvType, ProviderType, WaitType, AnswerType,
         CopyEmbeddedRoot
    <3> QED
      BY <3>1, <3>2, <3>3 DEF TypeOK
  <2>3. CASE CopyEmbeddedRootError(p)
    <3>1. DiskType'
      BY <2>3, VersionFacts DEF DiskType, CopyEmbeddedRootError, CutCopy
    <3>2. ThreadType'
      BY <2>3, ThreadFacts DEF ThreadType, CopyEmbeddedRootError, NewPCs,
         UpdatePCs
    <3>3. EnvType' /\ ProviderType' /\ WaitType' /\ AnswerType'
      BY <2>3 DEF EnvType, ProviderType, WaitType, AnswerType,
         CopyEmbeddedRootError
    <3> QED
      BY <3>1, <3>2, <3>3 DEF TypeOK
  <2>4. CASE NewOnline(p)
    <3>1. DiskType'
      BY <2>4, VersionFacts DEF DiskType, NewOnline, Made, CacheBecomes
    <3>2. ThreadType'
      BY <2>4, ThreadFacts DEF ThreadType, NewOnline, NewPCs, UpdatePCs, Made
    <3>3. ProviderType'
      BY <2>4, VersionFacts DEF ProviderType, NewOnline, DiskType, Client,
         Made
    <3>4. EnvType' /\ WaitType' /\ AnswerType'
      BY <2>4 DEF EnvType, WaitType, AnswerType, NewOnline, Made
    <3> QED
      BY <3>1, <3>2, <3>3, <3>4 DEF TypeOK
  <2>5. CASE NewFromCache(p) \/ NewAirgapped(p)
    <3>1. DiskType'
      BY <2>5, VersionFacts DEF DiskType, NewFromCache, NewAirgapped, Made
    <3>2. ThreadType'
      BY <2>5, ThreadFacts DEF ThreadType, NewFromCache, NewAirgapped, NewPCs,
         UpdatePCs, Made
    <3>3. ProviderType'
      BY <2>5 DEF ProviderType, NewFromCache, NewAirgapped, DiskType, Client,
         Made
    <3>4. EnvType' /\ WaitType' /\ AnswerType'
      BY <2>5 DEF EnvType, WaitType, AnswerType, NewFromCache, Made, NewAirgapped
    <3> QED
      BY <3>1, <3>2, <3>3, <3>4 DEF TypeOK
  <2>6. CASE NewReturn(p)
    <3>1. ThreadType'
      BY <2>6, ThreadFacts DEF ThreadType, NewReturn, NewPCs, UpdatePCs
    <3>2. ProviderType'
      BY <2>6 DEF ProviderType, NewReturn
    <3>3. EnvType' /\ DiskType' /\ WaitType' /\ AnswerType'
      BY <2>6 DEF EnvType, DiskType, WaitType, AnswerType, NewReturn
    <3> QED
      BY <3>1, <3>2, <3>3 DEF TypeOK
  <2> QED
    BY <1>5, <2>1, <2>2, <2>3, <2>4, <2>5, <2>6 DEF NewStep
<1>6. ASSUME NEW p \in Providers, Crash(p) PROVE TypeOK'
  <2>1. CASE Crash(p)
    <3>1. DiskType'
      BY <2>1, VersionFacts DEF DiskType, Crash, CutCopy, CacheBecomes
    <3>2. ThreadType'
      BY <2>1, VersionFacts DEF ThreadType, Crash, NewPCs, UpdatePCs, Lost
    <3>3. ProviderType'
      BY <2>1, VersionFacts DEF ProviderType, Crash, NoClient, NoStatus,
         Client, Status
    <3>4. WaitType'
      BY <2>1, VersionFacts DEF WaitType, Crash, Lost, NoStatus, Status, Ended
    <3>5. AnswerType'
      BY <2>1, VersionFacts DEF AnswerType, Crash, Lost, NoClient, Client
    <3>6. EnvType'
      BY <2>1 DEF EnvType, Crash
    <3> QED
      BY <3>1, <3>2, <3>3, <3>4, <3>5, <3>6 DEF TypeOK
  <2> QED
    BY <1>6, <2>1
<1>7. ASSUME NEW t \in Updaters, UpdateStep(t) PROVE TypeOK'
  <2>1. CASE UpdateRefresh(t) \/ UpdateRefreshError(t)
    <3>1. DiskType'
      BY <2>1, VersionFacts DEF DiskType, UpdateRefresh, UpdateRefreshError, CacheBecomes
    <3>2. ThreadType'
      BY <2>1, VersionFacts, ThreadFacts DEF ThreadType, UpdateRefresh,
         UpdateRefreshError, NewPCs, UpdatePCs
    <3>3. EnvType' /\ ProviderType' /\ WaitType' /\ AnswerType'
      BY <2>1 DEF EnvType, ProviderType, WaitType, AnswerType, UpdateRefresh,
         UpdateRefreshError
    <3> QED
      BY <3>1, <3>2, <3>3 DEF TypeOK
  <2>2. CASE UpdateCommit(t)
    <3>1. ThreadType'
      BY <2>2, VersionFacts, ThreadFacts DEF ThreadType, UpdateCommit, NewPCs,
         UpdatePCs
    <3>2. ProviderType'
      BY <2>2, ProviderFacts DEF ProviderType, UpdateCommit, ThreadType,
         Updated, Client, Status
    <3>3. EnvType' /\ DiskType' /\ WaitType' /\ AnswerType'
      BY <2>2 DEF EnvType, DiskType, WaitType, AnswerType, UpdateCommit
    <3> QED
      BY <3>1, <3>2, <3>3 DEF TypeOK
  <2>3. CASE UpdateUnlock(t)
    <3>1. ThreadType'
      BY <2>3, ThreadFacts DEF ThreadType, UpdateUnlock, NewPCs, UpdatePCs
    <3>2. EnvType' /\ DiskType' /\ ProviderType' /\ WaitType' /\ AnswerType'
      BY <2>3 DEF EnvType, DiskType, ProviderType, WaitType, AnswerType,
         UpdateUnlock
    <3> QED
      BY <3>1, <3>2 DEF TypeOK
  <2>4. CASE UpdateSetError(t)
    <3>1. ThreadType'
      BY <2>4, ThreadFacts DEF ThreadType, UpdateSetError, NewPCs, UpdatePCs
    <3>2. ProviderType'
      BY <2>4, ProviderFacts DEF ProviderType, UpdateSetError, Status
    <3>3. EnvType' /\ DiskType' /\ WaitType' /\ AnswerType'
      BY <2>4 DEF EnvType, DiskType, WaitType, AnswerType, UpdateSetError
    <3> QED
      BY <3>1, <3>2, <3>3 DEF TypeOK
  <2> QED
    BY <1>7, <2>1, <2>2, <2>3, <2>4 DEF UpdateStep
<1>8. ASSUME NEW c \in Calls, TrustedRoot(c) \/ CallStep(c) \/ WaitDone(c) \/ WaitSend(c) PROVE TypeOK'
  <2>1. CASE TrustedRoot(c)
    <3>1. WaitType'
      BY <2>1 DEF WaitType, TrustedRoot, Active
    <3>2. AnswerType'
      BY <2>1, ProviderFacts DEF AnswerType, TrustedRoot, ProviderType, Client
    <3>3. EnvType' /\ DiskType' /\ ThreadType' /\ ProviderType'
      BY <2>1 DEF EnvType, DiskType, ThreadType, ProviderType, TrustedRoot
    <3> QED
      BY <3>1, <3>2, <3>3 DEF TypeOK
  <2>2. CASE WaitPoll(c)
    <3>1. ThreadType'
      BY <2>2, ThreadFacts DEF ThreadType, WaitPoll, NewPCs, UpdatePCs
    <3>2. WaitType'
      BY <2>2 DEF WaitType, WaitPoll, Active
    <3>3. AnswerType'
      BY <2>2, ProviderFacts DEF AnswerType, WaitPoll, ProviderType
    <3>4. EnvType' /\ DiskType' /\ ProviderType'
      BY <2>2 DEF EnvType, DiskType, ProviderType, WaitPoll
    <3> QED
      BY <3>1, <3>2, <3>3, <3>4 DEF TypeOK
  <2>3. CASE WaitReceive(c)
    <3>1. WaitType'
      BY <2>3 DEF WaitType, WaitReceive, Active, Status
    <3>2. EnvType' /\ DiskType' /\ ThreadType' /\ ProviderType' /\ AnswerType'
      BY <2>3 DEF EnvType, DiskType, ThreadType, ProviderType, AnswerType,
         WaitReceive
    <3> QED
      BY <3>1, <3>2 DEF TypeOK
  <2>4. CASE WaitTimer(c)
    <3>1. WaitType'
      BY <2>4 DEF WaitType, WaitTimer, Active
    <3>2. EnvType' /\ DiskType' /\ ThreadType' /\ ProviderType' /\ AnswerType'
      BY <2>4 DEF EnvType, DiskType, ThreadType, ProviderType, AnswerType,
         WaitTimer
    <3> QED
      BY <3>1, <3>2 DEF TypeOK
  <2>5. CASE WaitDone(c)
    <3>1. WaitType'
      BY <2>5 DEF WaitType, WaitDone, Active, Status
    <3>2. EnvType' /\ DiskType' /\ ThreadType' /\ ProviderType' /\ AnswerType'
      BY <2>5 DEF EnvType, DiskType, ThreadType, ProviderType, AnswerType,
         WaitDone
    <3> QED
      BY <3>1, <3>2 DEF TypeOK
  <2>6. CASE TrustedRootFallback(c)
    <3>1. WaitType'
      BY <2>6 DEF WaitType, TrustedRootFallback, Active
    <3>2. AnswerType'
      BY <2>6, ProviderFacts DEF AnswerType, TrustedRootFallback, ProviderType
    <3>3. EnvType' /\ DiskType' /\ ThreadType' /\ ProviderType'
      BY <2>6 DEF EnvType, DiskType, ThreadType, ProviderType,
         TrustedRootFallback
    <3> QED
      BY <3>1, <3>2, <3>3 DEF TypeOK
  <2>7. CASE FindCachedTarget(c)
    <3>1. WaitType'
      BY <2>7 DEF WaitType, FindCachedTarget, Active, Ended
    <3>2. AnswerType'
      BY <2>7, VersionFacts DEF AnswerType, FindCachedTarget, Cached, Client
    <3>3. EnvType' /\ DiskType' /\ ThreadType' /\ ProviderType'
      BY <2>7 DEF EnvType, DiskType, ThreadType, ProviderType,
         FindCachedTarget
    <3> QED
      BY <3>1, <3>2, <3>3 DEF TypeOK
  <2>8. CASE DownloadTarget(c)
    <3>1. DiskType'
      BY <2>8 DEF DiskType, DownloadTarget
    <3>2. WaitType'
      BY <2>8 DEF WaitType, DownloadTarget, Active, Writing
    <3>3. EnvType' /\ ThreadType' /\ ProviderType' /\ AnswerType'
      BY <2>8 DEF EnvType, ThreadType, ProviderType, AnswerType,
         DownloadTarget
    <3> QED
      BY <3>1, <3>2, <3>3 DEF TypeOK
  <2>9. CASE WriteTarget(c)
    <3>1. DiskType'
      BY <2>9, VersionFacts DEF DiskType, WriteTarget, AnswerType, Client
    <3>2. WaitType'
      BY <2>9 DEF WaitType, WriteTarget, Ended
    <3>3. AnswerType'
      BY <2>9, VersionFacts DEF AnswerType, WriteTarget, Client
    <3>4. EnvType' /\ ThreadType' /\ ProviderType'
      BY <2>9 DEF EnvType, ThreadType, ProviderType, WriteTarget
    <3> QED
      BY <3>1, <3>2, <3>3, <3>4 DEF TypeOK
  <2>10. CASE GetTargetError(c)
    <3>1. WaitType'
      BY <2>10 DEF WaitType, GetTargetError, Ended
    <3>2. AnswerType'
      BY <2>10, VersionFacts DEF AnswerType, GetTargetError, NoClient, Client
    <3>3. EnvType' /\ DiskType' /\ ThreadType' /\ ProviderType'
      BY <2>10 DEF EnvType, DiskType, ThreadType, ProviderType, GetTargetError
    <3> QED
      BY <3>1, <3>2, <3>3 DEF TypeOK
  <2>11. CASE WaitSend(c)
    <3>1. ThreadType'
      BY <2>11, ThreadFacts DEF ThreadType, WaitSend, NewPCs, UpdatePCs
    <3>2. WaitType'
      BY <2>11 DEF WaitType, WaitSend
    <3>3. EnvType' /\ DiskType' /\ ProviderType' /\ AnswerType'
      BY <2>11 DEF EnvType, DiskType, ProviderType, AnswerType, WaitSend
    <3> QED
      BY <3>1, <3>2, <3>3 DEF TypeOK
  <2> QED
    BY <1>8, <2>1, <2>2, <2>3, <2>4, <2>5, <2>6, <2>7, <2>8, <2>9, <2>10, <2>11 DEF CallStep
<1> QED
  BY <1>1, <1>2, <1>3, <1>4, <1>5, <1>6, <1>7, <1>8 DEF Next

\* Every variable keeps its type (the type invariant of the runs).
THEOREM TypeCorrect == Spec => []TypeOK
BY InitType, StepType, PTL DEF Spec

-----------------------------------------------------------------------------
(* The file lock. *)

\* No step lets a second goroutine into the sections under the file lock.
LEMMA LockInductive ==
    ASSUME TypeOK, MutualExclusion, [Next]_vars
    PROVE  MutualExclusion'
<1> USE DEF vars, envVars, cacheVars, diskVars, procVars, callVars
<1> SUFFICES ASSUME NEW u \in Threads, th'[u] \in Locked
             PROVE  flock' = u
  BY DEF MutualExclusion
<1>0. ThreadType /\ (th[u] \in Locked => flock = u)
  BY DEF TypeOK, MutualExclusion
<1> USE <1>0, ThreadFacts DEF ThreadType, Locked
<1>1. CASE UNCHANGED vars \/ Publish \/ HealthChanges
  BY <1>1 DEF Publish, HealthChanges
<1>2. ASSUME NEW t \in Threads, Lock(t) \/ LockError(t) PROVE flock' = u
  BY <1>2, NoneIsNoThread DEF Lock, LockError, CanLock
<1>3. ASSUME NEW p \in Providers, NewTrustProvider(p) \/ NewStep(p) \/ TickerFires(p)
      PROVE  flock' = u
  <2>1. CASE NewReturn(p)
    BY <2>1 DEF NewReturn, MutualExclusion
  <2>2. CASE NewFromCache(p) \/ NewOnline(p) \/ NewAirgapped(p)
    BY <2>2 DEF NewFromCache, NewOnline, NewAirgapped, Made
  <2>3. CASE NewTrustProvider(p) \/ TickerFires(p) \/ NewError(p)
    BY <2>3 DEF NewTrustProvider, TickerFires, NewError
  <2>4. CASE CopyEmbeddedRoot(p) \/ CopyEmbeddedRootError(p)
    BY <2>4 DEF CopyEmbeddedRoot, CopyEmbeddedRootError
  <2> QED
    BY <1>3, <2>1, <2>2, <2>3, <2>4 DEF NewStep
<1>4. ASSUME NEW p \in Providers, Crash(p) PROVE flock' = u
  BY <1>4 DEF Crash, Lost
<1>5. ASSUME NEW t \in Updaters, UpdateStep(t) PROVE flock' = u
  <2>1. CASE UpdateUnlock(t)
    BY <2>1 DEF UpdateUnlock, MutualExclusion
  <2>2. CASE UpdateRefresh(t) \/ UpdateRefreshError(t) \/ UpdateCommit(t) \/ UpdateSetError(t)
    BY <2>2 DEF UpdateRefresh, UpdateRefreshError, UpdateCommit, UpdateSetError
  <2> QED
    BY <1>5, <2>1, <2>2 DEF UpdateStep
<1>6. ASSUME NEW c \in Calls, TrustedRoot(c) \/ CallStep(c) \/ WaitDone(c) \/ WaitSend(c)
      PROVE  flock' = u
  <2>1. CASE WaitPoll(c) \/ WaitSend(c)
    BY <2>1 DEF WaitPoll, WaitSend
  <2>2. CASE UNCHANGED <<th, flock>>
    BY <2>2
  <2> QED
    BY <1>6, <2>1, <2>2 DEF CallStep, TrustedRoot, WaitDone, WaitReceive, WaitTimer,
       TrustedRootFallback, FindCachedTarget, DownloadTarget, WriteTarget, GetTargetError
<1> QED
  BY <1>1, <1>2, <1>3, <1>4, <1>5, <1>6 DEF Next

-----------------------------------------------------------------------------
(* The life of a provider. *)

\* What a step of a call does to the goroutines: it may start its own update.
LEMMA CallFrame ==
    ASSUME NEW c \in Calls, TrustedRoot(c) \/ CallStep(c) \/ WaitDone(c) \/ WaitSend(c)
    PROVE  UNCHANGED <<repo, cache, replayed, flock, cver, prov, client, status>>
BY DEF CallStep, TrustedRoot, WaitDone, WaitSend, WaitPoll, WaitReceive, WaitTimer,
   TrustedRootFallback, FindCachedTarget, DownloadTarget, WriteTarget, GetTargetError,
   envVars, procVars, cacheVars, diskVars

\* No step leaves goroutines or calls of a process that is down (LifeInv).
LEMMA LifeInductive ==
    ASSUME TypeOK, LifeInv, [Next]_vars
    PROVE  LifeInv'
<1> USE DEF vars, envVars, cacheVars, diskVars, procVars, callVars
<1>0. ThreadType /\ ProviderType /\ WaitType
  BY DEF TypeOK
<1> USE <1>0, ThreadFacts, ProviderFacts
    DEF ThreadType, ProviderType, WaitType, LifeInv, Active
<1>1. CASE UNCHANGED vars \/ Publish \/ HealthChanges
  BY <1>1 DEF Publish, HealthChanges
<1>2. ASSUME NEW t \in Threads, Lock(t) \/ LockError(t) PROVE LifeInv'
  BY <1>2 DEF Lock, LockError, CanLock
<1>3. ASSUME NEW p \in Providers, NewTrustProvider(p) \/ NewStep(p) \/ TickerFires(p)
      PROVE  LifeInv'
  <2>1. CASE NewReturn(p)
    BY <2>1 DEF NewReturn
  <2>2. CASE NewFromCache(p) \/ NewOnline(p) \/ NewAirgapped(p)
    <3>1. /\ th[New(p)] = "load"
          /\ th' = [th EXCEPT ![New(p)] = "unlock", ![Boot(p)] = "lock"]
          /\ prov' = [prov EXCEPT ![p] = "made"]
          /\ UNCHANGED <<status, pc>>
      BY <2>2 DEF NewFromCache, NewOnline, NewAirgapped, Made
    <3>2. ASSUME NEW q \in Providers
          PROVE  /\ th'[New(q)] \in {"lock", "seed", "load", "unlockErr"} => prov'[q] = "down"
                 /\ th'[New(q)] = "unlock" => prov'[q] = "made"
                 /\ prov'[q] = "down" => status'[q].updated = "nil"
      BY <3>1
    <3>3. ASSUME NEW u \in Updaters, th'[u] # "idle" PROVE prov'[ProviderOf(u)] # "down"
      BY <3>1, <3>3
    <3>4. ASSUME NEW c \in Calls, pc'[c] \in Active PROVE prov'[Home[c]] = "up"
      BY <3>1, <3>4
    <3> QED
      BY <3>2, <3>3, <3>4
  <2>3. CASE NewTrustProvider(p) \/ TickerFires(p) \/ NewError(p)
    BY <2>3 DEF NewTrustProvider, TickerFires, NewError
  <2>4. CASE CopyEmbeddedRoot(p) \/ CopyEmbeddedRootError(p)
    BY <2>4 DEF CopyEmbeddedRoot, CopyEmbeddedRootError
  <2> QED
    BY <1>3, <2>1, <2>2, <2>3, <2>4 DEF NewStep
<1>4. ASSUME NEW p \in Providers, Crash(p) PROVE LifeInv'
  BY <1>4, ProcessFacts DEF Crash, Lost, NoStatus, CallsOf
<1>5. ASSUME NEW t \in Updaters, UpdateStep(t) PROVE LifeInv'
  <2>1. CASE UpdateUnlock(t)
    BY <2>1 DEF UpdateUnlock
  <2>2. CASE UpdateRefresh(t) \/ UpdateRefreshError(t)
    BY <2>2 DEF UpdateRefresh, UpdateRefreshError
  <2>3. CASE UpdateCommit(t)
    BY <2>3 DEF UpdateCommit
  <2>4. CASE UpdateSetError(t)
    BY <2>4 DEF UpdateSetError, Status
  <2> QED
    BY <1>5, <2>1, <2>2, <2>3, <2>4 DEF UpdateStep
<1>6. ASSUME NEW c \in Calls, TrustedRoot(c) \/ CallStep(c) \/ WaitDone(c) \/ WaitSend(c)
      PROVE  LifeInv'
  <2>1. CASE WaitPoll(c)
    BY <2>1 DEF WaitPoll
  <2>2. CASE WaitSend(c)
    BY <2>2 DEF WaitSend
  <2>3. CASE TrustedRoot(c) \/ WaitDone(c) \/ WaitReceive(c) \/ WaitTimer(c)
    BY <2>3 DEF TrustedRoot, WaitDone, WaitReceive, WaitTimer
  <2>4. CASE TrustedRootFallback(c) \/ FindCachedTarget(c)
    BY <2>4 DEF TrustedRootFallback, FindCachedTarget
  <2>5. CASE DownloadTarget(c) \/ WriteTarget(c) \/ GetTargetError(c)
    BY <2>5 DEF DownloadTarget, WriteTarget, GetTargetError, Writing
  <2> QED
    BY <1>6, <2>1, <2>2, <2>3, <2>4, <2>5 DEF CallStep
<1> QED
  BY <1>1, <1>2, <1>3, <1>4, <1>5, <1>6 DEF Next

-----------------------------------------------------------------------------
(* The versions: the disk moves forward, and under the file lock. *)

\* A step that changes the version on disk is one of the goroutine that holds
\* the file lock, or the end of its process; it lowers the version only when the
\* repository replays an old one.
LEMMA CacheStep ==
    ASSUME TypeOK, [Next]_vars
    PROVE  /\ cache' \in Nat /\ cache \in Nat
           /\ ~replayed' => ~replayed /\ cache' >= cache
<1> USE DEF vars, envVars, cacheVars, diskVars, procVars, callVars
<1>0. cache \in Nat /\ EnvType /\ DiskType
  BY VersionFacts DEF TypeOK, DiskType
<1> USE <1>0, VersionFacts
<1>1. CASE UNCHANGED <<cache, replayed>>
  BY <1>1
<1>2. ASSUME NEW v \in AfterFailedRefresh \cup RefreshResults, CacheBecomes(v)
      PROVE  cache' \in Nat /\ (~replayed' => ~replayed /\ cache' >= cache)
  <2>1. v \in Nat /\ (v >= cache \/ KeyOf[v] # KeyOf[cache]) /\ cache' = v
    BY <1>2 DEF CacheBecomes
  <2>2. CASE v >= cache
    BY <1>2, <2>1, <2>2 DEF CacheBecomes
  <2>3. CASE v < cache /\ KeyOf[v] # KeyOf[cache]
    BY <1>2, <2>3 DEF CacheBecomes
  <2> QED
    BY <2>1, <2>2, <2>3
<1>3. CASE \E p \in Providers : Crash(p)
  BY <1>1, <1>2, <1>3 DEF Crash
<1>4. CASE \E p \in Providers : NewOnline(p) \/ NewError(p)
  BY <1>2, <1>4 DEF NewOnline, NewError
<1>5. CASE \E t \in Updaters : UpdateRefresh(t) \/ UpdateRefreshError(t)
  BY <1>2, <1>5 DEF UpdateRefresh, UpdateRefreshError
<1> QED
  BY <1>0, <1>1, <1>3, <1>4, <1>5, CallFrame
     DEF Next, Publish, HealthChanges, Lock, LockError, NewTrustProvider, NewStep,
         CopyEmbeddedRoot, CopyEmbeddedRootError, NewFromCache, NewAirgapped,
         NewReturn, TickerFires, UpdateStep, UpdateCommit, UpdateUnlock, UpdateSetError

\* Every step keeps a client that is about to be stored the newest: the version on disk
\* changes only under the file lock, which the goroutine that commits holds.
LEMMA CommitInductive ==
    ASSUME TypeOK, MutualExclusion, LifeInv, CommitIsNewest, [Next]_vars
    PROVE  CommitIsNewest'
<1> USE DEF vars, envVars, cacheVars, diskVars, procVars, callVars
<1>0. EnvType /\ DiskType /\ ThreadType /\ ProviderType
  BY DEF TypeOK
<1>1. /\ cache \in Nat /\ cache' \in Nat
      /\ ~replayed' => ~replayed /\ cache' >= cache
      /\ \A p \in Providers : client[p].ver \in Nat
      /\ \A t \in Updaters : cver[t] \in Nat
  BY <1>0, CacheStep, VersionFacts DEF ProviderType, Client, ThreadType
<1> USE <1>0, <1>1, ThreadFacts, ProviderFacts, VersionFacts
    DEF ThreadType, ProviderType, CommitIsNewest
<1>2. CASE UNCHANGED <<cache, replayed, cver, th, prov, client>>
  BY <1>2
<1>3. ASSUME NEW t \in Threads, Lock(t) \/ LockError(t) PROVE CommitIsNewest'
  BY <1>3 DEF Lock, LockError, CanLock
<1>4. ASSUME NEW p \in Providers, NewTrustProvider(p) \/ NewStep(p) \/ TickerFires(p)
      PROVE  CommitIsNewest'
  <2>1. CASE NewReturn(p)
    BY <2>1 DEF NewReturn, LifeInv
  <2>2. CASE NewFromCache(p) \/ NewAirgapped(p)
    <3>1. /\ client' = [client EXCEPT ![p] = [ver |-> cache, from |-> "cache"]]
          /\ th' = [th EXCEPT ![New(p)] = "unlock", ![Boot(p)] = "lock"]
          /\ prov' = [prov EXCEPT ![p] = "made"]
          /\ UNCHANGED <<cache, cver>>
      BY <2>2 DEF NewFromCache, NewAirgapped, Made
    <3>2. \A u \in Updaters : th'[u] = "commit" => cver'[u] = cache'
      BY <3>1
    <3>3. ~replayed' => \A q \in Providers : prov'[q] # "down" => client'[q].ver <= cache'
      BY <3>1
    <3> QED
      BY <3>2, <3>3
  <2>3. CASE NewOnline(p)
    <3>1. \A u \in Updaters : th[u] # "commit"
      BY <2>3 DEF NewOnline, MutualExclusion, Locked
    <3> QED
      BY <2>3, <3>1 DEF NewOnline, Made, Client, CacheBecomes
  <2>4. CASE NewTrustProvider(p) \/ TickerFires(p)
    BY <2>4 DEF NewTrustProvider, TickerFires
  <2>6. CASE NewError(p)
    <3>1. \A u \in Updaters : th[u] # "commit"
      BY <2>6 DEF NewError, MutualExclusion, Locked
    <3> QED
      BY <2>6, <3>1 DEF NewError, CacheBecomes
  <2>5. CASE CopyEmbeddedRoot(p) \/ CopyEmbeddedRootError(p)
    BY <2>5 DEF CopyEmbeddedRoot, CopyEmbeddedRootError
  <2> QED
    BY <1>4, <2>1, <2>2, <2>3, <2>4, <2>5, <2>6 DEF NewStep
<1>5. ASSUME NEW p \in Providers, Crash(p) PROVE CommitIsNewest'
  <2>1. ASSUME NEW u \in Updaters, th'[u] = "commit" PROVE cver'[u] = cache'
    <3>1. u \notin ThreadsOf(p) /\ th[u] = "commit" /\ cver'[u] = cver[u]
      BY <1>5, <2>1 DEF Crash, Lost
    <3>2. ~ \E t \in ThreadsOf(p) : th[t] \in {"load", "refresh"}
      BY <3>1, ConstantsAssumption
         DEF MutualExclusion, Locked, ThreadsOf, CallsOf, Threads, Updaters, News, Waits
    <3> QED
      BY <1>5, <3>1, <3>2 DEF Crash
  <2>2. ASSUME ~replayed', NEW q \in Providers, prov'[q] # "down" PROVE client'[q].ver <= cache'
    BY <1>5, <2>2 DEF Crash
  <2> QED
    BY <2>1, <2>2
<1>6. ASSUME NEW t \in Updaters, UpdateStep(t) PROVE CommitIsNewest'
  <2>1. CASE UpdateUnlock(t)
    BY <2>1 DEF UpdateUnlock
  <2>2. CASE UpdateRefresh(t) \/ UpdateRefreshError(t)
    <3>1. \A u \in Updaters : u # t => th[u] # "commit"
      BY <2>2 DEF UpdateRefresh, UpdateRefreshError, MutualExclusion, Locked
    <3> QED
      BY <2>2, <3>1 DEF UpdateRefresh, UpdateRefreshError, CacheBecomes
  <2>3. CASE UpdateCommit(t)
    BY <2>3 DEF UpdateCommit, Client
  <2>4. CASE UpdateSetError(t)
    BY <2>4 DEF UpdateSetError
  <2> QED
    BY <1>6, <2>1, <2>2, <2>3, <2>4 DEF UpdateStep
<1>7. ASSUME NEW c \in Calls, TrustedRoot(c) \/ CallStep(c) \/ WaitDone(c) \/ WaitSend(c)
      PROVE  CommitIsNewest'
  <2>1. CASE WaitPoll(c) \/ WaitSend(c)
    BY <2>1 DEF WaitPoll, WaitSend
  <2>2. CASE UNCHANGED th
    BY <1>7, <2>2, CallFrame
  <2> QED
    BY <1>7, <2>1, <2>2 DEF CallStep, TrustedRoot, WaitDone, WaitReceive, WaitTimer,
       TrustedRootFallback, FindCachedTarget, DownloadTarget, WriteTarget, GetTargetError
<1> QED
  BY <1>2, <1>3, <1>4, <1>5, <1>6, <1>7 DEF Next, Publish, HealthChanges

\* A provider that lives keeps its client or gets one that is not older, while nothing
\* was replayed.
LEMMA ClientStep ==
    ASSUME TypeOK, LifeInv, CommitIsNewest, [Next]_vars, ~replayed,
           NEW p \in Providers, prov[p] # "down", prov'[p] # "down"
    PROVE  client[p].ver \in Nat /\ client'[p].ver \in Nat /\ client'[p].ver >= client[p].ver
<1> USE DEF vars, envVars, cacheVars, diskVars, procVars, callVars
<1>0. EnvType /\ DiskType /\ ThreadType /\ ProviderType
  BY DEF TypeOK
<1>1. cache \in Nat /\ client[p].ver \in Nat
  BY <1>0, VersionFacts DEF ProviderType, Client, DiskType
<1>2. CASE client'[p] = client[p]
  BY <1>1, <1>2
<1>3. ASSUME NEW q \in Providers, NewFromCache(q) \/ NewOnline(q) \/ NewAirgapped(q)
      PROVE  client'[p] = client[p]
  <2>1. q # p
    BY <1>3 DEF NewFromCache, NewOnline, NewAirgapped, LifeInv
  <2> QED
    BY <1>0, <1>3, <2>1 DEF NewFromCache, NewOnline, NewAirgapped, Made, ProviderType
<1>4. ASSUME NEW q \in Providers, Crash(q) PROVE client'[p] = client[p]
  BY <1>0, <1>4 DEF Crash, ProviderType
<1>5. ASSUME NEW t \in Updaters, UpdateCommit(t), client'[p] # client[p]
      PROVE  client'[p].ver = cache
  BY <1>0, <1>5, ProviderFacts DEF UpdateCommit, ProviderType, CommitIsNewest
<1>6. CASE \E t \in Updaters : UpdateCommit(t)
  BY <1>1, <1>2, <1>5, <1>6 DEF CommitIsNewest
<1> QED
  BY <1>2, <1>3, <1>4, <1>6, CallFrame
     DEF Next, Publish, HealthChanges, Lock, LockError, NewTrustProvider, NewStep,
         CopyEmbeddedRoot, CopyEmbeddedRootError, NewError, NewReturn, TickerFires,
         UpdateStep, UpdateRefresh, UpdateRefreshError, UpdateUnlock, UpdateSetError

-----------------------------------------------------------------------------
(* The calls. *)

\* Steps of other actors leave a call where it is, unless its process stops or
\* its file is written by two calls at once.
LEMMA OtherSteps ==
    ASSUME TypeOK, [Next]_vars, NEW c \in Calls,
           ~(TrustedRoot(c) \/ CallStep(c) \/ WaitDone(c))
    PROVE  \/ pc'[c] = "crashed"
           \/ /\ \/ pc'[c] = pc[c]
                 \/ pc[c] \in Writing /\ pc'[c] \in Writing
              /\ st'[c] = st[c] /\ snap'[c] = snap[c] /\ data'[c] = data[c] /\ low'[c] = low[c]
<1> USE DEF vars, envVars, cacheVars, diskVars, procVars, callVars
<1>0. WaitType /\ AnswerType
  BY DEF TypeOK
<1> USE <1>0 DEF WaitType, AnswerType
<1>1. CASE UNCHANGED callVars
  BY <1>1
<1>2. ASSUME NEW p \in Providers, Crash(p)
      PROVE  \/ pc'[c] = "crashed"
             \/ /\ pc'[c] = pc[c] /\ st'[c] = st[c] /\ snap'[c] = snap[c]
                /\ data'[c] = data[c] /\ low'[c] = low[c]
  BY <1>2 DEF Crash, Lost
<1>3. ASSUME NEW d \in Calls, d # c, TrustedRoot(d) \/ CallStep(d) \/ WaitDone(d)
      PROVE  /\ pc'[c] = pc[c] \/ (pc[c] \in Writing /\ pc'[c] \in Writing)
             /\ st'[c] = st[c] /\ snap'[c] = snap[c] /\ data'[c] = data[c] /\ low'[c] = low[c]
  <2>1. CASE DownloadTarget(d)
    BY <1>3, <2>1 DEF DownloadTarget, Writing
  <2>2. CASE WaitPoll(d)
    BY <1>3, <2>2 DEF WaitPoll
  <2>3. CASE TrustedRoot(d) \/ WaitDone(d) \/ WaitReceive(d) \/ WaitTimer(d)
    BY <1>3, <2>3 DEF TrustedRoot, WaitDone, WaitReceive, WaitTimer
  <2>4. CASE TrustedRootFallback(d) \/ FindCachedTarget(d)
    BY <1>3, <2>4 DEF TrustedRootFallback, FindCachedTarget
  <2>5. CASE WriteTarget(d) \/ GetTargetError(d)
    BY <1>3, <2>5 DEF WriteTarget, GetTargetError
  <2> QED
    BY <1>3, <2>1, <2>2, <2>3, <2>4, <2>5 DEF CallStep
<1>4. CASE \E d \in Calls : WaitSend(d)
  BY <1>4 DEF WaitSend
<1> QED
  BY <1>1, <1>2, <1>3, <1>4
     DEF Next, Publish, HealthChanges, Lock, LockError, NewTrustProvider, NewStep,
         CopyEmbeddedRoot, CopyEmbeddedRootError, NewFromCache, NewOnline, NewAirgapped,
         Made, NewError, NewReturn, TickerFires,
         UpdateStep, UpdateRefresh, UpdateRefreshError, UpdateCommit, UpdateUnlock, UpdateSetError

\* A status without error goes with a client made from the repository (OnlineInv).
LEMMA OnlineInductive ==
    ASSUME TypeOK, LifeInv, OnlineInv, [Next]_vars
    PROVE  OnlineInv'
<1> USE DEF vars, envVars, cacheVars, diskVars, procVars, callVars
<1>0. ProviderType /\ WaitType /\ AnswerType
  BY DEF TypeOK
<1>1. ASSUME NEW p \in Providers, status'[p].updated # "nil" PROVE client'[p].from = "repo"
  <2> USE <1>0, ProviderFacts DEF ProviderType, OnlineInv
  <2>1. CASE UNCHANGED <<status, client>>
    BY <1>1, <2>1
  <2>2. ASSUME NEW q \in Providers, NewFromCache(q) \/ NewOnline(q) \/ NewAirgapped(q)
        PROVE  client'[p].from = "repo"
    <3>1. prov[q] = "down" /\ status[q].updated = "nil" /\ status' = status
      BY <2>2 DEF NewFromCache, NewOnline, NewAirgapped, Made, LifeInv
    <3>2. q # p
      BY <1>1, <3>1
    <3> QED
      BY <1>1, <2>2, <3>1, <3>2 DEF NewFromCache, NewOnline, NewAirgapped, Made
  <2>3. ASSUME NEW q \in Providers, Crash(q) PROVE client'[p].from = "repo"
    BY <1>1, <2>3 DEF Crash, NoStatus
  <2>4. ASSUME NEW t \in Updaters, UpdateCommit(t) PROVE client'[p].from = "repo"
    BY <1>1, <2>4 DEF UpdateCommit
  <2>5. ASSUME NEW t \in Updaters, UpdateSetError(t) PROVE client'[p].from = "repo"
    BY <1>1, <2>5 DEF UpdateSetError, Status
  <2> QED
    BY <2>1, <2>2, <2>3, <2>4, <2>5, CallFrame
       DEF Next, Publish, HealthChanges, Lock, LockError, NewTrustProvider, NewStep,
           CopyEmbeddedRoot, CopyEmbeddedRootError, NewError, NewReturn, TickerFires,
           UpdateStep, UpdateRefresh, UpdateRefreshError, UpdateUnlock
<1>2. ASSUME NEW c \in Calls
      PROVE  /\ pc'[c] = "fallback" => st'[c].err # "nil"
             /\ pc'[c] \in Holding => st'[c].err # "nil" \/ snap'[c].from = "repo"
  <2> USE <1>0, ProviderFacts DEF WaitType, AnswerType, OnlineInv, Holding
  <2>1. CASE ~(TrustedRoot(c) \/ CallStep(c) \/ WaitDone(c))
    BY <2>1, OtherSteps DEF Writing
  <2>2. CASE TrustedRoot(c) \/ WaitTimer(c)
    BY <2>2 DEF TrustedRoot, WaitTimer
  <2>3. CASE WaitDone(c) \/ WaitReceive(c)
    BY <2>3 DEF WaitDone, WaitReceive, Status
  <2>4. CASE WaitPoll(c)
    BY <2>4 DEF WaitPoll, Clean
  <2>5. CASE TrustedRootFallback(c) \/ FindCachedTarget(c)
    BY <2>5 DEF TrustedRootFallback, FindCachedTarget
  <2>6. CASE DownloadTarget(c) \/ WriteTarget(c) \/ GetTargetError(c)
    BY <2>6 DEF DownloadTarget, WriteTarget, GetTargetError, Writing
  <2> QED
    BY <2>1, <2>2, <2>3, <2>4, <2>5, <2>6 DEF CallStep
<1> QED
  BY <1>1, <1>2 DEF OnlineInv

\* Every step keeps a call at or above the version its provider had when it began.
LEMMA LowInductive ==
    ASSUME TypeOK, LifeInv, CommitIsNewest, LowInv, [Next]_vars
    PROVE  LowInv'
<1> USE DEF vars, envVars, cacheVars, diskVars, procVars, callVars
<1>0. EnvType /\ DiskType /\ ThreadType /\ ProviderType /\ WaitType /\ AnswerType
  BY DEF TypeOK
<1> SUFFICES ASSUME ~replayed', NEW c \in Calls
             PROVE  /\ pc'[c] \in {"poll", "select", "fallback"} => low'[c] <= client'[Home[c]].ver
                    /\ pc'[c] \in Holding => low'[c] <= snap'[c].ver
  BY DEF LowInv
<1>1. low[c] \in Nat /\ Home[c] \in Providers /\ client[Home[c]].ver \in Nat
  BY <1>0, VersionFacts, ProviderFacts DEF AnswerType, ProviderType, Client
<1>a. /\ ~replayed
      /\ pc[c] \in {"poll", "select", "fallback"} => low[c] <= client[Home[c]].ver
      /\ pc[c] \in Holding => low[c] <= snap[c].ver
  BY CacheStep DEF LowInv
<1> USE <1>0, <1>1, <1>a DEF WaitType, AnswerType, Holding
<1>2. CASE ~(TrustedRoot(c) \/ CallStep(c) \/ WaitDone(c))
  <2>1. CASE pc'[c] = "crashed"
    BY <2>1
  <2>2. CASE pc'[c] \in {"poll", "select", "fallback"}
    <3>1. pc[c] \in {"poll", "select", "fallback"} /\ low'[c] = low[c]
      BY <1>2, <2>2, OtherSteps DEF Writing
    <3>2. prov[Home[c]] # "down" /\ prov'[Home[c]] # "down"
      BY <2>2, <3>1, LifeInductive DEF LifeInv, Active
    <3>3. client'[Home[c]].ver \in Nat /\ client'[Home[c]].ver >= client[Home[c]].ver
      BY <3>2, ClientStep
    <3> QED
      BY <2>2, <3>1, <3>3
  <2>3. CASE pc'[c] \in Holding
    BY <1>2, <2>3, OtherSteps DEF Writing
  <2> QED
    BY <2>1, <2>2, <2>3
<1>3. CASE TrustedRoot(c)
  BY <1>3 DEF TrustedRoot
<1>4. CASE WaitDone(c) \/ WaitReceive(c) \/ WaitTimer(c)
  BY <1>4 DEF WaitDone, WaitReceive, WaitTimer
<1>5. CASE WaitPoll(c)
  BY <1>5 DEF WaitPoll
<1>6. CASE TrustedRootFallback(c) \/ FindCachedTarget(c)
  BY <1>6 DEF TrustedRootFallback, FindCachedTarget
<1>7. CASE DownloadTarget(c) \/ WriteTarget(c) \/ GetTargetError(c)
  BY <1>7 DEF DownloadTarget, WriteTarget, GetTargetError, Writing
<1> QED
  BY <1>2, <1>3, <1>4, <1>5, <1>6, <1>7 DEF CallStep

\* Every step keeps the answer that of the metadata the call uses.
LEMMA AnswerInductive ==
    ASSUME TypeOK, AnswerMatchesMetadata, [Next]_vars
    PROVE  AnswerMatchesMetadata'
<1> USE DEF vars, envVars, cacheVars, diskVars, procVars, callVars
<1>0. WaitType /\ AnswerType
  BY DEF TypeOK
<1> SUFFICES ASSUME NEW c \in Calls, pc'[c] = "done"
             PROVE  data'[c] = TargetOf[snap'[c].ver]
  BY DEF AnswerMatchesMetadata
<1> USE <1>0 DEF WaitType, AnswerType, AnswerMatchesMetadata
<1>1. CASE ~(TrustedRoot(c) \/ CallStep(c) \/ WaitDone(c))
  BY <1>1, OtherSteps DEF Writing
<1>2. CASE FindCachedTarget(c)
  BY <1>2 DEF FindCachedTarget, Cached
<1>3. CASE WriteTarget(c)
  BY <1>3 DEF WriteTarget
<1>4. pc'[c] # "done" \/ FindCachedTarget(c) \/ WriteTarget(c)
        \/ ~(TrustedRoot(c) \/ CallStep(c) \/ WaitDone(c))
  BY DEF CallStep, TrustedRoot, WaitDone, WaitReceive, WaitTimer, WaitPoll,
     TrustedRootFallback, DownloadTarget, GetTargetError
<1> QED
  BY <1>1, <1>2, <1>3, <1>4

-----------------------------------------------------------------------------
(* The theorems. *)

\* The inductive invariant holds in every behaviour.
LEMMA Invariance == Spec => []IInv
<1>1. Init => IInv
  <2>1. ASSUME Init PROVE MutualExclusion /\ LifeInv /\ AnswerMatchesMetadata
    BY <2>1, ThreadFacts, ProviderFacts
       DEF Init, MutualExclusion, Locked, LifeInv, AnswerMatchesMetadata, Active, NoStatus
  <2>2. ASSUME Init PROVE CommitIsNewest /\ OnlineInv /\ LowInv
    BY <2>2, ThreadFacts, ProviderFacts
       DEF Init, CommitIsNewest, OnlineInv, LowInv, Holding, NoStatus
  <2>3. Init => TypeOK
    BY InitType
  <2> QED
    BY <2>1, <2>2, <2>3 DEF IInv
<1>2. IInv /\ [Next]_vars => IInv'
  BY StepType, LockInductive, LifeInductive, CommitInductive, OnlineInductive, LowInductive,
     AnswerInductive DEF IInv
<1> QED
  BY <1>1, <1>2, PTL DEF Spec

\* Steps under the file lock exclude each other (tp.lock, for every number of
\* processes and calls).
THEOREM LockSafe == Spec => []MutualExclusion
BY Invariance, PTL DEF IInv

\* The client that update() stores is the newest of all processes', unless the
\* repository replayed an old version behind a root it withheld.
THEOREM CommitSafe == Spec => []CommitIsNewest
BY Invariance, PTL DEF IInv

\* A living provider never goes back to older metadata by any order of the steps of
\* processes, goroutines and calls: only a repository that withholds a root does that.
THEOREM ClientMonotone == Spec => ClientNeverOlder
<1>1. IInv /\ [Next]_vars =>
        [~replayed => \A p \in Providers :
            prov[p] # "down" /\ prov'[p] # "down" => client'[p].ver >= client[p].ver]_vars
  BY ClientStep DEF IInv
<1> QED
  BY <1>1, Invariance, PTL DEF Spec, ClientNeverOlder

\* TrustedRoot returns without an error only what was refreshed from the repository.
THEOREM AnswerRefreshed == Spec => []NoErrorMeansRefreshed
<1>1. IInv => NoErrorMeansRefreshed
  BY DEF IInv, OnlineInv, Holding, NoErrorMeansRefreshed
<1> QED
  BY <1>1, Invariance, PTL

\* The trusted root that TrustedRoot returns is the one that the metadata of its
\* client names, whoever else updates the cache directory in between.
THEOREM AnswerFits == Spec => []AnswerMatchesMetadata
<1>1. IInv => AnswerMatchesMetadata
  BY DEF IInv
<1> QED
  BY <1>1, Invariance, PTL

\* TrustedRoot returns nothing older than what the provider had when it was called,
\* unless the repository replayed an old version behind a root it withheld.
THEOREM AnswerFresh == Spec => []AnswerNotOlderThanCall
<1>1. ASSUME IInv PROVE AnswerNotOlderThanCall
  <2>1. \A c \in Calls : low[c] \in Nat /\ snap[c].ver \in Nat
    BY <1>1, VersionFacts DEF IInv, TypeOK, AnswerType, Client
  <2> QED
    BY <1>1, <2>1 DEF IInv, LowInv, Holding, AnswerNotOlderThanCall
<1> QED
  BY <1>1, Invariance, PTL
=============================================================================
