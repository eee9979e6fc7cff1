--------------------- MODULE ArtifactVerificationProofs ---------------------
(***************************************************************************)
(* Proofs about VerifyArtifact for every call, with whatever bundle,       *)
(* digest, threshold and answer of GitHub.                                 *)
(***************************************************************************)
EXTENDS ArtifactVerification, SigstoreVerifierProofs

-----------------------------------------------------------------------------
(* The inductive invariant. *)

\* What Verify has found when it accepts, and the SignatureInfo it makes of that.
Accepted ==
    LET result == VerificationResult(entity, VerifierOpts(entity)) IN
    /\ Verified(entity, FulcioRoot, VerifierOpts(entity), dgst)
    /\ result.certificate # None
    /\ opts.slsaNotRequired \/ (result.statement # None /\ isSLSAPredicateType(result.statement.predicate))
    /\ info = SignatureInfo

\* The bundle and what was loaded from it.
LoadInv ==
    /\ pc \in {"run", "artifact", "bundle"} => call.by = "command"
    /\ pc \in {"run", "artifact", "bundle", "load"} => entity = None
    /\ pc = "load" => BundleType(bundle)
    /\ call.by # "command" => dgst = call.digest
    /\ pc \in {"bundle", "load"} /\ call.by = "command" => dgst # NoColon
    /\ pc \in {"root", "verify", "verified", "printed"} =>
          entity # Unparsable /\ BundleType(entity) /\ entity.entries # Unparsable

\* The trusted root's status, the verdict and the report.
VerdictInv ==
    /\ pc \in {"verify", "verified", "printed"} => st \in Statuses
    /\ pc \notin {"verified", "printed"} => info = None
    /\ pc \in {"verified", "printed"} => Accepted
    /\ pc = "printed" => out = IF call.json THEN Encode(info) ELSE Format(info)

BaseInv ==
    /\ call \in Calls
    /\ pc \in Steps
    /\ entity = None \/ DOMAIN entity = {"version", "doc", "sig", "cert", "entries", "stamps"}
    /\ st \in Statuses \cup {None}

IInv == BaseInv /\ LoadInv /\ VerdictInv /\ PanicHasKnownCause

-----------------------------------------------------------------------------
(* The steps. *)

\* Nothing is loaded or decided before the call begins.
LEMMA InitInv == Init => IInv
<1> SUFFICES ASSUME Init PROVE IInv
  OBVIOUS
<1>1. call.by # "command" => BundleType(call.bundle)
  BY CallsAssumption DEF Init
<1>2. BaseInv
  BY DEF Init, BaseInv, Steps
<1>3. LoadInv
  BY <1>1 DEF Init, LoadInv
<1>4. VerdictInv /\ PanicHasKnownCause
  BY DEF Init, VerdictInv, PanicHasKnownCause
<1> QED
  BY <1>2, <1>3, <1>4 DEF IInv

\* Every error before a verdict leaves everything but pc alone.
LEMMA FailStep ==
    ASSUME IInv, Fail, UNCHANGED call, pc \notin {"verified", "printed"}
    PROVE  IInv'
<1>1. BaseInv'
  BY DEF Fail, IInv, BaseInv, Steps
<1>2. LoadInv' /\ PanicHasKnownCause'
  BY DEF Fail, IInv, LoadInv, PanicHasKnownCause
<1>3. VerdictInv'
  BY DEF Fail, IInv, VerdictInv
<1> QED
  BY <1>1, <1>2, <1>3 DEF IInv

\* The command up to the bundle.
LEMMA CommandStep ==
    ASSUME IInv, Run \/ DigestArtifact \/ GetBundle
    PROVE  IInv'
<1> USE DEF IInv, BaseInv, LoadInv, VerdictInv, Steps
<1>1. call \in Calls /\ call' = call /\ pc \notin {"verified", "printed"} /\ call.by = "command"
        /\ entity = None
  BY DEF Run, DigestArtifact, GetBundle
<1>2. CASE Fail
  BY <1>1, <1>2, FailStep
<1>3. ASSUME Run, ~Fail PROVE IInv'
  BY <1>1, <1>3 DEF Run, PanicHasKnownCause
<1>4. ASSUME DigestArtifact, ~Fail PROVE IInv'
  <2>1. call.artifact # NoColon
    BY <1>1, CallsAssumption
  <2> QED
    BY <1>1, <1>4, <2>1 DEF DigestArtifact, PanicHasKnownCause
<1>5. ASSUME GetBundle, ~Fail PROVE IInv'
  <2>1. CASE /\ call.bundlePath \notin {None, NoAnswer}
             /\ bundle' = call.bundlePath
             /\ pc' = "load"
             /\ UNCHANGED <<dgst, entity, st, info, out>>
    <3>1. BundleType(bundle')
      BY <1>1, <2>1, CallsAssumption
    <3> QED
      BY <1>1, <1>5, <2>1, <3>1 DEF GetBundle, PanicHasKnownCause
  <2>2. CASE call.repo # None /\ PullAttestation(call.repo) = "panic" /\ Panic
    BY <1>1, <1>5, <2>2 DEF GetBundle, Panic, PullAttestation, PanicHasKnownCause
  <2>3. CASE /\ call.repo # None /\ PullAttestation(call.repo) = "bundle"
             /\ bundle' = call.repo.attestations[1]
             /\ pc' = "load"
             /\ UNCHANGED <<dgst, entity, st, info, out>>
    <3>1. BundleType(bundle')
      BY <1>1, <2>3, CallsAssumption DEF PullAttestation
    <3> QED
      BY <1>1, <1>5, <2>3, <3>1 DEF GetBundle, PanicHasKnownCause
  <2>4. PullAttestation(call.repo) \in {"error", "panic", "bundle"}
    BY DEF PullAttestation
  <2> QED
    BY <1>5, <2>1, <2>2, <2>3, <2>4 DEF GetBundle
<1> QED
  BY <1>2, <1>3, <1>4, <1>5

\* A bundle that is loaded has entries that can be read.
LEMMA LoadFacts ==
    ASSUME NEW b, BundleType(b), loadBundle(b) # Unparsable
    PROVE  loadBundle(b) = b /\ b # Unparsable /\ b.entries # Unparsable
BY DEF loadBundle, validate

\* VerifyArtifact up to the trusted root.
LEMMA LoadStep ==
    ASSUME IInv, LoadBundle \/ GetTrustedRoot
    PROVE  IInv'
<1> USE DEF IInv, BaseInv, LoadInv, VerdictInv, Steps
<1>1. CASE Fail
  BY <1>1, FailStep DEF LoadBundle, GetTrustedRoot
<1>2. ASSUME LoadBundle, ~Fail, ~Panic PROVE IInv'
  <2>1. /\ pc = "load" /\ loadBundle(bundle) # Unparsable /\ entity' = loadBundle(bundle)
        /\ pc' = "root" /\ UNCHANGED <<call, dgst, bundle, st, info, out>>
    <3>1. rawDigest(dgst) \in {"panic", "error", "raw"}
      BY DEF rawDigest
    <3> QED
      BY <1>2, <3>1 DEF LoadBundle
  <2>2. entity' = bundle /\ bundle # Unparsable /\ BundleType(bundle) /\ bundle.entries # Unparsable
    BY <2>1, LoadFacts
  <2>3. DOMAIN bundle = {"version", "doc", "sig", "cert", "entries", "stamps"}
    BY <2>2 DEF BundleType
  <2> QED
    BY <2>1, <2>2, <2>3 DEF PanicHasKnownCause
<1>3. ASSUME LoadBundle, Panic PROVE IInv'
  <2>1. /\ pc = "load" /\ dgst = NoColon
        /\ ~(opts.tlogThreshold # None /\ opts.tlogThreshold < 0)
    BY <1>3 DEF LoadBundle, Panic, Fail, rawDigest
  <2>2. entity = None /\ call.by # "command" /\ call.digest = NoColon
    BY <2>1
  <2>3. PanicHasKnownCause'
    BY <1>3, <2>1, <2>2 DEF LoadBundle, Panic, PanicHasKnownCause, opts
  <2> QED
    BY <1>3, <2>1, <2>3 DEF LoadBundle, Panic
<1>4. ASSUME GetTrustedRoot, ~Fail PROVE IInv'
  BY <1>4 DEF GetTrustedRoot, PanicHasKnownCause
<1> QED
  BY <1>1, <1>2, <1>3, <1>4

\* Accepted is about variables that the report leaves alone.
LEMMA AcceptedKept ==
    ASSUME Accepted, UNCHANGED <<call, dgst, entity, st, info>>
    PROVE  Accepted'
BY DEF Accepted, SignatureInfo, VerifierOpts, TlogThreshold, opts

\* Verify accepts, refuses, or panics on the statement that is not there.
LEMMA VerifyStep ==
    ASSUME IInv, Verify
    PROVE  IInv'
<1> DEFINE result == VerificationResult(entity, VerifierOpts(entity))
<1>1. pc = "verify" /\ UNCHANGED call
  BY DEF Verify
<1>2. CASE Fail
  BY <1>1, <1>2, FailStep
<1>3. ASSUME Panic, ~opts.slsaNotRequired, result.statement = None PROVE IInv'
  <2>1. entity.doc # None /\ entity # None
    BY <1>1 DEF IInv, LoadInv, BundleType
  <2>2. entity.doc.predicate = None
    BY <1>3, <2>1 DEF VerificationResult
  <2>3. PanicHasKnownCause'
    BY <1>1, <1>3, <2>1, <2>2 DEF Panic, PanicHasKnownCause, opts
  <2> QED
    BY <1>1, <1>3, <2>3 DEF Panic, IInv, BaseInv, LoadInv, VerdictInv, Steps
<1>4. ASSUME info' = SignatureInfo, pc' = "verified", UNCHANGED <<dgst, bundle, entity, st, out>>,
             Verified(entity, FulcioRoot, VerifierOpts(entity), dgst), result.certificate # None,
             opts.slsaNotRequired \/ (result.statement # None /\ isSLSAPredicateType(result.statement.predicate))
      PROVE  IInv'
  <2>1. Accepted'
    BY <1>1, <1>4 DEF Accepted, SignatureInfo, VerifierOpts, TlogThreshold, opts
  <2>2. BaseInv' /\ LoadInv' /\ PanicHasKnownCause'
    BY <1>1, <1>4 DEF IInv, BaseInv, LoadInv, PanicHasKnownCause, Steps
  <2> QED
    BY <1>1, <1>4, <2>1, <2>2 DEF IInv, VerdictInv
<1> QED
  BY <1>2, <1>3, <1>4 DEF Verify

\* The report is made of the verdict and changes nothing of it.
LEMMA ReportStep ==
    ASSUME IInv, Report
    PROVE  IInv'
<1>1. Accepted'
  BY AcceptedKept DEF Report, IInv, VerdictInv
<1>2. VerdictInv'
  BY <1>1 DEF Report, IInv, VerdictInv
<1>3. BaseInv' /\ LoadInv' /\ PanicHasKnownCause'
  BY DEF Report, IInv, BaseInv, LoadInv, PanicHasKnownCause, Steps
<1> QED
  BY <1>2, <1>3 DEF IInv

\* The inductive invariant holds of every behaviour.
LEMMA Invariance == Spec => []IInv
<1>1. IInv /\ [Next]_vars => IInv'
  <2> SUFFICES ASSUME IInv, [Next]_vars PROVE IInv'
    OBVIOUS
  <2>1. CASE UNCHANGED vars
    <3>1. pc \in {"verified", "printed"} => Accepted'
      BY <2>1, AcceptedKept DEF vars, IInv, VerdictInv
    <3> QED
      BY <2>1, <3>1 DEF vars, IInv, BaseInv, LoadInv, VerdictInv, PanicHasKnownCause, opts
  <2> QED
    BY <2>1, CommandStep, LoadStep, VerifyStep, ReportStep DEF Next
<1> QED
  BY <1>1, InitInv, PTL DEF Spec

-----------------------------------------------------------------------------
(* What follows from a verdict. *)

\* The fields of the SignatureInfo that is returned.
LEMMA InfoFields ==
    ASSUME Accepted
    PROVE  /\ info.timestamps = VerifiedTimestamps(entity, VerifierOpts(entity))
           /\ info.signer # None
           /\ info.reference = "" /\ info.isDHI = FALSE
           /\ info.root.error = st.error
           /\ info.kind \in Kinds
           /\ entity.cert # None
<1> DEFINE result == VerificationResult(entity, VerifierOpts(entity))
           s == [kind |-> None, signer |-> result.certificate, timestamps |-> result.timestamps,
                 reference |-> "", root |-> toRootStatus(st), isDHI |-> FALSE, type |-> "bundle"]
<1>1. info = [s EXCEPT !.kind = DetectKind(s)]
  BY DEF Accepted, SignatureInfo
<1>2. DetectKind(s) \in Kinds
  BY DEF DetectKind, Kinds
<1>3. result.certificate # None
  BY DEF Accepted
<1>4. /\ result.timestamps = VerifiedTimestamps(entity, VerifierOpts(entity))
      /\ result.certificate = IF entity.cert # None THEN entity.cert.summary ELSE None
  BY DEF VerificationResult
<1> HIDE DEF result
<1>5. /\ info.kind = DetectKind(s) /\ info.signer = result.certificate
      /\ info.timestamps = result.timestamps /\ info.reference = "" /\ info.isDHI = FALSE
      /\ info.root = toRootStatus(st)
  BY <1>1, Zenon
<1>6. toRootStatus(st).error = st.error
  BY DEF toRootStatus
<1> HIDE DEF s
<1> QED
  BY <1>2, <1>3, <1>4, <1>5, <1>6

\* The set of logs that a readable bundle names is finite.
LEMMA NamedLogsFinite ==
    ASSUME NEW e, BundleType(e), e # Unparsable, e.entries # Unparsable
    PROVE  /\ IsFiniteSet({e.entries[i].log : i \in DOMAIN e.entries})
           /\ IsFiniteSet(SealingLogs(e))
           /\ VerifiedLogs(e) \subseteq {e.entries[i].log : i \in DOMAIN e.entries}
<1> DEFINE Named == {e.entries[i].log : i \in DOMAIN e.entries}
           f == [i \in DOMAIN e.entries |-> e.entries[i].log]
<1>1. IsFiniteSet(DOMAIN e.entries)
  <2>1. Len(e.entries) \in Nat /\ DOMAIN e.entries = 1 .. Len(e.entries)
    BY DEF BundleType
  <2>2. ASSUME NEW n \in Nat PROVE IsFiniteSet(1 .. n)
    <3>1. 1 \in Int /\ n \in Int
      OBVIOUS
    <3> QED
      BY <3>1, FS_Interval, Zenon
  <2> QED
    BY <2>1, <2>2
<1>2. IsFiniteSet(Named)
  <2>1. f \in Surjection(DOMAIN e.entries, Named)
    BY DEF Surjection
  <2> QED
    BY <1>1, <2>1, FS_Surjection
<1>3. SealingLogs(e) \subseteq Named
  BY DEF SealingLogs
<1>4. IsFiniteSet(SealingLogs(e))
  BY <1>2, <1>3, FS_Subset
<1> QED
  BY <1>2, <1>4 DEF VerifiedLogs, Considered

-----------------------------------------------------------------------------
(* Artifacts in good order: a second invariant, on top of the first one.   *)

InOrder == WellAsked(call) /\ WellSigned(GivenBundle(call), GivenDigest(call))

\* What is verified is what the call is about, and nothing but the trusted root has
\* failed.
CompleteInv ==
    InOrder =>
        /\ pc # "panic" /\ (pc = "failed" => entity # None /\ st = None)
        /\ pc \in {"run", "artifact", "bundle", "load", "root"} => st = None
        /\ pc \in {"bundle", "load", "root", "verify"} => dgst = GivenDigest(call)
        /\ pc = "load" => bundle = GivenBundle(call)
        /\ pc \in {"root", "verify"} => entity = GivenBundle(call)

\* The command line, the file or GitHub's answer give what the call is about.
LEMMA CommandComplete ==
    ASSUME IInv, CompleteInv, InOrder, Run \/ DigestArtifact \/ GetBundle
    PROVE  CompleteInv'
<1>1. /\ UNCHANGED call /\ call.by = "command" /\ pc \in {"run", "artifact", "bundle"}
  BY DEF Run, DigestArtifact, GetBundle, IInv, LoadInv
<1>2. st = None /\ (pc = "bundle" => dgst = GivenDigest(call))
  BY <1>1 DEF CompleteInv
<1>3. /\ call.stateDir # "" /\ Len(call.args) > 1 /\ call.args[1] = "artifact"
      /\ call.artifact # NoAnswer /\ call.bundlePath # NoAnswer
      /\ call.bundlePath = None => call.repo # None /\ PullAttestation(call.repo) = "bundle"
  BY <1>1 DEF InOrder, WellAsked, PullAttestation
<1>4. CASE Run
  <2>1. call.args # <<>>
    <3>1. ~(Len(<<>>) > 1)
      OBVIOUS
    <3> QED
      BY <1>3, <3>1, Zenon
  <2>2. pc' = "artifact" /\ UNCHANGED st
    BY <1>3, <1>4, <2>1 DEF Run
  <2> QED
    BY <1>1, <1>2, <2>2 DEF CompleteInv
<1>5. CASE DigestArtifact
  <2>1. pc' = "bundle" /\ dgst' = GivenDigest(call) /\ UNCHANGED st
    BY <1>1, <1>3, <1>5 DEF DigestArtifact, GivenDigest
  <2> QED
    BY <1>1, <1>2, <2>1 DEF CompleteInv
<1>6. CASE GetBundle
  <2>1. pc' = "load" /\ bundle' = GivenBundle(call) /\ UNCHANGED <<dgst, st>> /\ pc = "bundle"
    <3>1. CASE call.bundlePath # None
      BY <1>1, <1>3, <1>6, <3>1 DEF GetBundle, GivenBundle
    <3>2. CASE call.bundlePath = None
      BY <1>1, <1>3, <1>6, <3>2 DEF GetBundle, GivenBundle
    <3> QED
      BY <3>1, <3>2
  <2> QED
    BY <1>1, <1>2, <2>1 DEF CompleteInv
<1> QED
  BY <1>4, <1>5, <1>6

\* The bundle is loaded, and only the trusted root may be missing.
LEMMA LoadComplete ==
    ASSUME IInv, CompleteInv, InOrder, LoadBundle \/ GetTrustedRoot
    PROVE  CompleteInv'
<1>1. UNCHANGED call /\ pc \in {"load", "root"}
  BY DEF LoadBundle, GetTrustedRoot
<1>2. /\ st = None /\ dgst = GivenDigest(call)
      /\ pc = "load" => bundle = GivenBundle(call)
      /\ pc = "root" => entity = GivenBundle(call)
  BY <1>1 DEF CompleteInv
<1>3. CASE LoadBundle
  <2>1. bundle # Unparsable /\ validate(bundle) /\ rawDigest(dgst) = "raw"
    BY <1>2, <1>3 DEF LoadBundle, InOrder, WellSigned, rawDigest
  <2>2. loadBundle(bundle) = bundle
    BY <2>1 DEF loadBundle
  <2>3. ~(opts.tlogThreshold # None /\ opts.tlogThreshold < 0)
    BY DEF InOrder, WellSigned
  <2>4. pc' = "root" /\ entity' = GivenBundle(call) /\ UNCHANGED <<dgst, st>>
    BY <1>2, <1>3, <2>1, <2>2, <2>3 DEF LoadBundle
  <2> QED
    BY <1>1, <1>2, <2>4 DEF CompleteInv
<1>4. CASE GetTrustedRoot
  <2>1. entity # None /\ pc = "root"
    BY <1>4 DEF GetTrustedRoot, IInv, LoadInv, BundleType
  <2>2. CASE pc' = "verify" /\ UNCHANGED <<dgst, entity>>
    BY <1>1, <1>2, <2>1, <2>2 DEF CompleteInv
  <2>3. CASE Fail
    BY <1>1, <1>2, <2>1, <2>3 DEF Fail, CompleteInv
  <2> QED
    BY <1>4, <2>2, <2>3 DEF GetTrustedRoot
<1> QED
  BY <1>3, <1>4

\* What is signed in good order is accepted.
LEMMA VerifyComplete ==
    ASSUME IInv, CompleteInv, InOrder, Verify
    PROVE  CompleteInv'
<1> DEFINE o == VerifierOpts(entity)
           result == VerificationResult(entity, o)
           logs == {entity.entries[i].log : i \in DOMAIN entity.entries}
           asked == opts.tlogThreshold
<1>1. UNCHANGED call /\ pc = "verify"
  BY DEF Verify
<1>2. entity = GivenBundle(call) /\ dgst = GivenDigest(call)
  BY <1>1 DEF CompleteInv
<1>3. entity # Unparsable /\ BundleType(entity) /\ entity.entries # Unparsable
  BY <1>1 DEF IInv, LoadInv
<1>4. WellSigned(entity, dgst)
  BY <1>2 DEF InOrder
<1>5. DOMAIN entity.entries \subseteq Nat /\ DOMAIN entity.stamps \subseteq Nat /\ entity.doc # None
  BY <1>3 DEF BundleType
<1>6. IsFiniteSet(logs) /\ Cardinality(logs) \in Nat
  BY <1>3, NamedLogsFinite, FS_CardinalityType
<1>7. /\ o.threshold = IF asked # None THEN asked ELSE Cardinality(logs)
      /\ o.observer = TRUE /\ o.sct = TRUE /\ o.identity = TRUE
  BY DEF VerifierOpts, TlogThreshold
<1>8. FulcioRoot.key = None
  BY DEF FulcioRoot
<1>9. Verified(entity, FulcioRoot, o, dgst)
  <2>1. ProperlySigned(entity, FulcioRoot, dgst)
    BY <1>4 DEF WellSigned
  <2>2. o.sct = (FulcioRoot.key = None) /\ o.identity = (FulcioRoot.key = None)
    BY <1>7, <1>8
  <2>3. CASE asked = 0 \/ (asked = None /\ logs = {})
    <3>1. StampsFit(entity, FulcioRoot) /\ TimeStamped(entity)
      BY <1>4, <2>3 DEF WellSigned
    <3>2. o.threshold = 0
      <4>1. 0 # None
        BY CallsAssumption
      <4>2. Cardinality({}) = 0
        BY FS_EmptySet
      <4> QED
        BY <1>7, <2>3, <4>1, <4>2
    <3> HIDE DEF o
    <3> QED
      BY <1>5, <1>7, <2>1, <2>2, <3>1, <3>2, ProperVerified
  <2>4. CASE ~(asked = 0 \/ (asked = None /\ logs = {}))
    <3>1. ProperlyLogged(entity, FulcioRoot) /\ (asked # None => asked \in 1 .. Cardinality(logs))
      BY <1>4, <2>4 DEF WellSigned
    <3>2. asked = None => Cardinality(logs) # 0
      BY <1>6, <2>4, FS_EmptySet
    <3> HIDE DEF o, logs, asked
    <3>3. o.threshold \in Nat /\ o.threshold > 0 /\ Cardinality(logs) >= o.threshold
      BY <1>6, <1>7, <3>1, <3>2
    <3> QED
      BY <1>5, <1>7, <2>1, <2>2, <3>1, <3>3, ProperVerified DEF logs
  <2> QED
    BY <2>3, <2>4
<1>10. result.certificate # None
  <2>1. entity.cert # None /\ entity.cert.summary # None
    BY <1>4, <1>8 DEF WellSigned, ProperlySigned
  <2> QED
    BY <2>1 DEF VerificationResult
<1>11. opts.slsaNotRequired \/ (result.statement # None /\ isSLSAPredicateType(result.statement.predicate))
  <2>1. opts.slsaNotRequired \/ (entity.doc.predicate # None /\ isSLSAPredicateType(entity.doc.predicate))
    BY <1>4 DEF WellSigned
  <2> QED
    BY <1>5, <2>1 DEF VerificationResult
<1>12. pc' = "verified"
  BY <1>9, <1>10, <1>11 DEF Verify
<1> QED
  BY <1>12 DEF CompleteInv

\* Both invariants hold of every behaviour.
LEMMA CompleteInvariance == Spec => [](IInv /\ CompleteInv)
<1>1. Init => CompleteInv
  BY DEF Init, CompleteInv, GivenBundle, GivenDigest
<1>2. ASSUME IInv, CompleteInv, [Next]_vars PROVE CompleteInv'
  <2>1. UNCHANGED call
    BY <1>2 DEF Next, Run, DigestArtifact, GetBundle, Report, LoadBundle, GetTrustedRoot, Verify, vars
  <2>2. SUFFICES ASSUME InOrder PROVE CompleteInv'
    <3>1. InOrder' = InOrder
      BY <2>1 DEF InOrder, WellSigned, opts
    <3> QED
      BY <3>1 DEF CompleteInv
  <2>3. CASE UNCHANGED vars
    BY <1>2, <2>2, <2>3 DEF vars, CompleteInv
  <2>4. CASE Report
    BY <2>4 DEF Report, CompleteInv
  <2> QED
    BY <1>2, <2>2, <2>3, <2>4, CommandComplete, LoadComplete, VerifyComplete DEF Next
<1> QED
  BY <1>1, <1>2, Invariance, PTL DEF Spec

-----------------------------------------------------------------------------
(* The theorems. *)

\* The types of VerifyArtifact's state and of the report.
THEOREM TypeCorrect == Spec => []TypeOK
<1>1. ASSUME IInv PROVE TypeOK
  <2>1. info = None \/ info.kind \in Kinds
    BY <1>1, InfoFields DEF IInv, VerdictInv, BaseInv, Steps
  <2>2. ASSUME pc = "printed"
        PROVE  out.sections \subseteq {"signer", "timestamps", "error", "lastUpdated"}
    <3>1. info.reference = "" /\ info.isDHI = FALSE
      BY <1>1, <2>2, InfoFields DEF IInv, VerdictInv
    <3>2. Sections(info) \subseteq {"signer", "timestamps"}
      BY <3>1 DEF Sections, If
    <3> QED
      <4>1. out = IF call.json THEN Encode(info) ELSE Format(info)
        BY <1>1, <2>2 DEF IInv, VerdictInv
      <4>2. /\ Encode(info).sections \subseteq Sections(info) \cup {"error", "lastUpdated"}
            /\ Format(info).sections \subseteq Sections(info) \cup {"error", "lastUpdated"}
        BY DEF Encode, Format, If
      <4> QED
        BY <3>2, <4>1, <4>2
  <2> QED
    BY <1>1, <2>1, <2>2 DEF IInv, BaseInv, TypeOK
<1> QED
  BY <1>1, Invariance, PTL

\* VerifyArtifact accepts only what was signed: over the artifact's digest, with a
\* Fulcio certificate valid at signed times, and over provenance unless waived.
THEOREM ArtifactSigned == Spec => []AcceptedIsSigned
<1>1. ASSUME IInv, info # None PROVE Accepted
  BY <1>1 DEF IInv, VerdictInv
<1>2. ASSUME IInv, Accepted, pc \in {"verified", "printed"} PROVE AcceptedIsSigned
  <2> DEFINE o == VerifierOpts(entity)
  <2>1. Verified(entity, FulcioRoot, o, dgst) /\ info.timestamps = VerifiedTimestamps(entity, o)
    BY <1>2, InfoFields DEF Accepted
  <2>2. o.observer = TRUE /\ o.sct = TRUE
    BY DEF VerifierOpts
  <2> HIDE DEF o
  <2>3. CertificateTrusted(entity, info.timestamps)
    BY <2>1, <2>2, FulcioVerdict
  <2>4. \A t \in info.timestamps : TimeSigned(entity, t)
    BY <2>1, ReportedTimesSigned
  <2>5. entity.doc.subject = dgst /\ entity.sig.over = entity.doc
    BY <2>1, SignatureOverDigest
  <2>6. opts.slsaNotRequired \/ isSLSAPredicateType(entity.doc.predicate)
    BY <1>2 DEF Accepted, VerificationResult
  <2> QED
    BY <2>3, <2>4, <2>5, <2>6 DEF AcceptedIsSigned
<1>3. IInv => AcceptedIsSigned
  BY <1>1, <1>2 DEF IInv, VerdictInv, AcceptedIsSigned
<1> QED
  BY <1>3, Invariance, PTL

\* The threshold that is asked for is met by logs that sealed this signature: by
\* default by every log that the bundle names.
THEOREM ThresholdMet == Spec => []LogsAsAsked
<1>1. ASSUME IInv, info # None
      PROVE  /\ opts.tlogThreshold = None =>
                   \A i \in DOMAIN entity.entries : entity.entries[i].log \in SealingLogs(entity)
             /\ opts.tlogThreshold # None => Cardinality(SealingLogs(entity)) >= opts.tlogThreshold
             /\ opts.tlogThreshold = 0 \/ (opts.tlogThreshold = None /\ entity.entries = <<>>) =>
                   {t.type : t \in info.timestamps} = {"TimestampAuthority"}
  <2> DEFINE o == VerifierOpts(entity)
             Named == {entity.entries[i].log : i \in DOMAIN entity.entries}
  <2>1. Accepted /\ BundleType(entity) /\ entity # Unparsable /\ entity.entries # Unparsable
    BY <1>1 DEF IInv, VerdictInv, LoadInv
  <2>2. /\ IsFiniteSet(Named) /\ IsFiniteSet(SealingLogs(entity))
        /\ VerifiedLogs(entity) \subseteq Named
    BY <2>1, NamedLogsFinite
  <2>3. /\ Cardinality(Named) \in Nat /\ Cardinality(SealingLogs(entity)) \in Nat
        /\ IsFiniteSet(VerifiedLogs(entity)) /\ Cardinality(VerifiedLogs(entity)) \in Nat
    BY <2>2, FS_CardinalityType, FS_Subset
  <2>4. /\ o.threshold > 0 => VerifyTlogEntry(entity, FulcioRoot, o.threshold)
        /\ VerifiedTimestamps(entity, o) # {} /\ info.timestamps = VerifiedTimestamps(entity, o)
    BY <2>1, InfoFields DEF Accepted, Verified, VerifierOpts
  <2>5. o.threshold = IF opts.tlogThreshold # None THEN opts.tlogThreshold ELSE Cardinality(Named)
    BY DEF VerifierOpts, TlogThreshold
  <2>6. opts.tlogThreshold \in Int \cup {None}
    BY <1>1, CallsAssumption DEF opts, IInv, BaseInv
  <2> HIDE DEF o, Named
  <2>7. o.threshold > 0 =>
          VerifiedLogs(entity) \subseteq SealingLogs(entity)
          /\ Cardinality(VerifiedLogs(entity)) >= o.threshold
    BY <2>4, CountedLogsSealed
  <2>8. ASSUME opts.tlogThreshold = None PROVE Named \subseteq SealingLogs(entity)
    <3>1. CASE Cardinality(Named) > 0
      <4>1. o.threshold = Cardinality(Named)
        BY <2>5, <2>8
      <4>2. Cardinality(VerifiedLogs(entity)) >= Cardinality(Named)
        BY <2>7, <3>1, <4>1
      <4>3. VerifiedLogs(entity) = Named
        BY <2>2, <2>3, <4>2, FS_Subset
      <4> QED
        BY <2>7, <3>1, <4>1, <4>3
    <3>2. CASE ~(Cardinality(Named) > 0)
      BY <2>2, <2>3, <3>2, FS_EmptySet
    <3> QED
      BY <3>1, <3>2
  <2>9. ASSUME opts.tlogThreshold # None
        PROVE  Cardinality(SealingLogs(entity)) >= opts.tlogThreshold
    <3>1. CASE opts.tlogThreshold > 0
      <4>1. Cardinality(VerifiedLogs(entity)) <= Cardinality(SealingLogs(entity))
        BY <2>2, <2>5, <2>7, <2>9, <3>1, FS_Subset
      <4> QED
        BY <2>3, <2>5, <2>6, <2>7, <2>9, <3>1, <4>1
    <3>2. CASE ~(opts.tlogThreshold > 0)
      BY <2>3, <2>6, <2>9, <3>2
    <3> QED
      BY <3>1, <3>2
  <2>10. ASSUME opts.tlogThreshold = 0 \/ (opts.tlogThreshold = None /\ entity.entries = <<>>)
         PROVE  {t.type : t \in info.timestamps} = {"TimestampAuthority"}
    <3>1. o.threshold = 0
      <4>1. CASE opts.tlogThreshold = 0
        BY <2>5, <4>1, CallsAssumption
      <4>2. CASE opts.tlogThreshold = None /\ entity.entries = <<>>
        <5>1. Named = {}
          BY <4>2 DEF Named
        <5> QED
          BY <2>5, <4>2, <5>1, FS_EmptySet
      <4> QED
        BY <2>10, <4>1, <4>2
    <3>2. \A t \in info.timestamps : t.type = "TimestampAuthority"
      BY <2>4, <3>1, TimesWithoutLog
    <3> QED
      BY <2>4, <3>2
  <2> QED
    BY <2>8, <2>9, <2>10 DEF Named
<1>2. IInv => LogsAsAsked
  BY <1>1 DEF LogsAsAsked
<1> QED
  BY <1>2, Invariance, PTL

\* A call of VerifyArtifact or of the command crashes for two missing fields and for
\* a digest without a colon, and for nothing else.
THEOREM PanicExplained == Spec => []PanicHasKnownCause
<1>1. IInv => PanicHasKnownCause
  BY DEF IInv
<1> QED
  BY <1>1, Invariance, PTL

\* Both formats report a root that was not refreshed, the signer and the times.
THEOREM ReportTrue == Spec => []ReportFits
<1>1. ASSUME IInv, pc = "printed"
      PROVE  /\ st.error # "" <=> "error" \in out.sections
             /\ "signer" \in out.sections /\ "timestamps" \in out.sections
             /\ entity.cert # None
  <2>1. Accepted /\ out = IF call.json THEN Encode(info) ELSE Format(info)
    BY <1>1 DEF IInv, VerdictInv
  <2>2. info.timestamps # {}
    BY <2>1, InfoFields DEF Accepted, Verified, VerifierOpts
  <2>3. /\ "signer" \in Sections(info) /\ "timestamps" \in Sections(info)
        /\ "error" \notin Sections(info)
    BY <2>1, <2>2, InfoFields DEF Sections, If
  <2>4. ASSUME NEW last \in {If(info.root.error # "" /\ info.root.lastUpdated # None, "lastUpdated"),
                             If(info.root.lastUpdated # None, "lastUpdated")},
               out.sections = Sections(info) \cup If(info.root.error # "", "error") \cup last
        PROVE  /\ info.root.error # "" <=> "error" \in out.sections
               /\ "signer" \in out.sections /\ "timestamps" \in out.sections
    BY <2>3, <2>4 DEF If
  <2> QED
    BY <2>1, <2>4, InfoFields DEF Encode, Format
<1>2. IInv => ReportFits
  BY <1>1 DEF ReportFits
<1> QED
  BY <1>2, Invariance, PTL

\* An artifact that is signed and asked about in good order is refused only for want
\* of a trusted root, for every bundle within the library's limits, whatever logs it
\* names, and every threshold.
THEOREM SignedAccepted == Spec => []SignedArtifactAccepted
<1>1. CompleteInv => SignedArtifactAccepted
  BY DEF CompleteInv, InOrder, SignedArtifactAccepted
<1> QED
  BY <1>1, CompleteInvariance, PTL
=============================================================================
