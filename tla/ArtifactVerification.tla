------------------------ MODULE ArtifactVerification ------------------------
(***************************************************************************)
(* verifier.go's VerifyArtifact, called by the command (main.go's run and  *)
(* runArtifactCmd, with githubapi.PullAttestation) or by another program.  *)
(* One step is what happens up to the next thing that can fail: a file,    *)
(* GitHub, the trusted root.                                               *)
(*                                                                         *)
(* A call says what those will answer; "panic" is a Go panic.  The digest  *)
(* of a call is Unparsable if what follows its colon is not hex.           *)
(***************************************************************************)
EXTENDS SignatureKind

CONSTANTS
    Calls,      \* the calls there may be
    NoAnswer,   \* a file or a request that failed
    NoColon     \* a digest without a colon

\* What protojson makes of the bytes of a bundle.
BundleType(b) ==
    \/ b = Unparsable
    \/ /\ b # None /\ DOMAIN b = {"version", "doc", "sig", "cert", "entries", "stamps"}
       /\ b.doc # None
       /\ b.entries = Unparsable \/ (Len(b.entries) \in Nat /\ DOMAIN b.entries = 1 .. Len(b.entries))
       /\ DOMAIN b.stamps \subseteq Nat

ASSUME CallsAssumption ==
    /\ None \notin Int
    /\ \A c \in Calls :
          IF c.by = "command"
            THEN /\ c.artifact \notin {Unparsable, NoColon}
                 /\ c.bundlePath \notin {None, NoAnswer} => BundleType(c.bundlePath)
                 /\ c.repo \notin {None, NoAnswer} /\ c.repo.attestations \notin {Unparsable, <<>>} =>
                       c.repo.attestations[1] = None \/ BundleType(c.repo.attestations[1])
            ELSE BundleType(c.bundle) /\ c.opts.tlogThreshold \in Int \cup {None}

VARIABLES
    call,       \* the command line or the arguments, and the world they meet
    pc,
    dgst,       \* the digest of the artifact
    bundle,     \* the bytes of the bundle, as protojson reads them
    entity,     \* the bundle that was loaded
    st,         \* the Status of the trusted root
    info,       \* the SignatureInfo that is returned
    out         \* what the command prints

vars == <<call, pc, dgst, bundle, entity, st, info, out>>

Steps == {"run", "artifact", "bundle", "load", "root", "verify", "verified", "printed", "failed", "panic"}

\* Type correctness.
TypeOK ==
    /\ call \in Calls
    /\ pc \in Steps
    /\ entity = None \/ DOMAIN entity = {"version", "doc", "sig", "cert", "entries", "stamps"}
    /\ st \in Statuses \cup {None}
    /\ info = None \/ info.kind \in Kinds
    /\ pc = "printed" => out.sections \subseteq {"signer", "timestamps", "error", "lastUpdated"}

Init ==
    /\ call \in Calls
    /\ pc = IF call.by = "command" THEN "run" ELSE "load"
    /\ dgst = IF call.by = "command" THEN None ELSE call.digest
    /\ bundle = IF call.by = "command" THEN None ELSE call.bundle
    /\ entity = None
    /\ st = None
    /\ info = None
    /\ out = None

Fail == pc' = "failed" /\ UNCHANGED <<dgst, bundle, entity, st, info, out>>
Panic == pc' = "panic" /\ UNCHANGED <<dgst, bundle, entity, st, info, out>>

-----------------------------------------------------------------------------
(* The command *)

\* run: NewVerifier comes before the name of the command is looked at.
Run ==
    /\ pc = "run"
    /\ IF call.args # <<>> /\ call.stateDir # "" /\ call.args[1] = "artifact" /\ Len(call.args) > 1
         THEN pc' = "artifact" /\ UNCHANGED <<dgst, bundle, entity, st, info, out>>
         ELSE Fail
    /\ UNCHANGED call

\* The file is opened, or standard input is taken, and its digest computed.
DigestArtifact ==
    /\ pc = "artifact"
    /\ IF call.artifact = NoAnswer THEN Fail
       ELSE pc' = "bundle" /\ dgst' = call.artifact /\ UNCHANGED <<bundle, entity, st, info, out>>
    /\ UNCHANGED call

\* Bug: an empty list is not looked for.
PullAttestationOfAny(a) ==
    IF a = NoAnswer \/ a.status # 200 \/ a.attestations = Unparsable \/ a.trailing THEN "error"
    ELSE IF a.attestations = <<>> \/ a.attestations[1] = None THEN "panic"
    ELSE "bundle"
\* The first attestation of GitHub's answer a.  The field bundle is dereferenced
\* without being looked at; None is a field that is missing or null.
PullAttestation(a) ==
    IF a = NoAnswer \/ a.status # 200 \/ a.attestations = Unparsable \/ a.trailing \/ a.attestations = <<>>
      THEN "error"
    ELSE IF a.attestations[1] = None THEN "panic" ELSE "bundle"

\* The bundle comes from a file, else from GitHub.
GetBundle ==
    /\ pc = "bundle"
    /\ \/ /\ call.bundlePath # None /\ call.bundlePath = NoAnswer
          /\ Fail
       \/ /\ call.bundlePath \notin {None, NoAnswer}
          /\ bundle' = call.bundlePath
          /\ pc' = "load"
          /\ UNCHANGED <<dgst, entity, st, info, out>>
       \/ /\ call.bundlePath = None /\ call.repo = None
          /\ Fail
       \/ /\ call.bundlePath = None /\ call.repo # None
          /\ CASE PullAttestation(call.repo) = "error"  -> Fail
               [] PullAttestation(call.repo) = "panic"  -> Panic
               [] PullAttestation(call.repo) = "bundle" ->
                    /\ bundle' = call.repo.attestations[1]
                    /\ pc' = "load"
                    /\ UNCHANGED <<dgst, entity, st, info, out>>
    /\ UNCHANGED call

\* Detailed output, or JSON.
Report ==
    /\ pc = "verified"
    /\ call.by = "command"
    /\ out' = IF call.json THEN Encode(info) ELSE Format(info)
    /\ pc' = "printed"
    /\ UNCHANGED <<call, dgst, bundle, entity, st, info>>

-----------------------------------------------------------------------------
(* VerifyArtifact *)

\* The command gives no options.
opts == IF call.by = "command" THEN [slsaNotRequired |-> FALSE, tlogThreshold |-> None] ELSE call.opts

\* Bug: one log is enough.
TlogThresholdOne(e) ==
    IF opts.tlogThreshold # None THEN opts.tlogThreshold
    ELSE IF e.entries = <<>> THEN 0 ELSE 1
\* Bug: entries are counted instead of logs.
TlogThresholdOfEntries(e) == IF opts.tlogThreshold # None THEN opts.tlogThreshold ELSE Len(e.entries)
\* All the distinct logs in the bundle, unless the caller says otherwise.
TlogThreshold(e) ==
    IF opts.tlogThreshold # None THEN opts.tlogThreshold
    ELSE Cardinality({e.entries[i].log : i \in DOMAIN e.entries})

\* Bug: no certificate timestamp is asked for.
VerifierOptsWithoutSCT(e) == [threshold |-> TlogThreshold(e), observer |-> TRUE, sct |-> FALSE, identity |-> TRUE]
VerifierOpts(e) == [threshold |-> TlogThreshold(e), observer |-> TRUE, sct |-> TRUE, identity |-> TRUE]

\* What rawDigest does: go-digest panics if there is no colon to split at.
rawDigest(d) ==
    CASE d = NoColon    -> "panic"
      [] d = Unparsable -> "error"
      [] OTHER          -> "raw"

\* The arguments are checked and the bundle is loaded.
LoadBundle ==
    /\ pc = "load"
    /\ IF opts.tlogThreshold # None /\ opts.tlogThreshold < 0 THEN Fail
       ELSE CASE rawDigest(dgst) = "panic" -> Panic
              [] rawDigest(dgst) = "error" -> Fail
              [] rawDigest(dgst) = "raw"   ->
                   IF loadBundle(bundle) = Unparsable THEN Fail
                   ELSE entity' = loadBundle(bundle) /\ pc' = "root" /\ UNCHANGED <<dgst, bundle, st, info, out>>
    /\ UNCHANGED call

\* loadTrustProvider and TrustedRoot (modules TrustLoader and TrustProvider).
GetTrustedRoot ==
    /\ pc = "root"
    /\ \/ st' \in Statuses /\ pc' = "verify" /\ UNCHANGED <<dgst, bundle, entity, info, out>>
       \/ Fail
    /\ UNCHANGED call

\* Bug: the kind is not set.
SignatureInfoWithoutKind ==
    [kind |-> None, signer |-> None, timestamps |-> {}, reference |-> "", root |-> toRootStatus(st),
     isDHI |-> FALSE, type |-> "bundle"]
SignatureInfo ==
    LET result == VerificationResult(entity, VerifierOpts(entity))
        s == [kind |-> None, signer |-> result.certificate, timestamps |-> result.timestamps,
              reference |-> "", root |-> toRootStatus(st), isDHI |-> FALSE, type |-> "bundle"]
    IN  [s EXCEPT !.kind = DetectKind(s)]

isSLSAPredicateType(v) == v \in {"slsa1", "slsa02"}

Verify ==
    /\ pc = "verify"
    /\ LET result == VerificationResult(entity, VerifierOpts(entity)) IN
       IF ~Verified(entity, FulcioRoot, VerifierOpts(entity), dgst) \/ result.certificate = None THEN Fail
       ELSE IF ~opts.slsaNotRequired /\ result.statement = None THEN Panic
       ELSE IF ~opts.slsaNotRequired /\ ~isSLSAPredicateType(result.statement.predicate) THEN Fail
       ELSE info' = SignatureInfo /\ pc' = "verified" /\ UNCHANGED <<dgst, bundle, entity, st, out>>
    /\ UNCHANGED call

Ended == pc \in {"printed", "failed", "panic"} \/ (pc = "verified" /\ call.by # "command")

Next ==
    \/ Run \/ DigestArtifact \/ GetBundle \/ Report
    \/ LoadBundle \/ GetTrustedRoot \/ Verify
    \/ Ended /\ UNCHANGED vars

Spec == Init /\ [][Next]_vars

-----------------------------------------------------------------------------
(* What must hold. *)

\* An accepted artifact was signed: the bundle's signature is over its digest, with
\* a Fulcio certificate that was valid at every time reported, each of them signed
\* by a trusted log or TSA; and the statement is SLSA provenance unless the caller
\* waived that.
AcceptedIsSigned ==
    info # None =>
        /\ entity.sig.over.subject = dgst
        /\ CertificateTrusted(entity, info.timestamps)
        /\ \A t \in info.timestamps : TimeSigned(entity, t)
        /\ opts.slsaNotRequired \/ isSLSAPredicateType(entity.sig.over.predicate)

\* The log threshold is what WithTlogThreshold's comment promises: by default every
\* log named in the bundle sealed this signature, an explicit number is the least
\* number of logs that did, and with an explicit zero, or no entry at all, no log
\* time is used and a TSA vouches for the time.
LogsAsAsked ==
    info # None =>
        /\ opts.tlogThreshold = None =>
              \A i \in DOMAIN entity.entries : entity.entries[i].log \in SealingLogs(entity)
        /\ opts.tlogThreshold # None => Cardinality(SealingLogs(entity)) >= opts.tlogThreshold
        /\ opts.tlogThreshold = 0 \/ (opts.tlogThreshold = None /\ entity.entries = <<>>) =>
              {t.type : t \in info.timestamps} = {"TimestampAuthority"}

\* There are three ways to crash: GitHub's answer has no bundle in its first
\* attestation; a program asks about a digest without a colon, which only a negative
\* threshold keeps from go-digest; a verified bundle has no statement although
\* provenance is required.
PanicHasKnownCause ==
    pc = "panic" =>
        \/ /\ entity = None /\ call.by = "command"
           /\ call.repo.attestations # <<>> /\ call.repo.attestations[1] = None
        \/ /\ entity = None /\ call.by # "command" /\ call.digest = NoColon
           /\ ~(opts.tlogThreshold # None /\ opts.tlogThreshold < 0)
        \/ entity # None /\ entity.doc.predicate = None /\ ~opts.slsaNotRequired

\* What the command prints, in either format, tells of a trusted root that could
\* not be refreshed, and of the certificate that its verdict is about; the name is
\* never made from a certificate that is not there.
ReportFits ==
    pc = "printed" =>
        /\ st.error # "" <=> "error" \in out.sections
        /\ "signer" \in out.sections /\ "timestamps" \in out.sections
        /\ out.name[1] \in NamedBySigner => entity.cert # None

\* A bundle that verifies and is no SLSA provenance is refused with an error, as
\* VerifyArtifact's "unexpected predicate type, expecting SLSA provenance" says.
NoProvenanceIsAnError == entity # None => pc # "panic"

-----------------------------------------------------------------------------
(* An artifact that is signed, and asked about, in good order. *)

\* The bundle and the digest that a call is about.
GivenBundle(c) ==
    IF c.by # "command" THEN c.bundle
    ELSE IF c.bundlePath # None THEN c.bundlePath
    ELSE c.repo.attestations[1]
GivenDigest(c) == IF c.by = "command" THEN c.artifact ELSE c.digest

\* The command line is complete, and the files or GitHub have what it names.
WellAsked(c) ==
    c.by = "command" =>
        /\ c.stateDir # "" /\ Len(c.args) > 1 /\ c.args[1] = "artifact"
        /\ c.artifact # NoAnswer /\ c.bundlePath # NoAnswer
        /\ c.bundlePath = None =>
              /\ c.repo \notin {None, NoAnswer} /\ c.repo.status = 200 /\ ~c.repo.trailing
              /\ c.repo.attestations \notin {Unparsable, <<>>} /\ c.repo.attestations[1] # None

\* Bundle b is signed over digest d with a Fulcio certificate, the statement is
\* provenance if that is required, and the logs, or a TSA if no log counts, vouch
\* for it as asked; entries and timestamps keep to the library's limits.
WellSigned(b, d) ==
    LET asked == opts.tlogThreshold
        logs == {b.entries[i].log : i \in DOMAIN b.entries}
    IN  /\ b # Unparsable /\ validate(b) /\ d \notin {Unparsable, NoColon}
        /\ ProperlySigned(b, FulcioRoot, d) /\ b.cert.summary # None
        /\ opts.slsaNotRequired \/ (b.doc.predicate # None /\ isSLSAPredicateType(b.doc.predicate))
        /\ IF asked = 0 \/ (asked = None /\ logs = {})
             THEN StampsFit(b, FulcioRoot) /\ TimeStamped(b)
             ELSE ProperlyLogged(b, FulcioRoot) /\ (asked # None => asked \in 1 .. Cardinality(logs))

\* An artifact that is signed in good order is refused only if there is no trusted
\* root: not for the number of entries that one log has for it, nor for a TSA in the
\* place of a log, whether the bundle comes from a caller, a file or GitHub.
SignedArtifactAccepted ==
    WellAsked(call) /\ WellSigned(GivenBundle(call), GivenDigest(call)) =>
        pc # "panic" /\ (pc = "failed" => entity # None /\ st = None)
=============================================================================
