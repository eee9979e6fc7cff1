------------------------- MODULE ImageVerification -------------------------
(***************************************************************************)
(* verifier.go's VerifyImage, with image/resolve.go, image/dhi.go and the  *)
(* signed entity of hashedrecordbundle.go.                                 *)
(*                                                                         *)
(* An image index names the image manifest of a platform; an attestation   *)
(* manifest has that manifest as its subject; a signature manifest has the *)
(* attestation as its subject; the signature in its first layer is checked *)
(* against a trusted root.  Everything comes from a registry in separate   *)
(* requests: a blob is known by its digest, but the lists of referrers are *)
(* whatever the registry says, and any request may fail.  One step is what *)
(* VerifyImage does between two requests.                                  *)
(*                                                                         *)
(* A world says of what type the target is, what json.Unmarshal makes of   *)
(* each blob, as an index, as a manifest, as a Sigstore bundle and as a    *)
(* simple-signing payload, and which referrers an honest registry lists.   *)
(***************************************************************************)
EXTENDS RekorBundle, SignatureKind

CONSTANTS
    Digests,     \* the digests of the blobs there are
    Target,      \* the digest that VerifyImage is asked about
    Worlds,      \* the possible contents of the blobs
    RefLists,    \* the lists of referrers a registry may answer with
    NoAnswer     \* a request that failed

\* The descriptors of a list, and the parts of a certificate that are compared.
Descriptors(list) == \A i \in DOMAIN list : list[i].digest \in Digests
CertificateType(c) ==
    c # None => /\ c.summary # None
                /\ \A u \in {c.summary.buildSigner, c.summary.san, c.summary.source} : u \in Seq(STRING)

Indices(list) == DOMAIN list \subseteq Nat /\ IsFiniteSet(DOMAIN list)

ASSUME WorldsAssumption ==
    /\ \A refs \in RefLists : Descriptors(refs)
    /\ \A w \in Worlds :
          /\ w.index[Target] # Unparsable => Descriptors(w.index[Target].manifests)
          /\ \A d \in Digests :
                /\ LET m == w.manifest[d] IN m # Unparsable =>
                      /\ m.layers = <<>> \/ 1 \in DOMAIN m.layers
                      /\ Descriptors(m.layers)
                      /\ \A i \in DOMAIN m.layers : CertificateType(m.layers[i].certificate)
                /\ LET b == w.bundle[d] IN b # Unparsable =>
                      /\ b.doc.subject \in Digests /\ CertificateType(b.cert)
                      /\ b.entries # Unparsable => Indices(b.entries)
                      /\ Indices(b.stamps)

VARIABLES
    world,      \* what the blobs contain
    pc,         \* the next request, or how the call ended
    dhi,        \* SignatureChain.DHI
    image,      \* SignatureChain.ImageManifest
    att,        \* SignatureChain.AttestationManifest
    sig,        \* SignatureChain.SignatureManifest
    st,         \* the Status of the trusted root, None before that
    layer,      \* the first layer of the signature manifest
    entity,     \* the signed entity
    reference,  \* the docker reference of the payload
    info,       \* the SignatureInfo that is returned
    heard       \* history: the registry told the truth, something else, or did not answer

chain == <<dhi, image, att, sig>>
read == <<st, layer, entity, reference, info>>
vars == <<world, pc, chain, read, heard>>

Requests == {"index", "attRefs", "sigRefs", "attestation", "root", "signature", "layer", "verify"}

\* Type correctness.
TypeOK ==
    /\ pc \in Requests \cup {"done", "unsigned", "failed"}
    /\ dhi \in BOOLEAN
    /\ \A d \in {image, att, sig} : d = None \/ d.digest \in Digests
    /\ st \in Statuses \cup {None}
    /\ layer = None \/ layer.digest \in Digests
    /\ entity = None \/ entity.doc.subject \in Digests
    /\ info = None \/ info.kind \in Kinds
    /\ heard \in {"truth", "other", "failure"}

Init ==
    /\ world \in Worlds
    /\ pc = "index"
    /\ dhi = FALSE
    /\ image = None
    /\ att = None
    /\ sig = None
    /\ st = None
    /\ layer = None
    /\ entity = None
    /\ reference = ""
    /\ info = None
    /\ heard = "truth"

Fail == pc' = "failed" /\ UNCHANGED <<chain, read>>

-----------------------------------------------------------------------------
(* The registry. *)

\* What is to be thought of the registry after answer r where t is the truth.
Heard(r, t) ==
    IF r = NoAnswer THEN "failure" ELSE IF r # t \/ r = None THEN "other" ELSE heard

\* Content with another digest gives a nil slice and no error: None.
ReadBlob(d) == {d, None, NoAnswer}

\* What a caller makes of the result of ReadBlob: none of the parsers takes the nil
\* slice for a document.
Parsed(view, r) == IF r \in {None, NoAnswer} THEN Unparsable ELSE view[r]

FetchReferrers == RefLists \cup {NoAnswer}

-----------------------------------------------------------------------------
(* ResolveSignatureChain *)

\* Every entry has a build id, and the title says so.
isDHIIndex(idx) ==
    /\ \A i \in DOMAIN idx.manifests : idx.manifests[i].build
    /\ idx.title = "dhi"

\* How well a platform fits; an entry without platform comes last.
Rank == [best |-> 1, other |-> 2, nil |-> 3]

Candidates(idx) ==
    {i \in DOMAIN idx.manifests : idx.manifests[i].manifest /\ idx.manifests[i].fit \in DOMAIN Rank}

\* Bug: the matching entries are not sorted.
ResolvedManifestUnsorted(idx, i) ==
    i \in Candidates(idx) /\ \A j \in Candidates(idx) : i <= j
\* Entry i is the first after the stable sort.
ResolvedManifest(idx, i) ==
    LET fit(j) == Rank[idx.manifests[j].fit] IN
    /\ i \in Candidates(idx)
    /\ \A j \in Candidates(idx) : fit(i) < fit(j) \/ (fit(i) = fit(j) /\ i <= j)

\* Index i is the first in list s of those in S.
FirstIn(s, S, i) == i \in DOMAIN s \cap S /\ \A j \in DOMAIN s \cap S : i <= j

\* The entries of the index that are attestation manifests for descriptor d.
AttestationsFor(idx, d) == {i \in DOMAIN idx.manifests : idx.manifests[i].refers = d.digest}

\* The referrers that are SLSA provenance, and those that are signatures.
Provenances(refs) == {i \in DOMAIN refs : refs[i].artifactType = "inToto" /\ refs[i].slsa}
Bundles(refs) == {i \in DOMAIN refs : refs[i].artifactType = "bundle"}
Signatures(refs) == {i \in DOMAIN refs : refs[i].artifactType \in {"bundle", "cosign"}}

\* Only an index has a signature chain.
RefuseTarget ==
    /\ pc = "index"
    /\ world.type # "index"
    /\ Fail
    /\ UNCHANGED <<world, heard>>

\* The index is read; the image manifest, and unless it is a Docker Hardened
\* Image the attestation, are chosen from it.
ReadIndex ==
    /\ pc = "index"
    /\ world.type = "index"
    /\ \E r \in ReadBlob(Target) :
          LET idx == Parsed(world.index, r) IN
          /\ heard' = Heard(r, Target)
          /\ \/ /\ idx = Unparsable
                /\ Fail
             \/ /\ idx # Unparsable
                /\ Candidates(idx) = {}
                /\ Fail
             \/ /\ idx # Unparsable
                /\ \E i \in DOMAIN idx.manifests :
                      /\ ResolvedManifest(idx, i)
                      /\ image' = idx.manifests[i]
                /\ dhi' = isDHIIndex(idx)
                /\ \/ dhi' /\ pc' = "attRefs" /\ UNCHANGED att
                   \/ /\ ~dhi'
                      /\ AttestationsFor(idx, image') = {}
                      /\ pc' = "unsigned"
                      /\ UNCHANGED att
                   \/ /\ ~dhi'
                      /\ \E i \in DOMAIN idx.manifests :
                            /\ FirstIn(idx.manifests, AttestationsFor(idx, image'), i)
                            /\ att' = idx.manifests[i]
                      /\ pc' = "sigRefs"
                /\ UNCHANGED <<sig, read>>
    /\ UNCHANGED world

\* A Docker Hardened Image has its attestations among the referrers.
FetchAttestation ==
    /\ pc = "attRefs"
    /\ \E refs \in FetchReferrers :
          /\ heard' = Heard(refs, world.referrers[image.digest])
          /\ \/ refs = NoAnswer /\ Fail
             \/ refs # NoAnswer /\ Provenances(refs) = {} /\ Fail
             \/ /\ refs # NoAnswer
                /\ \E i \in DOMAIN refs :
                      FirstIn(refs, Provenances(refs), i) /\ att' = refs[i]
                /\ pc' = "sigRefs"
                /\ UNCHANGED <<dhi, image, sig, read>>
    /\ UNCHANGED world

\* Bug: a failed request counts as an empty list.
NoSignatureOrError(refs) == refs = NoAnswer \/ Signatures(refs) = {}
NoSignature(refs) == refs # NoAnswer /\ Signatures(refs) = {}

\* One signature manifest is chosen, a bundle before a cosign signature.
FetchSignature ==
    /\ pc = "sigRefs"
    /\ \E refs \in FetchReferrers :
          /\ heard' = Heard(refs, world.referrers[att.digest])
          /\ \/ refs = NoAnswer /\ ~NoSignature(refs) /\ Fail
             \/ /\ NoSignature(refs)
                /\ pc' = "unsigned"
                /\ UNCHANGED <<chain, read>>
             \/ /\ refs # NoAnswer
                /\ \E i \in DOMAIN refs :
                      /\ FirstIn(refs, IF Bundles(refs) # {} THEN Bundles(refs)
                                       ELSE Signatures(refs), i)
                      /\ sig' = refs[i]
                /\ pc' = "attestation"
                /\ UNCHANGED <<dhi, image, att, read>>
    /\ UNCHANGED world

-----------------------------------------------------------------------------
(* VerifyImage *)

\* Bug: the subject's digest is not compared.
SubjectIsSized(m, d) == m # Unparsable /\ m.subject # None /\ m.subject.size = d.size
\* The document is a manifest about descriptor d.
SubjectIs(m, d) ==
    /\ m # Unparsable
    /\ m.subject # None
    /\ m.subject.digest = d.digest
    /\ m.subject.mediaType = "image"
    /\ m.subject.size = d.size

AttestationOK(m, d) == SubjectIs(m, d) /\ \E i \in DOMAIN m.layers : m.layers[i].slsa

ReadAttestation ==
    /\ pc = "attestation"
    /\ \E r \in ReadBlob(att.digest) :
          /\ heard' = Heard(r, att.digest)
          /\ IF AttestationOK(Parsed(world.manifest, r), image)
               THEN pc' = "root" /\ UNCHANGED <<chain, read>>
               ELSE Fail
    /\ UNCHANGED world

\* loadTrustProvider and TrustedRoot (modules TrustLoader and TrustProvider).
GetTrustedRoot ==
    /\ pc = "root"
    /\ \/ /\ st' \in Statuses
          /\ pc' = "signature"
          /\ UNCHANGED <<chain, layer, entity, reference, info, heard>>
       \/ Fail /\ heard' = "failure"
    /\ UNCHANGED world

ReadSignature ==
    /\ pc = "signature"
    /\ \E r \in ReadBlob(sig.digest) :
          LET m == Parsed(world.manifest, r) IN
          /\ heard' = Heard(r, sig.digest)
          /\ \/ ~SubjectIs(m, att) /\ Fail
             \/ SubjectIs(m, att) /\ m.layers = <<>> /\ Fail
             \/ /\ SubjectIs(m, att) /\ m.layers # <<>>
                /\ m.layers[1].mediaType = "bundle" => m.artifactType = "bundle"
                /\ m.layers[1].mediaType # "other"
                /\ layer' = m.layers[1]
                /\ pc' = "layer"
                /\ UNCHANGED <<chain, st, entity, reference, info>>
             \/ /\ SubjectIs(m, att) /\ m.layers # <<>>
                /\ \/ m.layers[1].mediaType = "bundle" /\ m.artifactType # "bundle"
                   \/ m.layers[1].mediaType = "other"
                /\ Fail
    /\ UNCHANGED world

\* newHashedRecordSignedEntity: a layer needs a signature and, if no DHI key is
\* expected, a certificate.
HasHashedRecord(l) == l.signature # None /\ (dhi \/ l.certificate # None)
\* Bug: the digest is not passed on.
HashedRecordsWithoutDigest(l) ==
    {[version |-> "v0.1", doc |-> [subject |-> None, predicate |-> None], sig |-> l.signature,
      cert |-> None, entries |-> <<>>, stamps |-> <<>>]}
\* The annotations of a layer as a signed entity.
HashedRecordSignedEntities(l) ==
    {[version |-> "v0.1", doc |-> [subject |-> l.digest, predicate |-> None], sig |-> l.signature,
      cert |-> IF dhi THEN None ELSE l.certificate, entries |-> entries, stamps |-> <<>>] :
        entries \in TlogEntries(l.bundle)}

\* The payload is about the attestation.
PayloadOK(p) == p # Unparsable /\ p.image = att.digest /\ p.type = "cosign container image signature"

\* The first layer: a bundle, or a payload whose signature is in the annotations.
ReadLayer ==
    /\ pc = "layer"
    /\ \E r \in ReadBlob(layer.digest) :
          /\ heard' = Heard(r, layer.digest)
          /\ \/ /\ layer.mediaType = "bundle"
                /\ LET b == loadBundle(Parsed(world.bundle, r)) IN
                   IF b = Unparsable THEN Fail
                   ELSE /\ entity' = b
                        /\ pc' = "verify"
                        /\ UNCHANGED <<chain, st, layer, reference, info>>
             \/ /\ layer.mediaType = "simple"
                /\ LET p == Parsed(world.payload, r) IN
                   IF ~(PayloadOK(p) /\ HasHashedRecord(layer)) THEN Fail
                   ELSE /\ entity' \in HashedRecordSignedEntities(layer)
                        /\ reference' = p.reference
                        /\ pc' = "verify"
                        /\ UNCHANGED <<chain, st, layer, info>>
    /\ UNCHANGED world

\* The digest the signature has to be about.
PolicyDigest == IF layer.mediaType = "bundle" THEN att.digest ELSE layer.digest

\* Bug: no log entry is asked of a Docker Hardened Image.
VerifierOptsWithoutLog ==
    [threshold |-> IF dhi THEN 0 ELSE 1, observer |-> ~dhi, sct |-> ~dhi, identity |-> ~dhi]
\* A Docker Hardened Image has a log entry if it says so.
VerifierOpts ==
    LET logged == dhi => layer.bundle # Absent IN
    [threshold |-> IF logged THEN 1 ELSE 0, observer |-> logged, sct |-> ~dhi, identity |-> ~dhi]

TrustedRoot == IF dhi THEN DHIRoot ELSE FulcioRoot

SignatureInfo ==
    LET result == VerificationResult(entity, VerifierOpts)
        s == [kind |-> None, signer |-> result.certificate, timestamps |-> result.timestamps,
              reference |-> reference, root |-> toRootStatus(st), isDHI |-> dhi, type |-> layer.mediaType]
    IN  [s EXCEPT !.kind = DetectKind(s)]

Verify ==
    /\ pc = "verify"
    /\ IF /\ Verified(entity, TrustedRoot, VerifierOpts, PolicyDigest)
          /\ entity.cert # None \/ dhi
         THEN /\ info' = SignatureInfo
              /\ pc' = "done"
              /\ UNCHANGED <<chain, st, layer, entity, reference>>
         ELSE Fail
    /\ UNCHANGED <<world, heard>>

\* The call has returned.
Ended == pc \in {"done", "unsigned", "failed"}

Next ==
    \/ RefuseTarget \/ ReadIndex \/ FetchAttestation \/ FetchSignature
    \/ ReadAttestation \/ GetTrustedRoot \/ ReadSignature \/ ReadLayer \/ Verify
    \/ Ended /\ UNCHANGED vars

Spec == Init /\ [][Next]_vars

-----------------------------------------------------------------------------
(* What must hold. *)

\* An accepted image is connected with its signature by what the blobs contain,
\* whatever lists of referrers the registry sent: index, image manifest,
\* attestation with provenance, signature manifest, and a signature that is about
\* that attestation.
ChainHolds ==
    pc = "done" =>
        LET a == world.manifest[att.digest]
            s == world.manifest[sig.digest]
        IN  /\ \E i \in DOMAIN world.index[Target].manifests :
                   /\ ResolvedManifest(world.index[Target], i)
                   /\ image = world.index[Target].manifests[i]
            /\ a.subject.digest = image.digest
            /\ \E i \in DOMAIN a.layers : a.layers[i].slsa
            /\ s.subject.digest = att.digest
            /\ layer = s.layers[1]
            /\ IF layer.mediaType = "bundle"
                 THEN world.bundle[layer.digest].doc.subject = att.digest
                 ELSE world.payload[layer.digest].image = att.digest

\* The signer of an accepted image: for a hardened image the DHI key, for any
\* other a Fulcio certificate with a certificate timestamp, always with a log entry
\* unless a hardened image came without one, whatever shape the annotation with
\* the entry had.  Every time that is reported was signed by somebody trusted, and
\* the certificate or key was valid then.
SignerTrusted ==
    pc = "done" =>
        /\ \A t \in info.timestamps : TimeSigned(entity, t)
        /\ ~(dhi /\ layer.bundle = Absent) => SealingLogs(entity) # {} /\ info.timestamps # {}
        /\ IF dhi
             THEN entity.sig.by = "dhi" /\ \A t \in info.timestamps : t.time >= DHIEpoch
             ELSE CertificateTrusted(entity, info.timestamps)

\* The kinds that a policy may trust are earned: a hardened image by a payload
\* with a docker reference that the DHI key signed, the others by a certificate of
\* the Sigstore authority, for a workflow of Docker's builders or of the very
\* repository that the certificate names as the source.
KindEarned ==
    pc = "done" =>
        LET c == entity.cert.summary IN
        /\ info.kind = "hardened" =>
              /\ entity.sig.by = "dhi" /\ layer.mediaType = "simple"
              /\ world.payload[layer.digest].reference # ""
        /\ info.kind \in {"builder", "githubRepo", "selfSigned"} =>
              entity.sig.by = entity.cert.key /\ c.certificateIssuer = "sigstore"
        /\ info.kind = "builder" =>
              /\ layer.mediaType = "bundle" /\ info.timestamps # {}
              /\ {c.buildSigner[2], c.san[2]} = {"docker"}
              /\ {c.buildSigner[3], c.san[3]} \subseteq {"github-builder", "github-builder-experimental"}
        /\ info.kind = "githubRepo" =>
              /\ SubSeq(c.buildSigner, 1, Len(c.source)) = c.source
              /\ SubSeq(c.san, 1, Len(c.source)) = c.source

\* NoSigChainError is about what the registry answered: a request that failed is
\* never reported as an image without attestation or signature.
UnsignedWasAnswered == pc = "unsigned" => heard # "failure"

-----------------------------------------------------------------------------
(* An image as it is published and signed in good order. *)

HardenedIndex(w) == isDHIIndex(w.index[Target])
SignerRoot(w) == IF HardenedIndex(w) THEN DHIRoot ELSE FulcioRoot

\* The images that fit best, what is listed as their attestations, and as the
\* signatures of these, bundles alone if there are any.
BestImages(w) ==
    LET idx == w.index[Target] IN
    {idx.manifests[i] : i \in {j \in Candidates(idx) :
        \A k \in Candidates(idx) : Rank[idx.manifests[j].fit] <= Rank[idx.manifests[k].fit]}}
ListedAttestations(w, im) ==
    LET idx == w.index[Target]
        refs == w.referrers[im.digest]
    IN  IF HardenedIndex(w) THEN {refs[i] : i \in Provenances(refs)}
        ELSE {idx.manifests[i] : i \in AttestationsFor(idx, im)}
ListedSignatures(w, a) ==
    LET refs == w.referrers[a.digest]
    IN  {refs[i] : i \in IF Bundles(refs) # {} THEN Bundles(refs) ELSE Signatures(refs)}

\* The signed entity in layer l.
MeantEntity(w, l) ==
    IF l.mediaType = "bundle" THEN w.bundle[l.digest]
    ELSE [version |-> "v0.1", doc |-> [subject |-> l.digest, predicate |-> None], sig |-> l.signature,
          cert |-> IF HardenedIndex(w) THEN None ELSE l.certificate,
          entries |-> IF l.bundle = Absent THEN <<>> ELSE <<Meant(l.bundle)>>, stamps |-> <<>>]

\* Layer l holds a signature for attestation a, with a log entry unless the image
\* is a hardened one that has none.
WellSigned(w, a, l) ==
    LET e == MeantEntity(w, l)
        p == w.payload[l.digest]
    IN  /\ \/ /\ l.mediaType = "bundle"
              /\ e # Unparsable /\ validate(e)
              /\ ProperlySigned(e, SignerRoot(w), a.digest)
           \/ /\ l.mediaType = "simple"
              /\ p # Unparsable /\ p.image = a.digest /\ p.type = "cosign container image signature"
              /\ l.signature # None /\ (l.bundle # Absent => WellWritten(l.bundle))
              /\ ProperlySigned(e, SignerRoot(w), l.digest)
        /\ (HardenedIndex(w) /\ l.bundle = Absent) \/ ProperlyLogged(e, SignerRoot(w))

\* Everything that is listed, down to the signature, is as it should be.
InGoodOrder(w) ==
    /\ w.type = "index" /\ w.index[Target] # Unparsable
    /\ BestImages(w) # {}
    /\ \A im \in BestImages(w) :
          /\ ListedAttestations(w, im) # {}
          /\ \A a \in ListedAttestations(w, im) :
                /\ AttestationOK(w.manifest[a.digest], im)
                /\ ListedSignatures(w, a) # {}
                /\ \A s \in ListedSignatures(w, a) :
                      LET m == w.manifest[s.digest] IN
                      /\ SubjectIs(m, a) /\ m.layers # <<>>
                      /\ m.layers[1].mediaType = "bundle" => m.artifactType = "bundle"
                      /\ WellSigned(w, a, m.layers[1])

\* The kind it should have.
DueKind(w, l) ==
    LET c == MeantEntity(w, l).cert.summary
        own == c.source \o workflows
    IN  IF HardenedIndex(w)
          THEN IF l.mediaType = "simple" /\ w.payload[l.digest].reference # "" THEN "hardened" ELSE "untrusted"
        ELSE IF c.certificateIssuer # "sigstore" THEN "untrusted"
        ELSE IF ~OnGithub(c) THEN "selfSigned"
        ELSE IF l.mediaType = "bundle" /\ UnderBuilder(c.buildSigner) /\ UnderBuilder(c.san) THEN "builder"
        ELSE IF Under(c.buildSigner, own) /\ Under(c.san, own) THEN "githubRepo"
        ELSE "selfSigned"

\* An image that is in good order is never refused, nor called unsigned, by a
\* registry that tells the truth: whichever of its attestations and signatures is
\* chosen and in whatever shape its log entry is kept, it is accepted with the kind
\* that it should have.
SignedImageAccepted ==
    heard = "truth" /\ InGoodOrder(world) =>
        /\ pc \notin {"failed", "unsigned"}
        /\ pc = "done" => entity = MeantEntity(world, layer) /\ info.kind = DueKind(world, layer)
=============================================================================
