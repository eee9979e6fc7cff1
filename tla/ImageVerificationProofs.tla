---------------------- MODULE ImageVerificationProofs ----------------------
(***************************************************************************)
(* Proofs about VerifyImage for all contents of the blobs, whatever lists  *)
(* of referrers a registry answers with and whichever request fails.       *)
(***************************************************************************)
EXTENDS ImageVerification, RekorBundleProofs, SigstoreVerifierProofs, SequenceTheorems

-----------------------------------------------------------------------------
(* The inductive invariant: what has been checked at each point. *)

Resolved == {"attRefs", "sigRefs", "attestation", "root", "signature", "layer", "verify", "done"}
Attested == {"root", "signature", "layer", "verify", "done"}
SignatureFound == {"layer", "verify", "done"}

\* The image manifest is the index's, the attestation is about it, the signature
\* manifest is about the attestation.
LinkInv ==
    /\ pc \in Resolved => \E i \in DOMAIN world.index[Target].manifests :
          /\ ResolvedManifest(world.index[Target], i)
          /\ image = world.index[Target].manifests[i]
    /\ pc \in Attested => AttestationOK(world.manifest[att.digest], image)
    /\ pc \in SignatureFound =>
          /\ SubjectIs(world.manifest[sig.digest], att)
          /\ world.manifest[sig.digest].layers # <<>>
          /\ layer = world.manifest[sig.digest].layers[1]

\* The signed entity is the blob's bundle, or made of the layer's annotations for
\* a payload about the attestation.  Only a payload gives a docker reference.
EntityOK ==
    \/ /\ layer.mediaType = "bundle"
       /\ entity = world.bundle[layer.digest] /\ entity # Unparsable
       /\ reference = ""
    \/ /\ layer.mediaType = "simple"
       /\ PayloadOK(world.payload[layer.digest])
       /\ entity \in HashedRecordSignedEntities(layer)
       /\ reference = world.payload[layer.digest].reference

EntityInv ==
    /\ pc \in {"verify", "done"} => EntityOK
    /\ pc \in Requests \ {"verify"} => reference = ""

\* What Verify has found when it accepts, and the SignatureInfo it makes of that.
Accepted ==
    /\ Verified(entity, TrustedRoot, VerifierOpts, PolicyDigest)
    /\ entity.cert # None \/ dhi
    /\ info = SignatureInfo

VerdictInv ==
    /\ pc = "done" => Accepted
    /\ pc # "done" => info = None

\* A request that failed has failed the call.
HeardInv == heard = "failure" => pc = "failed"

\* The types, and of what is certainly there.
BaseInv ==
    /\ world \in Worlds
    /\ pc \in Requests \cup {"done", "unsigned", "failed"}
    /\ dhi \in BOOLEAN
    /\ image = None \/ image.digest \in Digests
    /\ att = None \/ att.digest \in Digests
    /\ sig = None \/ sig.digest \in Digests
    /\ st \in Statuses \cup {None}
    /\ layer = None \/ layer.digest \in Digests
    /\ entity = None \/ entity.doc.subject \in Digests
    /\ heard \in {"truth", "other", "failure"}
    /\ pc \in Attested \cup {"attestation"} => sig.digest \in Digests
    /\ pc \in SignatureFound => layer.digest \in Digests /\ CertificateType(layer.certificate)
    /\ pc \in {"verify", "done"} => CertificateType(entity.cert)

IInv == BaseInv /\ LinkInv /\ EntityInv /\ VerdictInv /\ HeardInv

-----------------------------------------------------------------------------
(* The steps. *)

\* What a parser accepted came from an answer, and is the blob that was asked for.
LEMMA ParsedFacts ==
    ASSUME NEW view, NEW d, NEW r \in ReadBlob(d), Parsed(view, r) # Unparsable
    PROVE  r # NoAnswer /\ r = d /\ Parsed(view, r) = view[d]
BY DEF ReadBlob, Parsed

\* heard after an answer, and after a request that failed.
LEMMA HeardFacts ==
    ASSUME BaseInv, HeardInv, NEW r, NEW t, pc # "failed", heard' = Heard(r, t)
    PROVE  heard' \in {"truth", "other", "failure"} /\ (r # NoAnswer => heard' # "failure")
BY DEF BaseInv, HeardInv, Heard

\* Every error before a verdict leaves what was read alone.
LEMMA FailStep ==
    ASSUME IInv, Fail, UNCHANGED world, heard' \in {"truth", "other", "failure"}, pc # "done"
    PROVE  IInv'
<1>1. pc' = "failed" /\ UNCHANGED <<dhi, image, att, sig, st, layer, entity, reference, info>>
  BY DEF Fail, chain, read
<1>2. BaseInv'
  BY <1>1 DEF IInv, BaseInv, Attested, SignatureFound
<1>3. LinkInv' /\ EntityInv' /\ HeardInv'
  BY <1>1 DEF LinkInv, EntityInv, HeardInv, Resolved, Attested, SignatureFound, Requests
<1>4. VerdictInv'
  BY <1>1 DEF IInv, VerdictInv
<1> QED
  BY <1>2, <1>3, <1>4 DEF IInv

\* A target that is no index is refused before anything is asked.
LEMMA RefuseStep == ASSUME IInv, RefuseTarget PROVE IInv'
<1>1. heard' \in {"truth", "other", "failure"} /\ pc # "done"
  BY DEF RefuseTarget, IInv, BaseInv
<1> QED
  BY <1>1, FailStep DEF RefuseTarget

\* The image manifest is one of the index's, and so is the attestation.
LEMMA IndexStep == ASSUME IInv, ReadIndex PROVE IInv'
<1>1. PICK r \in ReadBlob(Target) :
        /\ heard' = Heard(r, Target)
        /\ \/ Fail
           \/ /\ Parsed(world.index, r) # Unparsable
              /\ \E i \in DOMAIN Parsed(world.index, r).manifests :
                    /\ ResolvedManifest(Parsed(world.index, r), i)
                    /\ image' = Parsed(world.index, r).manifests[i]
              /\ dhi' = isDHIIndex(Parsed(world.index, r))
              /\ \/ pc' = "attRefs" /\ UNCHANGED att
                 \/ pc' = "unsigned" /\ UNCHANGED att
                 \/ /\ \E i \in DOMAIN Parsed(world.index, r).manifests :
                          att' = Parsed(world.index, r).manifests[i]
                    /\ pc' = "sigRefs"
              /\ UNCHANGED <<sig, read>>
  BY DEF ReadIndex
<1>2. pc = "index" /\ UNCHANGED world
  BY DEF ReadIndex
<1>3. heard' \in {"truth", "other", "failure"} /\ (r # NoAnswer => heard' # "failure")
  BY <1>1, <1>2, HeardFacts DEF IInv
<1>4. CASE Fail
  BY <1>2, <1>3, <1>4, FailStep
<1>5. CASE ~Fail
  <2> DEFINE idx == world.index[Target]
  <2>1. r # NoAnswer /\ Parsed(world.index, r) = idx /\ idx # Unparsable
    BY <1>1, <1>5, ParsedFacts
  <2>2. /\ \E i \in DOMAIN idx.manifests : ResolvedManifest(idx, i) /\ image' = idx.manifests[i]
        /\ dhi' = isDHIIndex(idx)
        /\ \/ pc' \in {"attRefs", "unsigned"} /\ UNCHANGED att
           \/ pc' = "sigRefs" /\ \E i \in DOMAIN idx.manifests : att' = idx.manifests[i]
        /\ UNCHANGED <<sig, st, layer, entity, reference, info>>
    BY <1>1, <1>5, <2>1 DEF read
  <2>3. \A i \in DOMAIN idx.manifests : idx.manifests[i].digest \in Digests
    BY <2>1, WorldsAssumption DEF IInv, BaseInv, Descriptors
  <2>4. dhi' \in BOOLEAN
    BY <2>2 DEF isDHIIndex
  <2>5. BaseInv'
    BY <1>2, <1>3, <2>2, <2>3, <2>4
       DEF IInv, BaseInv, Requests, Attested, SignatureFound
  <2>6. LinkInv'
    BY <1>2, <2>2 DEF LinkInv, Resolved, Attested, SignatureFound
  <2>7. EntityInv' /\ VerdictInv' /\ HeardInv'
    BY <1>2, <1>3, <2>1, <2>2 DEF IInv, EntityInv, VerdictInv, HeardInv, Requests
  <2> QED
    BY <2>5, <2>6, <2>7 DEF IInv
<1> QED
  BY <1>4, <1>5

\* A referrer is chosen as the attestation or as the signature manifest, or there
\* is none, or the request failed.
LEMMA ReferrersStep == ASSUME IInv, FetchAttestation \/ FetchSignature PROVE IInv'
<1>1. pc \in {"attRefs", "sigRefs"} /\ UNCHANGED world
  BY DEF FetchAttestation, FetchSignature
<1>2. PICK refs \in FetchReferrers :
        /\ \E t : heard' = Heard(refs, t)
        /\ \/ Fail
           \/ refs # NoAnswer /\ pc' = "unsigned" /\ UNCHANGED <<chain, read>>
           \/ /\ refs # NoAnswer /\ pc' = "sigRefs" /\ UNCHANGED <<dhi, image, sig, read>>
              /\ \E i \in DOMAIN refs : att' = refs[i]
           \/ /\ refs # NoAnswer /\ pc' = "attestation" /\ UNCHANGED <<dhi, image, att, read>>
              /\ \E i \in DOMAIN refs : sig' = refs[i]
  BY DEF FetchAttestation, FetchSignature, NoSignature
<1>3. heard' \in {"truth", "other", "failure"} /\ (refs # NoAnswer => heard' # "failure")
  BY <1>1, <1>2, HeardFacts DEF IInv
<1>4. CASE Fail
  BY <1>1, <1>3, <1>4, FailStep
<1>5. CASE ~Fail
  <2>1. refs \in RefLists /\ refs # NoAnswer
    BY <1>2, <1>5 DEF FetchReferrers
  <2>2. \A i \in DOMAIN refs : refs[i].digest \in Digests
    BY <2>1, WorldsAssumption DEF Descriptors
  <2>3. /\ UNCHANGED <<dhi, image, st, layer, entity, reference, info>>
        /\ \/ pc' = "unsigned" /\ UNCHANGED <<att, sig>>
           \/ pc' = "sigRefs" /\ UNCHANGED sig /\ att'.digest \in Digests
           \/ pc' = "attestation" /\ UNCHANGED att /\ sig'.digest \in Digests
    BY <1>2, <1>5, <2>2 DEF chain, read
  <2>4. BaseInv'
    BY <1>1, <1>3, <2>3 DEF IInv, BaseInv, Requests, Attested, SignatureFound
  <2>5. LinkInv'
    BY <1>1, <2>3 DEF IInv, LinkInv, Resolved, Attested, SignatureFound
  <2>6. EntityInv' /\ VerdictInv' /\ HeardInv'
    BY <1>1, <1>3, <2>1, <2>3 DEF IInv, EntityInv, VerdictInv, HeardInv, Requests
  <2> QED
    BY <2>4, <2>5, <2>6 DEF IInv
<1> QED
  BY <1>4, <1>5

\* The attestation is read and checked; then the trusted root is loaded.
LEMMA AttestationStep == ASSUME IInv, ReadAttestation \/ GetTrustedRoot PROVE IInv'
<1>1. CASE ReadAttestation
  <2>1. PICK r \in ReadBlob(att.digest) :
          /\ heard' = Heard(r, att.digest)
          /\ IF AttestationOK(Parsed(world.manifest, r), image)
               THEN pc' = "root" /\ UNCHANGED <<chain, read>>
               ELSE Fail
    BY <1>1 DEF ReadAttestation
  <2>2. pc = "attestation" /\ UNCHANGED world
    BY <1>1 DEF ReadAttestation
  <2>3. heard' \in {"truth", "other", "failure"} /\ (r # NoAnswer => heard' # "failure")
    BY <2>1, <2>2, HeardFacts DEF IInv
  <2>4. CASE Fail
    BY <2>2, <2>3, <2>4, FailStep
  <2>5. CASE ~Fail
    <3>1. /\ AttestationOK(Parsed(world.manifest, r), image) /\ pc' = "root"
          /\ UNCHANGED <<dhi, image, att, sig, st, layer, entity, reference, info>>
      BY <2>1, <2>5 DEF chain, read
    <3>2. r # NoAnswer /\ Parsed(world.manifest, r) = world.manifest[att.digest]
      BY <3>1, ParsedFacts DEF AttestationOK, SubjectIs
    <3>3. BaseInv'
      BY <2>2, <2>3, <3>1 DEF IInv, BaseInv, Requests, Attested, SignatureFound
    <3>4. LinkInv'
      BY <2>2, <3>1, <3>2 DEF IInv, LinkInv, Resolved, Attested, SignatureFound
    <3>5. EntityInv' /\ VerdictInv' /\ HeardInv'
      BY <2>2, <2>3, <3>1, <3>2 DEF IInv, EntityInv, VerdictInv, HeardInv, Requests
    <3> QED
      BY <3>3, <3>4, <3>5 DEF IInv
  <2> QED
    BY <2>4, <2>5
<1>2. CASE GetTrustedRoot
  <2>1. pc = "root" /\ UNCHANGED world
    BY <1>2 DEF GetTrustedRoot
  <2>2. CASE Fail /\ heard' = "failure"
    BY <2>1, <2>2, FailStep
  <2>3. CASE /\ st' \in Statuses
             /\ pc' = "signature"
             /\ UNCHANGED <<chain, layer, entity, reference, info, heard>>
    <3>1. UNCHANGED <<dhi, image, att, sig, layer, entity, reference, info, heard>>
      BY <2>3 DEF chain
    <3>2. BaseInv'
      BY <2>1, <2>3, <3>1 DEF IInv, BaseInv, Requests, Attested, SignatureFound
    <3>3. LinkInv'
      BY <2>1, <2>3, <3>1 DEF IInv, LinkInv, Resolved, Attested, SignatureFound
    <3>4. EntityInv' /\ VerdictInv' /\ HeardInv'
      BY <2>1, <2>3, <3>1 DEF IInv, EntityInv, VerdictInv, HeardInv, Requests
    <3> QED
      BY <3>2, <3>3, <3>4 DEF IInv
  <2> QED
    BY <1>2, <2>2, <2>3 DEF GetTrustedRoot
<1> QED
  BY <1>1, <1>2

\* The first layer of a signature manifest about the attestation.
LEMMA SignatureStep == ASSUME IInv, ReadSignature PROVE IInv'
<1>1. PICK r \in ReadBlob(sig.digest) :
        /\ heard' = Heard(r, sig.digest)
        /\ \/ Fail
           \/ /\ SubjectIs(Parsed(world.manifest, r), att)
              /\ Parsed(world.manifest, r).layers # <<>>
              /\ layer' = Parsed(world.manifest, r).layers[1]
              /\ pc' = "layer"
              /\ UNCHANGED <<chain, st, entity, reference, info>>
  BY DEF ReadSignature
<1>2. pc = "signature" /\ UNCHANGED world
  BY DEF ReadSignature
<1>3. heard' \in {"truth", "other", "failure"} /\ (r # NoAnswer => heard' # "failure")
  BY <1>1, <1>2, HeardFacts DEF IInv
<1>4. CASE Fail
  BY <1>2, <1>3, <1>4, FailStep
<1>5. CASE ~Fail
  <2> DEFINE m == world.manifest[sig.digest]
  <2>1. Parsed(world.manifest, r) # Unparsable
    BY <1>1, <1>5 DEF SubjectIs
  <2>2. r # NoAnswer /\ Parsed(world.manifest, r) = m /\ m # Unparsable
    BY <2>1, ParsedFacts
  <2>3. /\ SubjectIs(m, att) /\ m.layers # <<>> /\ layer' = m.layers[1] /\ pc' = "layer"
        /\ UNCHANGED <<dhi, image, att, sig, st, entity, reference, info>>
    BY <1>1, <1>5, <2>2 DEF chain
  <2>4. sig.digest \in Digests /\ world \in Worlds
    BY <1>2 DEF IInv, BaseInv, Attested
  <2>5. layer'.digest \in Digests /\ CertificateType(layer'.certificate)
    BY <2>2, <2>3, <2>4, WorldsAssumption DEF Descriptors
  <2>6. BaseInv'
    BY <1>2, <1>3, <2>3, <2>5 DEF IInv, BaseInv, Requests, Attested, SignatureFound
  <2>7. LinkInv'
    BY <1>2, <2>3 DEF IInv, LinkInv, Resolved, Attested, SignatureFound
  <2>8. EntityInv' /\ VerdictInv' /\ HeardInv'
    BY <1>2, <1>3, <2>2, <2>3 DEF IInv, EntityInv, VerdictInv, HeardInv, Requests
  <2> QED
    BY <2>6, <2>7, <2>8 DEF IInv
<1> QED
  BY <1>4, <1>5

\* The entity is made of what the layer's digest stands for.
LEMMA LayerStep == ASSUME IInv, ReadLayer PROVE IInv'
<1>1. PICK r \in ReadBlob(layer.digest) :
        /\ heard' = Heard(r, layer.digest)
        /\ \/ Fail
           \/ /\ layer.mediaType = "bundle"
              /\ loadBundle(Parsed(world.bundle, r)) # Unparsable
              /\ entity' = loadBundle(Parsed(world.bundle, r))
              /\ pc' = "verify"
              /\ UNCHANGED <<chain, st, layer, reference, info>>
           \/ /\ layer.mediaType = "simple"
              /\ PayloadOK(Parsed(world.payload, r))
              /\ entity' \in HashedRecordSignedEntities(layer)
              /\ reference' = Parsed(world.payload, r).reference
              /\ pc' = "verify"
              /\ UNCHANGED <<chain, st, layer, info>>
  BY DEF ReadLayer
<1>2. pc = "layer" /\ UNCHANGED world
  BY DEF ReadLayer
<1>3. heard' \in {"truth", "other", "failure"} /\ (r # NoAnswer => heard' # "failure")
  BY <1>1, <1>2, HeardFacts DEF IInv
<1>4. layer.digest \in Digests /\ world \in Worlds /\ CertificateType(layer.certificate)
  BY <1>2 DEF IInv, BaseInv, SignatureFound
<1>5. ASSUME r # NoAnswer, pc' = "verify", UNCHANGED <<dhi, image, att, sig, st, layer, info>>,
             EntityOK', entity'.doc.subject \in Digests, CertificateType(entity'.cert)
      PROVE  IInv'
  <2>1. BaseInv'
    BY <1>2, <1>3, <1>4, <1>5 DEF IInv, BaseInv, Requests, Attested, SignatureFound
  <2>2. LinkInv'
    BY <1>2, <1>5 DEF IInv, LinkInv, Resolved, Attested, SignatureFound
  <2>3. EntityInv' /\ VerdictInv' /\ HeardInv'
    BY <1>2, <1>3, <1>5 DEF IInv, EntityInv, VerdictInv, HeardInv, Requests
  <2> QED
    BY <2>1, <2>2, <2>3 DEF IInv
<1>6. CASE Fail
  BY <1>2, <1>3, <1>6, FailStep
<1>7. CASE /\ layer.mediaType = "bundle"
           /\ loadBundle(Parsed(world.bundle, r)) # Unparsable
           /\ entity' = loadBundle(Parsed(world.bundle, r))
           /\ pc' = "verify"
           /\ UNCHANGED <<chain, st, layer, reference, info>>
  <2>1. Parsed(world.bundle, r) # Unparsable /\ entity' = Parsed(world.bundle, r)
    BY <1>7 DEF loadBundle
  <2>2. r # NoAnswer /\ entity' = world.bundle[layer.digest] /\ entity' # Unparsable
    BY <2>1, ParsedFacts
  <2>3. reference' = "" /\ UNCHANGED <<dhi, image, att, sig, st, layer, info>>
    BY <1>2, <1>7 DEF chain, IInv, EntityInv, Requests
  <2>4. EntityOK'
    BY <1>2, <1>7, <2>2, <2>3 DEF EntityOK
  <2>5. entity'.doc.subject \in Digests /\ CertificateType(entity'.cert)
    BY <1>4, <2>2, WorldsAssumption
  <2> QED
    BY <1>5, <1>7, <2>2, <2>3, <2>4, <2>5
<1>8. CASE /\ layer.mediaType = "simple"
           /\ PayloadOK(Parsed(world.payload, r))
           /\ entity' \in HashedRecordSignedEntities(layer)
           /\ reference' = Parsed(world.payload, r).reference
           /\ pc' = "verify"
           /\ UNCHANGED <<chain, st, layer, info>>
  <2>1. Parsed(world.payload, r) # Unparsable
    BY <1>8 DEF PayloadOK
  <2>2. r # NoAnswer /\ Parsed(world.payload, r) = world.payload[layer.digest]
    BY <2>1, ParsedFacts
  <2>3. UNCHANGED <<dhi, image, att, sig, st, layer, info>>
    BY <1>8 DEF chain
  <2>4. EntityOK'
    BY <1>2, <1>8, <2>2, <2>3 DEF EntityOK, PayloadOK, HashedRecordSignedEntities
  <2>5. PICK entries \in TlogEntries(layer.bundle) :
          entity' = [version |-> "v0.1", doc |-> [subject |-> layer.digest, predicate |-> None],
                     sig |-> layer.signature, cert |-> IF dhi THEN None ELSE layer.certificate,
                     entries |-> entries, stamps |-> <<>>]
    BY <1>8 DEF HashedRecordSignedEntities
  <2>6. entity'.doc.subject = layer.digest /\ entity'.cert \in {None, layer.certificate}
    BY <2>5
  <2>7. CertificateType(entity'.cert)
    BY <1>4, <2>6 DEF CertificateType
  <2> QED
    BY <1>4, <1>5, <1>8, <2>2, <2>3, <2>4, <2>6, <2>7
<1> QED
  BY <1>1, <1>6, <1>7, <1>8

\* The verdict is about variables that do not change when it is made, nor later.
LEMMA VerdictStep == ASSUME IInv, Verify PROVE IInv'
<1>1. pc = "verify" /\ UNCHANGED <<world, heard>>
  BY DEF Verify
<1>2. CASE Fail
  BY <1>1, <1>2, FailStep DEF IInv, BaseInv
<1>3. CASE ~Fail
  <2>1. /\ Verified(entity, TrustedRoot, VerifierOpts, PolicyDigest)
        /\ entity.cert # None \/ dhi
        /\ info' = SignatureInfo /\ pc' = "done"
        /\ UNCHANGED <<dhi, image, att, sig, st, layer, entity, reference>>
    BY <1>3 DEF Verify, chain
  <2>2. Accepted'
    BY <1>1, <2>1 DEF Accepted, TrustedRoot, VerifierOpts, PolicyDigest, SignatureInfo
  <2>3. EntityOK'
    BY <1>1, <2>1 DEF IInv, EntityInv, EntityOK, PayloadOK, HashedRecordSignedEntities
  <2>4. BaseInv'
    BY <1>1, <2>1 DEF IInv, BaseInv, Requests, Attested, SignatureFound
  <2>5. LinkInv'
    BY <1>1, <2>1 DEF IInv, LinkInv, Resolved, Attested, SignatureFound
  <2>6. EntityInv' /\ VerdictInv' /\ HeardInv'
    BY <1>1, <2>1, <2>2, <2>3 DEF IInv, EntityInv, VerdictInv, HeardInv, Requests
  <2> QED
    BY <2>4, <2>5, <2>6 DEF IInv
<1> QED
  BY <1>2, <1>3

\* The invariant is about this module's variables alone.
LEMMA StutterStep == ASSUME IInv, UNCHANGED vars PROVE IInv'
<1>1. UNCHANGED <<world, pc, dhi, image, att, sig, st, layer, entity, reference, info, heard>>
  BY DEF vars, chain, read
<1>2. BaseInv' /\ LinkInv' /\ HeardInv'
  BY <1>1 DEF IInv, BaseInv, LinkInv, HeardInv
<1>3. EntityInv'
  BY <1>1 DEF IInv, EntityInv, EntityOK, PayloadOK, HashedRecordSignedEntities
<1>4. VerdictInv'
  BY <1>1 DEF IInv, VerdictInv, Accepted, TrustedRoot, VerifierOpts, PolicyDigest, SignatureInfo
<1> QED
  BY <1>2, <1>3, <1>4 DEF IInv

\* The inductive invariant holds of every behaviour.
LEMMA Invariance == Spec => []IInv
<1>1. Init => IInv
  <2>1. Init => BaseInv
    BY DEF Init, BaseInv, Requests, Attested, SignatureFound
  <2>2. Init => LinkInv /\ EntityInv /\ VerdictInv /\ HeardInv
    BY DEF Init, LinkInv, EntityInv, VerdictInv, HeardInv, Resolved, Attested, SignatureFound
  <2> QED
    BY <2>1, <2>2 DEF IInv
<1>2. IInv /\ [Next]_vars => IInv'
  BY RefuseStep, IndexStep, ReferrersStep, AttestationStep, SignatureStep, LayerStep, VerdictStep,
     StutterStep DEF Next
<1> QED
  BY <1>1, <1>2, PTL DEF Spec

-----------------------------------------------------------------------------
(* URIs under a prefix. *)

\* The parts of a URI, the ones that the code compares with among them.
Parts == STRING \cup {"https://github.com", "docker", "github-builder", "github-builder-experimental",
                      ".github", "workflows"}

\* The URIs of certificates and the prefixes they are compared with are sequences of parts.
LEMMA PartsFacts ==
    /\ \A u \in Seq(STRING) : u \in Seq(Parts)
    /\ github \in Seq(Parts) /\ Len(github) = 1
    /\ workflows \in Seq(Parts) /\ Len(workflows) = 2
<1>1. ASSUME NEW u \in Seq(STRING) PROVE u \in Seq(Parts)
  BY SeqMonotonic DEF Parts
<1>2. github \in Seq(Parts) /\ Len(github) = 1
  BY DEF github, Parts
<1>3. workflows \in Seq(Parts) /\ Len(workflows) = 2
  BY DEF workflows, Parts
<1> QED
  BY <1>1, <1>2, <1>3

\* The parts of one URI after the other.
LEMMA ConcatAt ==
    ASSUME NEW p \in Seq(Parts), NEW q \in Seq(Parts)
    PROVE  /\ p \o q \in Seq(Parts) /\ Len(p) \in Nat /\ Len(q) \in Nat
           /\ Len(p \o q) = Len(p) + Len(q)
           /\ \A i \in 1 .. Len(p) : (p \o q)[i] = p[i]
           /\ \A i \in 1 .. Len(q) : (p \o q)[Len(p) + i] = q[i]
<1>1. Len(p) \in Nat /\ Len(q) \in Nat
  BY LenProperties
<1>2. /\ p \o q \in Seq(Parts) /\ Len(p \o q) = Len(p) + Len(q)
      /\ \A i \in 1 .. Len(p) + Len(q) : (p \o q)[i] = IF i <= Len(p) THEN p[i] ELSE q[i - Len(p)]
  BY ConcatProperties, Zenon
<1>3. ASSUME NEW i \in 1 .. Len(q) PROVE (p \o q)[Len(p) + i] = q[i]
  <2>1. Len(p) + i \in 1 .. Len(p) + Len(q) /\ ~(Len(p) + i <= Len(p)) /\ (Len(p) + i) - Len(p) = i
    BY <1>1
  <2> QED
    BY <1>2, <2>1
<1> QED
  BY <1>1, <1>2, <1>3

\* A URI under a prefix has the prefix's parts in their places.
LEMMA UnderAt ==
    ASSUME NEW uri \in Seq(Parts), NEW prefix \in Seq(Parts), Under(uri, prefix)
    PROVE  \A i \in 1 .. Len(prefix) : uri[i] = prefix[i]
<1>1. Len(uri) \in Nat /\ Len(prefix) \in Nat /\ Len(uri) > Len(prefix)
        /\ SubSeq(uri, 1, Len(prefix)) = prefix
  BY LenProperties DEF Under
<1>2. \A i \in 1 .. Len(prefix) : uri[i] \in Parts
  BY <1>1, ElementOfSeq
<1>3. \A i \in 1 .. Len(prefix) - 1 + 1 : SubSeq(uri, 1, Len(prefix))[i] = uri[1 + i - 1]
  BY <1>1, <1>2, SubSeqProperties
<1> QED
  BY <1>1, <1>3

\* A URI under p \o q begins with p.
LEMMA UnderConcat ==
    ASSUME NEW uri \in Seq(Parts), NEW p \in Seq(Parts), NEW q \in Seq(Parts), Under(uri, p \o q)
    PROVE  SubSeq(uri, 1, Len(p)) = p
<1>1. /\ p \o q \in Seq(Parts) /\ Len(p) \in Nat /\ Len(q) \in Nat /\ Len(uri) \in Nat
      /\ Len(p \o q) = Len(p) + Len(q)
      /\ \A i \in 1 .. Len(p) : (p \o q)[i] = p[i]
  BY ConcatAt, LenProperties
<1>2. \A i \in 1 .. Len(p) + Len(q) : uri[i] = (p \o q)[i]
  BY <1>1, UnderAt
<1>3. \A i \in 1 .. Len(p) : uri[i] = p[i]
  BY <1>1, <1>2
<1>4. Len(uri) >= Len(p)
  BY <1>1 DEF Under
<1>5. \A i \in 1 .. Len(p) : uri[i] \in Parts
  BY <1>1, <1>4, ElementOfSeq
<1>6. /\ SubSeq(uri, 1, Len(p)) \in Seq(Parts)
      /\ Len(SubSeq(uri, 1, Len(p))) = Len(p)
      /\ \A i \in 1 .. Len(p) : SubSeq(uri, 1, Len(p))[i] = uri[i]
  BY <1>1, <1>5, SubSeqProperties
<1> QED
  BY <1>3, <1>6, SeqEqual

\* The workflows of Docker's builders are in two repositories of Docker's.
LEMMA BuilderAt ==
    ASSUME NEW uri \in Seq(Parts), UnderBuilder(uri)
    PROVE  uri[2] = "docker" /\ uri[3] \in {"github-builder", "github-builder-experimental"}
<1>1. ASSUME NEW name \in Parts, Under(uri, github \o <<"docker", name>> \o workflows)
      PROVE  uri[2] = "docker" /\ uri[3] = name
  <2> DEFINE b == <<"docker", name>>
             ab == github \o b
             abc == ab \o workflows
  <2>1. b \in Seq(Parts) /\ Len(b) = 2 /\ b[1] = "docker" /\ b[2] = name
    BY <1>1 DEF Parts
  <2> HIDE DEF b
  <2>2. ab \in Seq(Parts) /\ Len(ab) = 3 /\ ab[2] = b[1] /\ ab[3] = b[2]
    <3>1. /\ ab \in Seq(Parts) /\ Len(ab) = Len(github) + Len(b)
          /\ \A i \in 1 .. Len(b) : ab[Len(github) + i] = b[i]
      BY <2>1, PartsFacts, ConcatAt, Zenon
    <3>2. Len(github) = 1 /\ 1 \in 1 .. 2 /\ 2 \in 1 .. 2 /\ 1 + 1 = 2 /\ 1 + 2 = 3
      BY PartsFacts
    <3> QED
      BY <2>1, <3>1, <3>2
  <2> HIDE DEF ab
  <2>3. abc \in Seq(Parts) /\ Len(abc) = 5 /\ abc[2] = ab[2] /\ abc[3] = ab[3]
    <3>1. /\ abc \in Seq(Parts) /\ Len(abc) = Len(ab) + Len(workflows)
          /\ \A i \in 1 .. Len(ab) : abc[i] = ab[i]
      BY <2>2, PartsFacts, ConcatAt, Zenon
    <3>2. Len(workflows) = 2 /\ 2 \in 1 .. 3 /\ 3 \in 1 .. 3
      BY PartsFacts
    <3> QED
      BY <2>2, <3>1, <3>2
  <2> HIDE DEF abc
  <2>4. Under(uri, abc)
    BY <1>1 DEF abc, ab, b
  <2>5. \A i \in 1 .. 5 : uri[i] = abc[i]
    BY <2>3, <2>4, UnderAt
  <2> QED
    BY <2>1, <2>2, <2>3, <2>5
<1> QED
  BY <1>1 DEF UnderBuilder, githubBuilderURI, githubBuilderURIExperimental, Parts

-----------------------------------------------------------------------------
(* What follows from a verdict. *)

\* The fields of the SignatureInfo that is returned, and what its kind was made of.
LEMMA InfoFields ==
    ASSUME Accepted
    PROVE  /\ info.timestamps = VerifiedTimestamps(entity, VerifierOpts)
           /\ info.kind \in Kinds
           /\ \E s : /\ info.kind = DetectKind(s)
                     /\ s.signer = IF entity.cert # None THEN entity.cert.summary ELSE None
                     /\ s.timestamps = info.timestamps
                     /\ s.reference = reference /\ s.isDHI = dhi /\ s.type = layer.mediaType
<1> DEFINE result == VerificationResult(entity, VerifierOpts)
           s == [kind |-> None, signer |-> result.certificate, timestamps |-> result.timestamps,
                 reference |-> reference, root |-> toRootStatus(st), isDHI |-> dhi,
                 type |-> layer.mediaType]
<1>1. info = [s EXCEPT !.kind = DetectKind(s)]
  BY DEF Accepted, SignatureInfo
<1>2. DetectKind(s) \in Kinds
  BY DEF DetectKind, Kinds
<1>3. /\ result.timestamps = VerifiedTimestamps(entity, VerifierOpts)
      /\ result.certificate = IF entity.cert # None THEN entity.cert.summary ELSE None
  BY DEF VerificationResult
<1> HIDE DEF result
<1>4. info.kind = DetectKind(s) /\ info.timestamps = result.timestamps
  BY <1>1, Zenon
<1>5. /\ s.signer = result.certificate /\ s.timestamps = result.timestamps
      /\ s.reference = reference /\ s.isDHI = dhi /\ s.type = layer.mediaType
  BY Zenon
<1> HIDE DEF s
<1> QED
  BY <1>2, <1>3, <1>4, <1>5

-----------------------------------------------------------------------------
(* Images in good order: a second invariant, on top of the first one.      *)

\* What has been chosen so far is what is listed, and nothing has gone wrong, as
\* long as the registry told the truth about an image in good order.
CompleteInv ==
    heard = "truth" /\ InGoodOrder(world) =>
        /\ pc \notin {"failed", "unsigned"}
        /\ pc \in Resolved => (dhi <=> HardenedIndex(world)) /\ image \in BestImages(world)
        /\ pc = "attRefs" => dhi
        /\ pc \in Resolved \ {"attRefs"} => att \in ListedAttestations(world, image)
        /\ pc \in Attested \cup {"attestation"} => sig \in ListedSignatures(world, att)
        /\ pc \in {"verify", "done"} => entity = MeantEntity(world, layer)

\* Where everything is in good order, so is what is chosen at each point.
LEMMA GoodOrderFacts ==
    ASSUME NEW w, InGoodOrder(w), NEW im \in BestImages(w)
    PROVE  /\ ListedAttestations(w, im) # {}
           /\ \A a \in ListedAttestations(w, im) :
                 /\ AttestationOK(w.manifest[a.digest], im)
                 /\ ListedSignatures(w, a) # {}
                 /\ \A s \in ListedSignatures(w, a) :
                       LET m == w.manifest[s.digest] IN
                       /\ SubjectIs(m, a) /\ m.layers # <<>>
                       /\ m.layers[1].mediaType = "bundle" => m.artifactType = "bundle"
                       /\ WellSigned(w, a, m.layers[1])
BY DEF InGoodOrder

\* If the registry is still thought truthful it was so before, and it answered.
LEMMA TruthHeard ==
    ASSUME NEW r, NEW t, heard' = Heard(r, t), heard' = "truth"
    PROVE  heard = "truth" /\ r = t /\ r \notin {None, NoAnswer}
BY DEF Heard

\* The answer about a blob is the blob.
LEMMA TruthParsed ==
    ASSUME NEW view, NEW d, NEW r, r = d, r \notin {None, NoAnswer}
    PROVE  Parsed(view, r) = view[d]
BY DEF Parsed

\* The ranks are numbers.
LEMMA RankFacts == \A f \in DOMAIN Rank : Rank[f] \in Nat
<1>1. Rank = [best |-> 1, other |-> 2, nil |-> 3]
  BY DEF Rank
<1>2. DOMAIN Rank = {"best", "other", "nil"}
  BY <1>1
<1>3. Rank["best"] = 1 /\ Rank["other"] = 2 /\ Rank["nil"] = 3
  BY <1>1
<1> QED
  BY <1>2, <1>3

\* The manifest that is resolved is one of those that fit best.
LEMMA ResolvedIsBest ==
    ASSUME NEW w, NEW i, ResolvedManifest(w.index[Target], i)
    PROVE  w.index[Target].manifests[i] \in BestImages(w)
<1> DEFINE idx == w.index[Target]
<1>1. i \in Candidates(idx)
  BY DEF ResolvedManifest
<1>2. ASSUME NEW k \in Candidates(idx) PROVE Rank[idx.manifests[i].fit] <= Rank[idx.manifests[k].fit]
  <2>1. idx.manifests[i].fit \in DOMAIN Rank /\ idx.manifests[k].fit \in DOMAIN Rank
    BY <1>1 DEF Candidates
  <2>2. Rank[idx.manifests[i].fit] \in Nat /\ Rank[idx.manifests[k].fit] \in Nat
    BY <2>1, RankFacts
  <2>3. \/ Rank[idx.manifests[i].fit] < Rank[idx.manifests[k].fit]
        \/ Rank[idx.manifests[i].fit] = Rank[idx.manifests[k].fit]
    BY DEF ResolvedManifest
  <2> QED
    BY <2>2, <2>3
<1> QED
  BY <1>1, <1>2 DEF BestImages

\* An index in good order resolves, and what is chosen from it is listed.
LEMMA IndexComplete ==
    ASSUME IInv, ReadIndex, heard' = "truth", InGoodOrder(world)
    PROVE  CompleteInv'
<1> DEFINE idx == world.index[Target]
<1>1. PICK r \in ReadBlob(Target) :
        /\ heard' = Heard(r, Target)
        /\ \/ Fail /\ Parsed(world.index, r) = Unparsable
           \/ Fail /\ Candidates(Parsed(world.index, r)) = {}
           \/ /\ \E i \in DOMAIN Parsed(world.index, r).manifests :
                    /\ ResolvedManifest(Parsed(world.index, r), i)
                    /\ image' = Parsed(world.index, r).manifests[i]
              /\ dhi' = isDHIIndex(Parsed(world.index, r))
              /\ \/ dhi' /\ pc' = "attRefs"
                 \/ ~dhi' /\ AttestationsFor(Parsed(world.index, r), image') = {}
                 \/ /\ ~dhi'
                    /\ \E i \in AttestationsFor(Parsed(world.index, r), image') :
                          att' = Parsed(world.index, r).manifests[i]
                    /\ pc' = "sigRefs"
  BY DEF ReadIndex, FirstIn
<1>2. UNCHANGED world
  BY DEF ReadIndex
<1>3. Parsed(world.index, r) = idx
  BY <1>1, TruthHeard, TruthParsed
<1>4. idx # Unparsable /\ Candidates(idx) # {}
  BY DEF InGoodOrder, BestImages
<1>5. /\ \E i \in DOMAIN idx.manifests : ResolvedManifest(idx, i) /\ image' = idx.manifests[i]
      /\ dhi' <=> HardenedIndex(world)
      /\ \/ dhi' /\ pc' = "attRefs"
         \/ ~dhi' /\ AttestationsFor(idx, image') = {}
         \/ ~dhi' /\ pc' = "sigRefs" /\ \E i \in AttestationsFor(idx, image') : att' = idx.manifests[i]
  BY <1>1, <1>3, <1>4 DEF HardenedIndex
<1>6. image' \in BestImages(world)
  BY <1>5, ResolvedIsBest
<1>7. ListedAttestations(world, image') # {}
  BY <1>6, GoodOrderFacts
<1>8. CASE dhi' /\ pc' = "attRefs"
  BY <1>2, <1>5, <1>6, <1>8 DEF CompleteInv, Resolved, Attested
<1>9. CASE ~dhi'
  <2>1. ListedAttestations(world, image') = {idx.manifests[i] : i \in AttestationsFor(idx, image')}
    BY <1>5, <1>9 DEF ListedAttestations
  <2>2. pc' = "sigRefs" /\ att' \in ListedAttestations(world, image')
    BY <1>5, <1>7, <1>9, <2>1
  <2> QED
    BY <1>2, <1>5, <1>6, <2>2 DEF CompleteInv, Resolved, Attested
<1> QED
  BY <1>5, <1>8, <1>9

\* The lists of referrers have the attestation and the signature.
LEMMA ReferrersComplete ==
    ASSUME IInv, CompleteInv, FetchAttestation \/ FetchSignature, heard' = "truth", InGoodOrder(world)
    PROVE  CompleteInv'
<1>1. CASE FetchAttestation
  <2> DEFINE refs == world.referrers[image.digest]
  <2>1. PICK rs \in FetchReferrers :
          /\ heard' = Heard(rs, refs)
          /\ \/ rs = NoAnswer
             \/ Provenances(rs) = {}
             \/ /\ \E i \in Provenances(rs) : att' = rs[i]
                /\ pc' = "sigRefs" /\ UNCHANGED <<dhi, image>>
    BY <1>1 DEF FetchAttestation, FirstIn
  <2>2. heard = "truth" /\ rs = refs /\ rs # NoAnswer
    BY <2>1, TruthHeard
  <2>3. pc = "attRefs" /\ UNCHANGED world
    BY <1>1 DEF FetchAttestation
  <2>4. dhi /\ HardenedIndex(world) /\ image \in BestImages(world)
    BY <2>2, <2>3 DEF CompleteInv, Resolved
  <2>5. ListedAttestations(world, image) = {refs[i] : i \in Provenances(refs)}
    BY <2>4 DEF ListedAttestations
  <2>6. Provenances(refs) # {}
    BY <2>4, <2>5, GoodOrderFacts
  <2>7. att' \in ListedAttestations(world, image) /\ pc' = "sigRefs" /\ UNCHANGED <<dhi, image>>
    BY <2>1, <2>2, <2>5, <2>6
  <2> QED
    BY <2>3, <2>4, <2>7 DEF CompleteInv, Resolved, Attested
<1>2. CASE FetchSignature
  <2> DEFINE refs == world.referrers[att.digest]
             chosen(rs) == IF Bundles(rs) # {} THEN Bundles(rs) ELSE Signatures(rs)
  <2>1. PICK rs \in FetchReferrers :
          /\ heard' = Heard(rs, refs)
          /\ \/ rs = NoAnswer
             \/ Signatures(rs) = {}
             \/ /\ \E i \in chosen(rs) : sig' = rs[i]
                /\ pc' = "attestation" /\ UNCHANGED <<dhi, image, att>>
    BY <1>2 DEF FetchSignature, FirstIn, NoSignature
  <2>2. heard = "truth" /\ rs = refs /\ rs # NoAnswer
    BY <2>1, TruthHeard
  <2>3. pc = "sigRefs" /\ UNCHANGED world
    BY <1>2 DEF FetchSignature
  <2>4. /\ dhi <=> HardenedIndex(world)
        /\ image \in BestImages(world) /\ att \in ListedAttestations(world, image)
    BY <2>2, <2>3 DEF CompleteInv, Resolved
  <2>5. ListedSignatures(world, att) = {refs[i] : i \in chosen(refs)}
    BY DEF ListedSignatures
  <2>6. chosen(refs) # {}
    BY <2>4, <2>5, GoodOrderFacts
  <2>7. Signatures(refs) # {}
    BY <2>6 DEF Bundles, Signatures
  <2>8. sig' \in ListedSignatures(world, att) /\ pc' = "attestation" /\ UNCHANGED <<dhi, image, att>>
    BY <2>1, <2>2, <2>5, <2>7
  <2> QED
    BY <2>3, <2>4, <2>8 DEF CompleteInv, Resolved, Attested
<1> QED
  BY <1>1, <1>2

\* The manifests that are read are about what they should be.
LEMMA ManifestsComplete ==
    ASSUME IInv, CompleteInv, ReadAttestation \/ GetTrustedRoot \/ ReadSignature,
           heard' = "truth", InGoodOrder(world)
    PROVE  CompleteInv'
<1>1. UNCHANGED world /\ pc \in {"attestation", "root", "signature"}
  BY DEF ReadAttestation, GetTrustedRoot, ReadSignature
<1>2. ASSUME heard = "truth"
      PROVE  /\ dhi <=> HardenedIndex(world)
             /\ image \in BestImages(world) /\ att \in ListedAttestations(world, image)
             /\ sig \in ListedSignatures(world, att)
  BY <1>1, <1>2 DEF CompleteInv, Resolved, Attested
<1>3. ASSUME heard = "truth", pc' \in {"root", "signature", "layer"}, UNCHANGED <<dhi, image, att, sig>>
      PROVE  CompleteInv'
  BY <1>1, <1>2, <1>3 DEF CompleteInv
<1>4. CASE ReadAttestation
  <2>1. PICK r \in ReadBlob(att.digest) :
          /\ heard' = Heard(r, att.digest)
          /\ AttestationOK(Parsed(world.manifest, r), image) => pc' = "root" /\ UNCHANGED chain
    BY <1>4 DEF ReadAttestation
  <2>2. heard = "truth" /\ Parsed(world.manifest, r) = world.manifest[att.digest]
    BY <2>1, TruthHeard, TruthParsed
  <2>3. AttestationOK(world.manifest[att.digest], image)
    BY <1>2, <2>2, GoodOrderFacts
  <2> QED
    BY <1>3, <2>1, <2>2, <2>3 DEF chain
<1>5. CASE GetTrustedRoot
  <2>1. heard = "truth" /\ pc' = "signature" /\ UNCHANGED chain
    BY <1>5 DEF GetTrustedRoot
  <2> QED
    BY <1>3, <2>1 DEF chain
<1>6. CASE ReadSignature
  <2> DEFINE m == world.manifest[sig.digest]
  <2>1. PICK r \in ReadBlob(sig.digest) :
          LET mm == Parsed(world.manifest, r) IN
          /\ heard' = Heard(r, sig.digest)
          /\ \/ ~SubjectIs(mm, att)
             \/ mm.layers = <<>>
             \/ pc' = "layer" /\ UNCHANGED chain
             \/ mm.layers[1].mediaType = "bundle" /\ mm.artifactType # "bundle"
             \/ mm.layers[1].mediaType = "other"
    BY <1>6 DEF ReadSignature
  <2>2. heard = "truth" /\ Parsed(world.manifest, r) = m
    BY <2>1, TruthHeard, TruthParsed
  <2>3. /\ SubjectIs(m, att) /\ m.layers # <<>>
        /\ m.layers[1].mediaType = "bundle" => m.artifactType = "bundle"
        /\ WellSigned(world, att, m.layers[1])
    BY <1>2, <2>2, GoodOrderFacts
  <2>4. m.layers[1].mediaType \in {"bundle", "simple"}
    BY <2>3 DEF WellSigned
  <2> QED
    BY <1>3, <2>1, <2>2, <2>3, <2>4 DEF chain
<1> QED
  BY <1>4, <1>5, <1>6

\* The entity that is meant, for a layer with a payload.
LEMMA MeantFields ==
    ASSUME NEW w, NEW l, l.mediaType = "simple"
    PROVE  LET e == MeantEntity(w, l) IN
           /\ e.doc = [subject |-> l.digest, predicate |-> None] /\ e.sig = l.signature
           /\ e.cert = IF HardenedIndex(w) THEN None ELSE l.certificate
           /\ e.entries = IF l.bundle = Absent THEN <<>> ELSE <<Meant(l.bundle)>>
           /\ e.stamps = <<>>
<1>1. l.mediaType # "bundle"
  OBVIOUS
<1> QED
  BY <1>1 DEF MeantEntity

\* The layer holds the signed entity that is meant.
LEMMA LayerComplete ==
    ASSUME IInv, CompleteInv, ReadLayer, heard' = "truth", InGoodOrder(world)
    PROVE  CompleteInv'
<1>1. pc = "layer" /\ UNCHANGED world
  BY DEF ReadLayer
<1>2. PICK r \in ReadBlob(layer.digest) :
        /\ heard' = Heard(r, layer.digest)
        /\ \/ /\ layer.mediaType = "bundle"
              /\ LET b == loadBundle(Parsed(world.bundle, r)) IN
                 IF b = Unparsable THEN Fail
                 ELSE entity' = b /\ pc' = "verify" /\ UNCHANGED <<chain, st, layer, reference, info>>
           \/ /\ layer.mediaType = "simple"
              /\ LET p == Parsed(world.payload, r) IN
                 IF ~(PayloadOK(p) /\ HasHashedRecord(layer)) THEN Fail
                 ELSE /\ entity' \in HashedRecordSignedEntities(layer)
                      /\ pc' = "verify" /\ UNCHANGED <<chain, st, layer, info>>
  BY DEF ReadLayer
<1>3. /\ heard = "truth"
      /\ Parsed(world.bundle, r) = world.bundle[layer.digest]
      /\ Parsed(world.payload, r) = world.payload[layer.digest]
  BY <1>2, TruthHeard, TruthParsed
<1>4. /\ dhi <=> HardenedIndex(world)
      /\ image \in BestImages(world) /\ att \in ListedAttestations(world, image)
      /\ sig \in ListedSignatures(world, att)
  BY <1>1, <1>3 DEF CompleteInv, Resolved, Attested
<1>5. layer = world.manifest[sig.digest].layers[1]
  BY <1>1 DEF IInv, LinkInv, SignatureFound
<1>6. WellSigned(world, att, layer)
  BY <1>4, <1>5, GoodOrderFacts
<1> DEFINE e == MeantEntity(world, layer)
<1>7. ASSUME entity' = e, pc' = "verify", UNCHANGED <<dhi, image, att, sig, layer>>
      PROVE  CompleteInv'
  BY <1>1, <1>4, <1>7 DEF CompleteInv
<1>8. CASE layer.mediaType = "bundle"
  <2>1. e = world.bundle[layer.digest]
    BY <1>8 DEF MeantEntity
  <2>2. e # Unparsable /\ validate(e)
    BY <1>6, <1>8 DEF WellSigned
  <2>3. loadBundle(world.bundle[layer.digest]) = e
    BY <2>1, <2>2 DEF loadBundle
  <2>4. entity' = e /\ pc' = "verify" /\ UNCHANGED <<dhi, image, att, sig, layer>>
    BY <1>2, <1>3, <1>8, <2>2, <2>3 DEF chain
  <2> QED
    BY <1>7, <2>4
<1>9. CASE layer.mediaType = "simple"
  <2>1. PayloadOK(world.payload[layer.digest])
    BY <1>6, <1>9 DEF WellSigned, PayloadOK
  <2>2. /\ layer.signature # None /\ (layer.bundle # Absent => WellWritten(layer.bundle))
        /\ ProperlySigned(e, SignerRoot(world), layer.digest)
    BY <1>6, <1>9 DEF WellSigned
  <2>3. ASSUME ~dhi PROVE layer.certificate # None
    <3>1. SignerRoot(world) = FulcioRoot /\ FulcioRoot.key = None
      BY <1>4, <2>3 DEF SignerRoot, FulcioRoot
    <3>2. e.cert # None
      BY <2>2, <3>1 DEF ProperlySigned
    <3>3. e.cert = layer.certificate
      BY <1>4, <1>9, <2>3, MeantFields
    <3> QED
      BY <3>2, <3>3
  <2>4. HasHashedRecord(layer)
    BY <2>2, <2>3 DEF HasHashedRecord
  <2>5. entity' \in HashedRecordSignedEntities(layer) /\ pc' = "verify" /\ UNCHANGED <<dhi, image, att, sig, layer>>
    BY <1>2, <1>3, <1>9, <2>1, <2>4 DEF chain
  <2>6. TlogEntries(layer.bundle) = {IF layer.bundle = Absent THEN <<>> ELSE <<Meant(layer.bundle)>>}
    <3>1. CASE layer.bundle = Absent
      BY <3>1 DEF TlogEntries, extractBundle
    <3>2. CASE layer.bundle # Absent
      BY <2>2, <3>2, AnnotationRead
    <3> QED
      BY <3>1, <3>2
  <2>7. (IF dhi THEN None ELSE layer.certificate) = (IF HardenedIndex(world) THEN None ELSE layer.certificate)
    BY <1>4
  <2>8. e = [version |-> "v0.1", doc |-> [subject |-> layer.digest, predicate |-> None], sig |-> layer.signature,
             cert |-> IF dhi THEN None ELSE layer.certificate,
             entries |-> IF layer.bundle = Absent THEN <<>> ELSE <<Meant(layer.bundle)>>, stamps |-> <<>>]
    BY <1>9, <2>7 DEF MeantEntity
  <2>9. HashedRecordSignedEntities(layer) = {e}
    BY <2>6, <2>8 DEF HashedRecordSignedEntities
  <2> QED
    BY <1>7, <2>5, <2>9
<1> QED
  BY <1>2, <1>8, <1>9

\* The list of the log entries and that of the timestamps of what is meant are finite.
LEMMA MeantIndices ==
    ASSUME NEW w \in Worlds, NEW a, NEW l, l.digest \in Digests, WellSigned(w, a, l)
    PROVE  Indices(MeantEntity(w, l).entries) /\ Indices(MeantEntity(w, l).stamps)
<1> DEFINE e == MeantEntity(w, l)
<1>1. CASE l.mediaType = "bundle"
  <2>1. e = w.bundle[l.digest] /\ e # Unparsable /\ validate(e)
    BY <1>1 DEF WellSigned, MeantEntity
  <2>2. e.entries # Unparsable
    BY <2>1 DEF validate
  <2> QED
    BY <2>1, <2>2, WorldsAssumption
<1>2. CASE l.mediaType = "simple"
  <2>1. IsFiniteSet({}) /\ \A x : IsFiniteSet({x})
    BY FS_EmptySet, FS_Singleton, Zenon
  <2>2. DOMAIN <<>> = {} /\ \A x : DOMAIN <<x>> = {1}
    OBVIOUS
  <2>3. Indices(<<>>)
    BY <2>1, <2>2 DEF Indices
  <2>4. ASSUME NEW x PROVE Indices(<<x>>)
    <3>1. DOMAIN <<x>> = {1} /\ {1} \subseteq Nat
      BY <2>2
    <3>2. IsFiniteSet(DOMAIN <<x>>)
      BY <2>1, <3>1, Zenon
    <3> QED
      BY <3>1, <3>2 DEF Indices
  <2> QED
    BY <1>2, <2>3, <2>4, MeantFields
<1> QED
  BY <1>1, <1>2 DEF WellSigned

\* A list with entries names a log.
LEMMA LogNamed ==
    ASSUME NEW list, Indices(list), DOMAIN list # {}
    PROVE  Cardinality({list[i].log : i \in DOMAIN list}) >= 1
<1> DEFINE S == DOMAIN list
           T == {list[i].log : i \in S}
           f == [i \in S |-> list[i].log]
<1>1. IsFiniteSet(S) /\ T # {}
  BY DEF Indices
<1>2. f \in Surjection(S, T)
  BY DEF Surjection
<1> HIDE DEF S, T, f
<1>3. IsFiniteSet(T)
  BY <1>1, <1>2, FS_Surjection
<1>4. Cardinality(T) \in Nat /\ Cardinality(T) # 0
  BY <1>1, <1>3, FS_CardinalityType, FS_EmptySet
<1> QED
  BY <1>4 DEF T, S

\* What is signed in good order is verified.
LEMMA VerdictComplete ==
    ASSUME IInv, CompleteInv, Verify, heard' = "truth", InGoodOrder(world)
    PROVE  CompleteInv'
<1>1. pc = "verify" /\ UNCHANGED <<world, heard>>
  BY DEF Verify
<1>2. /\ dhi <=> HardenedIndex(world)
      /\ image \in BestImages(world) /\ att \in ListedAttestations(world, image)
      /\ sig \in ListedSignatures(world, att)
      /\ entity = MeantEntity(world, layer)
  BY <1>1 DEF CompleteInv, Resolved, Attested
<1>3. layer = world.manifest[sig.digest].layers[1] /\ layer.digest \in Digests /\ world \in Worlds
  BY <1>1 DEF IInv, BaseInv, LinkInv, SignatureFound
<1>4. WellSigned(world, att, layer)
  BY <1>2, <1>3, GoodOrderFacts
<1>5. TrustedRoot = SignerRoot(world)
  BY <1>2 DEF TrustedRoot, SignerRoot
<1>6. /\ ProperlySigned(entity, TrustedRoot, PolicyDigest)
      /\ (dhi /\ layer.bundle = Absent) \/ ProperlyLogged(entity, TrustedRoot)
  BY <1>2, <1>4, <1>5 DEF WellSigned, PolicyDigest
<1>7. (TrustedRoot.key = None <=> ~dhi) /\ (entity.cert # None \/ dhi)
  <2>1. CASE dhi
    <3>1. TrustedRoot.cas = {} /\ TrustedRoot.key = "dhi"
      BY <2>1 DEF TrustedRoot, DHIRoot
    <3> QED
      BY <1>6, <2>1, <3>1 DEF ProperlySigned
  <2>2. CASE ~dhi
    <3>1. TrustedRoot.key = None
      BY <2>2 DEF TrustedRoot, FulcioRoot
    <3> QED
      BY <1>6, <2>2, <3>1 DEF ProperlySigned
  <2> QED
    BY <2>1, <2>2
<1> DEFINE o == VerifierOpts
<1>8. Verified(entity, TrustedRoot, o, PolicyDigest)
  <2>1. /\ o.threshold = IF dhi /\ layer.bundle = Absent THEN 0 ELSE 1
        /\ o.observer = ~(dhi /\ layer.bundle = Absent)
        /\ o.sct = ~dhi /\ o.identity = ~dhi
    BY DEF VerifierOpts
  <2>2. o.sct = (TrustedRoot.key = None) /\ o.identity = (TrustedRoot.key = None)
    BY <1>7, <2>1
  <2>3. DOMAIN entity.entries \subseteq Nat /\ DOMAIN entity.stamps \subseteq Nat
    BY <1>2, <1>3, <1>4, MeantIndices DEF Indices
  <2>4. CASE dhi /\ layer.bundle = Absent
    <3>1. TrustedRoot.key # None /\ o.threshold = 0 /\ o.observer = FALSE
      BY <1>7, <2>1, <2>4
    <3> HIDE DEF o
    <3> QED
      BY <1>6, <2>2, <2>3, <3>1, ProperVerified
  <2>5. CASE ~(dhi /\ layer.bundle = Absent)
    <3>1. o.threshold = 1 /\ o.observer = TRUE /\ ProperlyLogged(entity, TrustedRoot)
      BY <1>6, <2>1, <2>5
    <3>2. Indices(entity.entries)
      BY <1>2, <1>3, <1>4, MeantIndices
    <3>3. Cardinality({entity.entries[i].log : i \in DOMAIN entity.entries}) >= 1
      BY <3>1, <3>2, LogNamed DEF ProperlyLogged
    <3>4. o.threshold \in Nat /\ o.threshold > 0
      BY <3>1
    <3> HIDE DEF o
    <3> QED
      BY <1>6, <2>2, <2>3, <3>1, <3>3, <3>4, ProperVerified
  <2> QED
    BY <2>4, <2>5
<1>9. pc' = "done" /\ UNCHANGED <<dhi, image, att, sig, layer, entity>>
  BY <1>7, <1>8 DEF Verify, chain
<1> QED
  BY <1>1, <1>2, <1>9 DEF CompleteInv

\* Both invariants hold of every behaviour.
LEMMA CompleteInvariance == Spec => [](IInv /\ CompleteInv)
<1>1. Init => CompleteInv
  BY DEF Init, CompleteInv, Resolved, Attested
<1>2. ASSUME IInv, CompleteInv, [Next]_vars PROVE CompleteInv'
  <2>1. SUFFICES ASSUME heard' = "truth", InGoodOrder(world) PROVE CompleteInv'
    <3>1. UNCHANGED world
      BY <1>2 DEF Next, RefuseTarget, ReadIndex, FetchAttestation, FetchSignature, ReadAttestation,
         GetTrustedRoot, ReadSignature, ReadLayer, Verify, vars
    <3> QED
      BY <3>1 DEF CompleteInv
  <2>2. CASE RefuseTarget
    BY <2>1, <2>2 DEF RefuseTarget, InGoodOrder
  <2>3. CASE UNCHANGED vars
    <3>1. UNCHANGED <<world, pc, dhi, image, att, sig, layer, entity, heard>>
      BY <2>3 DEF vars, chain, read
    <3> QED
      BY <1>2, <3>1 DEF CompleteInv
  <2> QED
    BY <1>2, <2>1, <2>2, <2>3, IndexComplete, ReferrersComplete, ManifestsComplete, LayerComplete,
       VerdictComplete DEF Next
<1> QED
  BY <1>1, <1>2, Invariance, PTL DEF Spec

\* The kind of an accepted image in good order is the one that is due.
LEMMA KindIsDue ==
    ASSUME Accepted, EntityOK, dhi \in BOOLEAN, CertificateType(entity.cert),
           dhi <=> HardenedIndex(world), entity = MeantEntity(world, layer)
    PROVE  info.kind = DueKind(world, layer)
<1> DEFINE c == MeantEntity(world, layer).cert.summary
<1>1. PICK s : /\ info.kind = DetectKind(s)
               /\ s.signer = IF entity.cert # None THEN entity.cert.summary ELSE None
               /\ s.timestamps = info.timestamps
               /\ s.reference = reference /\ s.isDHI = dhi /\ s.type = layer.mediaType
  BY InfoFields
<1>2. CASE dhi
  <2>1. Verified(entity, DHIRoot, VerifierOpts, PolicyDigest)
    BY <1>2 DEF Accepted, TrustedRoot
  <2>2. s.signer = None
    BY <1>1, <2>1, DHIVerdict
  <2>3. info.kind = IF reference # "" THEN "hardened" ELSE "untrusted"
    BY <1>1, <1>2, <2>2 DEF DetectKind, isDHI, isGithubBuilder, isGithubSelfSigned, isSelfSigned
  <2>4. reference # "" <=> layer.mediaType = "simple" /\ world.payload[layer.digest].reference # ""
    BY DEF EntityOK
  <2> QED
    BY <1>2, <2>3, <2>4 DEF DueKind
<1>3. CASE ~dhi
  <2>1. Verified(entity, FulcioRoot, VerifierOpts, PolicyDigest)
    BY <1>3 DEF Accepted, TrustedRoot
  <2>2. VerifierOpts.observer = TRUE /\ VerifierOpts.sct = TRUE
    BY <1>3 DEF VerifierOpts
  <2>3. CertificateTrusted(entity, VerifiedTimestamps(entity, VerifierOpts))
    BY <2>1, <2>2, FulcioVerdict
  <2>4. entity.cert # None /\ VerifiedTimestamps(entity, VerifierOpts) # {}
    BY <2>3 DEF CertificateTrusted
  <2>5. s.signer = c /\ s.signer # None
    BY <1>1, <2>4 DEF CertificateType
  <2>6. s.timestamps # {}
    BY <1>1, <2>4, InfoFields
  <2> HIDE DEF c
  <2>7. info.kind =
          IF c.certificateIssuer # "sigstore" THEN "untrusted"
          ELSE IF ~OnGithub(c) THEN "selfSigned"
          ELSE IF layer.mediaType = "bundle" /\ UnderBuilder(c.buildSigner) /\ UnderBuilder(c.san) THEN "builder"
          ELSE IF Under(c.buildSigner, c.source \o workflows) /\ Under(c.san, c.source \o workflows) THEN "githubRepo"
          ELSE "selfSigned"
    BY <1>1, <1>3, <2>5, <2>6 DEF DetectKind, isDHI, isGithubBuilder, isGithubSelfSigned, isSelfSigned
  <2> QED
    BY <1>3, <2>7 DEF DueKind, c
<1> QED
  BY <1>2, <1>3

-----------------------------------------------------------------------------
(* The theorems. *)

\* The types of VerifyImage's state.
THEOREM TypeCorrect == Spec => []TypeOK
<1>1. ASSUME IInv PROVE TypeOK
  <2>1. info = None \/ info.kind \in Kinds
    BY <1>1, InfoFields DEF IInv, VerdictInv
  <2> QED
    BY <1>1, <2>1 DEF IInv, BaseInv, TypeOK
<1> QED
  BY <1>1, Invariance, PTL

\* An accepted image is connected with its signature by digests, whatever the
\* registry lists as referrers.
THEOREM ChainSound == Spec => []ChainHolds
<1>1. ASSUME IInv, pc = "done" PROVE ChainHolds
  <2>1. EntityOK /\ Accepted
    BY <1>1 DEF IInv, EntityInv, VerdictInv
  <2>2. ASSUME layer.mediaType = "bundle" PROVE world.bundle[layer.digest].doc.subject = att.digest
    <3>1. entity = world.bundle[layer.digest] /\ PolicyDigest = att.digest
      BY <2>1, <2>2 DEF EntityOK, PolicyDigest
    <3>2. entity.doc.subject = PolicyDigest
      BY <2>1, SignatureOverDigest DEF Accepted
    <3> QED
      BY <3>1, <3>2
  <2>3. ASSUME layer.mediaType # "bundle" PROVE world.payload[layer.digest].image = att.digest
    BY <2>1, <2>3 DEF EntityOK, PayloadOK
  <2>4. /\ \E i \in DOMAIN world.index[Target].manifests :
              /\ ResolvedManifest(world.index[Target], i)
              /\ image = world.index[Target].manifests[i]
        /\ AttestationOK(world.manifest[att.digest], image)
        /\ SubjectIs(world.manifest[sig.digest], att)
        /\ layer = world.manifest[sig.digest].layers[1]
    BY <1>1 DEF IInv, LinkInv, Resolved, Attested, SignatureFound
  <2>5. /\ world.manifest[att.digest].subject.digest = image.digest
        /\ \E i \in DOMAIN world.manifest[att.digest].layers : world.manifest[att.digest].layers[i].slsa
        /\ world.manifest[sig.digest].subject.digest = att.digest
    BY <2>4 DEF AttestationOK, SubjectIs
  <2> QED
    BY <2>2, <2>3, <2>4, <2>5 DEF ChainHolds
<1>2. IInv => ChainHolds
  BY <1>1 DEF ChainHolds
<1> QED
  BY <1>2, Invariance, PTL

\* The signer of an accepted image: the DHI key or a Fulcio certificate, valid at
\* signed times, with a log entry wherever one is required.
THEOREM SignerSound == Spec => []SignerTrusted
<1>1. ASSUME IInv, pc = "done" PROVE SignerTrusted
  <2> DEFINE o == VerifierOpts
             times == VerifiedTimestamps(entity, o)
  <2>1. /\ Verified(entity, TrustedRoot, o, PolicyDigest)
        /\ info.timestamps = times /\ dhi \in BOOLEAN
    BY <1>1, InfoFields DEF IInv, BaseInv, VerdictInv, Accepted
  <2>2. \A t \in times : TimeSigned(entity, t)
    BY <2>1, ReportedTimesSigned
  <2>3. ASSUME ~(dhi /\ layer.bundle = Absent) PROVE SealingLogs(entity) # {} /\ times # {}
    <3>1. o.threshold = 1 /\ o.observer = TRUE
      BY <2>1, <2>3 DEF VerifierOpts
    <3>2. VerifyTlogEntry(entity, TrustedRoot, 1) /\ times # {}
      BY <2>1, <3>1 DEF Verified
    <3>3. VerifiedLogs(entity) \subseteq SealingLogs(entity) /\ Cardinality(VerifiedLogs(entity)) >= 1
      BY <3>2, CountedLogsSealed
    <3>4. VerifiedLogs(entity) # {}
      BY <3>3, FS_EmptySet
    <3> QED
      BY <3>2, <3>3, <3>4
  <2>4. ASSUME dhi PROVE entity.sig.by = "dhi" /\ \A t \in times : t.time >= DHIEpoch
    <3>1. Verified(entity, DHIRoot, o, PolicyDigest)
      BY <2>1, <2>4 DEF TrustedRoot
    <3> QED
      BY <3>1, DHIVerdict
  <2>5. ASSUME ~dhi PROVE CertificateTrusted(entity, times)
    <3>1. Verified(entity, FulcioRoot, o, PolicyDigest)
      BY <2>1, <2>5 DEF TrustedRoot
    <3>2. o.observer = TRUE /\ o.sct = TRUE
      BY <2>5 DEF VerifierOpts
    <3> QED
      BY <3>1, <3>2, FulcioVerdict
  <2> HIDE DEF o, times
  <2> QED
    BY <2>1, <2>2, <2>3, <2>4, <2>5 DEF SignerTrusted
<1>2. IInv => SignerTrusted
  BY <1>1 DEF SignerTrusted
<1> QED
  BY <1>2, Invariance, PTL

\* The kinds that a policy may trust are earned, for every certificate, payload
\* and annotation.
THEOREM KindSound == Spec => []KindEarned
<1>1. ASSUME IInv, pc = "done" PROVE KindEarned
  <2> DEFINE c == entity.cert.summary
  <2>1. EntityOK /\ Accepted /\ CertificateType(entity.cert)
    BY <1>1 DEF IInv, BaseInv, EntityInv, VerdictInv
  <2>2. PICK s : /\ info.kind = DetectKind(s)
                 /\ s.signer = IF entity.cert # None THEN c ELSE None
                 /\ s.timestamps = info.timestamps
                 /\ s.reference = reference /\ s.isDHI = dhi /\ s.type = layer.mediaType
    BY <2>1, InfoFields
  <2>3. /\ info.kind = "hardened" => isDHI(s)
        /\ info.kind = "builder" => isGithubBuilder(s)
        /\ info.kind = "githubRepo" => isGithubSelfSigned(s)
        /\ info.kind = "selfSigned" => isSelfSigned(s)
    BY <2>2 DEF DetectKind
  <2>4. ASSUME info.kind = "hardened"
        PROVE  /\ entity.sig.by = "dhi" /\ layer.mediaType = "simple"
               /\ world.payload[layer.digest].reference # ""
    <3>1. dhi /\ reference # ""
      BY <2>2, <2>3, <2>4 DEF isDHI
    <3>2. Verified(entity, DHIRoot, VerifierOpts, PolicyDigest)
      BY <2>1, <3>1 DEF Accepted, TrustedRoot
    <3>3. entity.sig.by = "dhi"
      BY <3>2, DHIVerdict
    <3> QED
      BY <2>1, <3>1, <3>3 DEF EntityOK
  <2>5. ASSUME info.kind \in {"builder", "githubRepo", "selfSigned"}
        PROVE  /\ s.signer = c /\ entity.cert # None
               /\ entity.sig.by = entity.cert.key /\ c.certificateIssuer = "sigstore"
    <3>1. isSelfSigned(s)
      BY <2>3, <2>5 DEF isGithubBuilder, isGithubSelfSigned
    <3>2. entity.cert # None /\ s.signer = c /\ c.certificateIssuer = "sigstore"
      BY <2>2, <3>1 DEF isSelfSigned
    <3>3. entity.sig = [by |-> entity.cert.key, over |-> entity.doc]
      BY <2>1, <3>2 DEF Accepted, Verified, SignatureOK
    <3>4. entity.sig.by = entity.cert.key
      BY <3>3
    <3> QED
      BY <3>2, <3>4
  <2>6. entity.cert # None => c.buildSigner \in Seq(Parts) /\ c.san \in Seq(Parts) /\ c.source \in Seq(Parts)
    BY <2>1, PartsFacts DEF CertificateType
  <2>7. ASSUME info.kind = "builder"
        PROVE  /\ layer.mediaType = "bundle" /\ info.timestamps # {}
               /\ {c.buildSigner[2], c.san[2]} = {"docker"}
               /\ {c.buildSigner[3], c.san[3]} \subseteq {"github-builder", "github-builder-experimental"}
    <3>1. UnderBuilder(c.buildSigner) /\ UnderBuilder(c.san)
      BY <2>3, <2>5, <2>7 DEF isGithubBuilder
    <3>2. layer.mediaType = "bundle" /\ info.timestamps # {}
      BY <2>2, <2>3, <2>7 DEF isGithubBuilder
    <3>3. /\ c.buildSigner[2] = "docker" /\ c.san[2] = "docker"
          /\ c.buildSigner[3] \in {"github-builder", "github-builder-experimental"}
          /\ c.san[3] \in {"github-builder", "github-builder-experimental"}
      BY <2>5, <2>6, <2>7, <3>1, BuilderAt
    <3> QED
      BY <3>2, <3>3
  <2>8. ASSUME info.kind = "githubRepo"
        PROVE  /\ SubSeq(c.buildSigner, 1, Len(c.source)) = c.source
               /\ SubSeq(c.san, 1, Len(c.source)) = c.source
    <3>1. Under(c.buildSigner, c.source \o workflows) /\ Under(c.san, c.source \o workflows)
      BY <2>3, <2>5, <2>8 DEF isGithubSelfSigned
    <3> QED
      BY <2>5, <2>6, <2>8, <3>1, PartsFacts, UnderConcat
  <2> QED
    BY <2>4, <2>5, <2>7, <2>8 DEF KindEarned
<1>2. IInv => KindEarned
  BY <1>1 DEF KindEarned
<1> QED
  BY <1>2, Invariance, PTL

\* A request that failed is never reported as an image without signature.
THEOREM UnsignedSound == Spec => []UnsignedWasAnswered
<1>1. IInv => UnsignedWasAnswered
  BY DEF IInv, HeardInv, UnsignedWasAnswered
<1> QED
  BY <1>1, Invariance, PTL

\* A truthful registry's image in good order is accepted, with its entity as it was
\* meant and with the kind that is due, whatever else the index and the lists hold.
THEOREM SignedAccepted == Spec => []SignedImageAccepted
<1>1. ASSUME IInv, CompleteInv PROVE SignedImageAccepted
  <2>1. SUFFICES ASSUME heard = "truth", InGoodOrder(world)
                 PROVE  /\ pc \notin {"failed", "unsigned"}
                        /\ pc = "done" => entity = MeantEntity(world, layer) /\ info.kind = DueKind(world, layer)
    BY DEF SignedImageAccepted
  <2>2. ASSUME pc = "done" PROVE info.kind = DueKind(world, layer)
    <3>1. Accepted /\ EntityOK /\ dhi \in BOOLEAN /\ CertificateType(entity.cert)
      BY <1>1, <2>2 DEF IInv, BaseInv, EntityInv, VerdictInv
    <3>2. (dhi <=> HardenedIndex(world)) /\ entity = MeantEntity(world, layer)
      BY <1>1, <2>1, <2>2 DEF CompleteInv, Resolved
    <3> QED
      BY <3>1, <3>2, KindIsDue
  <2> QED
    BY <1>1, <2>1, <2>2 DEF CompleteInv
<1> QED
  BY <1>1, CompleteInvariance, PTL
=============================================================================
