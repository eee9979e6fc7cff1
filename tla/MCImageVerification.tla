------------------------ MODULE MCImageVerification ------------------------
(* Instances of ImageVerification for TLC. *)
EXTENDS ImageVerification, MCSigstore

AllDigests == {"idx", "img", "img2", "att", "att2", "sig", "sig2", "lay"}

-----------------------------------------------------------------------------
(* Indexes *)

Image(d, fit, build) ==
    [digest |-> d, size |-> 1, manifest |-> TRUE, fit |-> fit, refers |-> None, build |-> build]
Attestation(d, of) ==
    [digest |-> d, size |-> 1, manifest |-> TRUE, fit |-> "no", refers |-> of, build |-> FALSE]
Index(title, ms) == [title |-> title, manifests |-> ms]

OneImage  == Index("", <<Image("img", "best", FALSE), Attestation("att", "img")>>)
TwoImages == Index("", <<Attestation("att2", "img2"), Image("img2", "other", FALSE),
                         Image("img", "best", FALSE), Attestation("att", "img")>>)
NoPlatform == Index("", <<Image("img2", "nil", FALSE), Image("img", "best", FALSE),
                          Attestation("att2", "img2"), Attestation("att", "img")>>)
Unattested == Index("dhi", <<Image("img", "best", FALSE), Attestation("att2", "img2")>>)
NoFit     == Index("", <<Attestation("att", "img")>>)
Hardened  == Index("dhi", <<Image("img2", "other", TRUE), Image("img", "best", TRUE)>>)

-----------------------------------------------------------------------------
(* Manifests *)

Subject(d, type, size) == [digest |-> d, mediaType |-> type, size |-> size]
Layer(type, slsa, signature, certificate, annotation) ==
    [digest |-> "lay", mediaType |-> type, slsa |-> slsa, signature |-> signature,
     certificate |-> certificate, bundle |-> annotation]
Provenance(slsa) == Layer("other", slsa, None, None, Absent)
AttestationManifest(subject, slsa) ==
    [subject |-> subject, artifactType |-> "inToto", layers |-> <<Provenance(FALSE), Provenance(slsa)>>]
GoodAttestation == AttestationManifest(Subject("img", "image", 1), TRUE)
Attestations ==
    {GoodAttestation, Unparsable,
     AttestationManifest(None, TRUE),
     AttestationManifest(Subject("img2", "image", 1), TRUE),
     AttestationManifest(Subject("img", "image", 2), TRUE),
     AttestationManifest(Subject("img", "other", 1), TRUE),
     AttestationManifest(Subject("img", "image", 1), FALSE)}

SignatureManifest(subject, type, layers) ==
    [subject |-> subject, artifactType |-> type, layers |-> layers]
OfAtt == Subject("att", "image", 1)

\* A bundle layer, a simple-signing layer, and manifests that are no good.
BundleManifestWith(annotation) ==
    SignatureManifest(OfAtt, "bundle", <<Layer("bundle", FALSE, None, None, annotation)>>)
BundleManifest == BundleManifestWith(Absent)
SimpleManifest(l) == SignatureManifest(OfAtt, "cosign", <<l>>)
BadSignatures ==
    {Unparsable,
     SignatureManifest(None, "bundle", BundleManifest.layers),
     SignatureManifest(Subject("att2", "image", 1), "bundle", BundleManifest.layers),
     SignatureManifest(OfAtt, "cosign", BundleManifest.layers),
     SignatureManifest(OfAtt, "bundle", <<>>),
     SignatureManifest(OfAtt, "bundle", <<Provenance(TRUE)>>)}
-----------------------------------------------------------------------------
(* Annotations with log entry en *)

Num(n) == [json |-> "num", v |-> n]
Str(n) == [json |-> "str", v |-> n]
Nil    == [json |-> "nil", v |-> NaN]
ID(en) == [hex |-> TRUE, id |-> en.log]

Old(en, logID, num(_), top) ==
    [new |-> <<>>,
     old |-> [set |-> en.set, logID |-> top[1], time |-> top[2], index |-> top[3],
              payload |-> [body |-> en.body, logID |-> logID, time |-> num(en.time), index |-> num(en.index)]]]
NoTop == <<Nil, Nil, Nil>>
Nested(en, num(_)) == Old(en, Str(ID(en)), num, NoTop)
TopLevel(en) ==
    LET nil(n) == Nil IN Old(en, Nil, nil, <<Str(ID(en)), Num(en.time), Str(en.index)>>)
EmptyOld == Old([Entry(None, 0, 0, None) EXCEPT !.set = None], Nil, LAMBDA n : Nil, NoTop).old
Content(en, id) ==
    [new |-> <<[body |-> en.body, set |-> en.set, keyID |-> id, time |-> Str(en.time), index |-> Str(en.index)]>>,
     old |-> EmptyOld]

\* The shapes that say the same.
Shapes(en) ==
    {Nested(en, Num), Nested(en, Str), TopLevel(en), Content(en, ID(en)),
     Old(en, Str(ID(en)), Num, <<Str(ID(en)), Num(en.time), Num(en.index)>>)}

Logged3(body) == Sealed(Entry("rekor", 4, 3, body))
\* Index 0; the largest index, exact only in a string; an index that does not fit.
EdgeShapes(body) ==
    LET zero == Sealed(Entry("rekor", 0, 3, body))
        large == Sealed(Entry("rekor", 7, 3, body))
        over == Sealed(Entry("rekor", 13, 3, body))
        maxed == [over EXCEPT !.set = Promise([over EXCEPT !.index = 12])]
    IN  {Nested(zero, Num), Content(zero, ID(zero)), Nested(large, Num), Nested(large, Str),
         Nested(over, Num), Nested(over, Str), Nested(maxed, Num),
         Old(zero, Str(ID(zero)), LAMBDA n : Num(4), <<Nil, Num(3), Num(0)>>),
         Old(Logged3(body), Str([hex |-> FALSE, id |-> "nothing"]), Num, <<Str(ID(zero)), Nil, Num(0)>>)}

Annotations(body) ==
    LET en == Logged3(body) IN
    {Absent, Empty, [new |-> <<>>, old |-> Unparsable], [new |-> <<>>, old |-> EmptyOld],
     Content([en EXCEPT !.set = None], ID(en)), Content(en, [ID(en) EXCEPT !.hex = FALSE]),
     Nested([en EXCEPT !.set = None], Num), Nested([en EXCEPT !.body = Unparsable], Num),
     Nested([en EXCEPT !.time = 4], Num), Nested(Sealed([en EXCEPT !.log = "unknown"]), Num),
     Nested(Sealed([en EXCEPT !.time = 1]), Num), Nested(Sealed([en EXCEPT !.time = 0]), Num)}
    \cup Shapes(en) \cup EdgeShapes(body)

-----------------------------------------------------------------------------
(* Layers *)

OfLayer == [subject |-> "lay", predicate |-> None]
Signed(by, doc) == [by |-> by, over |-> doc]
Simple(s, cert, key) ==
    {Layer("simple", FALSE, s, cert, a) : a \in Annotations(Body(s, key, OfLayer))}
SimpleLayers ==
    UNION {Simple(Signed(by, OfLayer), cert, IF cert = None THEN DHIKey ELSE cert) :
             by \in {"leaf", "dhi", "other"},
             cert \in {None, GoodCert, Certificate("other", TRUE, UserSummary),
                       Certificate("fulcio", FALSE, UserSummary)}}
    \cup {Layer("simple", FALSE, s, GoodCert, Nested(Logged3(Body(s, GoodCert, OfLayer)), Num)) :
             s \in {None, Signed("leaf", [OfLayer EXCEPT !.subject = "att2"])}}

\* Bundles with all kinds of entries and timestamps.
OfDigest(d) == [subject |-> d, predicate |-> "slsa"]
Entries(e, key) ==
    LET b == EntityBody(e, key)
        en == Proven(Entry("rekor", 4, 3, b))
    IN  {<<>>, <<en>>, <<Sealed(en)>>, <<[Sealed(en) EXCEPT !.proof = None]>>, <<Sealed([en EXCEPT !.time = 1])>>,
         <<Sealed(Proven(Entry("rekor", 4, 3, Body(e.sig, [key |-> "other"], e.doc))))>>}
BundlesOf(e, key) ==
    UNION {{WithEntries(e, es), Stamped(WithEntries(e, es), "tsa", 3), Stamped(WithEntries(e, es), "other", 3)} :
             es \in Entries(e, key)}
GoodBundleFor(cert) ==
    LET e == Entity("leaf", cert, OfDigest("att")) IN
    WithEntries(e, <<Sealed(Proven(Entry("rekor", 4, 3, EntityBody(e, cert))))>>)
GoodBundle == GoodBundleFor(GoodCert)
BundleSet ==
    UNION {BundlesOf(Entity(by, cert, OfDigest(d)), IF cert = None THEN DHIKey ELSE cert) :
             by \in {"leaf", "dhi"}, d \in {"att", "att2"},
             cert \in {None, GoodCert, Certificate("fulcio", FALSE, RepoSummary), Certificate("other", TRUE, RepoSummary)}}
    \cup {GoodBundleFor(Certificate("fulcio", TRUE, c)) : c \in Summaries}

Payload(of, type, ref) == [image |-> of, type |-> type, reference |-> ref]
Cosign == "cosign container image signature"
GoodPayload == Payload("att", Cosign, "dhi/image")
Payloads == {GoodPayload, Payload("att", Cosign, ""), Payload("att2", Cosign, "dhi/image"),
             Payload("att", "other", "dhi/image"), Unparsable}

-----------------------------------------------------------------------------
(* Worlds *)

Ref(d, type, slsa) == [digest |-> d, size |-> 1, artifactType |-> type, slsa |-> slsa]
AttRefs == <<Ref("att2", "inToto", FALSE), Ref("att", "inToto", TRUE)>>
BundleRefs == <<Ref("sig2", "cosign", FALSE), Ref("sig", "bundle", FALSE)>>
CosignRefs == <<Ref("att2", "other", TRUE), Ref("sig", "cosign", FALSE)>>
Lists == {<<>>, AttRefs, BundleRefs, CosignRefs, <<Ref("att2", "inToto", TRUE)>>,
          <<Ref("sig", "other", FALSE)>>, <<[Ref("sig2", "bundle", FALSE) EXCEPT !.size = 2]>>}

\* The other blobs are documents without the fields that are looked for.
Plain == SignatureManifest(None, "other", <<>>)
World(index, a, s, sigRefs, bundle, payload) ==
    [type      |-> "index",
     index     |-> [d \in AllDigests |-> IF d = "idx" THEN index ELSE Index("", <<>>)],
     manifest  |-> [d \in AllDigests |-> CASE d = "att"  -> a
                                           [] d = "sig"  -> s
                                           [] d = "att2" -> AttestationManifest(Subject("img2", "image", 1), TRUE)
                                           [] OTHER      -> Plain],
     bundle    |-> [d \in AllDigests |-> IF d = "lay" THEN bundle ELSE Unparsable],
     payload   |-> [d \in AllDigests |-> IF d = "lay" THEN payload ELSE Payload("", "", "")],
     referrers |-> [d \in AllDigests |-> CASE d = "img" -> AttRefs
                                           [] d = "att" -> sigRefs
                                           [] OTHER     -> <<>>]]

\* Properly signed images of each kind.
DHISig == Signed("dhi", OfLayer)
DHILayer(a) == Layer("simple", FALSE, DHISig, None, a)
CertOf(c) == Certificate("fulcio", TRUE, c)
CertLayers(c) ==
    LET s == Signed("leaf", OfLayer) IN
    {Layer("simple", FALSE, s, CertOf(c), a) : a \in Shapes(Logged3(Body(s, CertOf(c), OfLayer)))}
GoodWorldsOf ==
    [builder |->
        {World(i, GoodAttestation, BundleManifest, BundleRefs, GoodBundle, Unparsable) :
            i \in {OneImage, TwoImages, NoPlatform}},
     githubRepo |->
        {World(OneImage, GoodAttestation, BundleManifest, BundleRefs, GoodBundleFor(CertOf(RepoSummary)), Unparsable)}
        \cup {World(OneImage, GoodAttestation, SimpleManifest(l), CosignRefs, Unparsable, GoodPayload) :
                l \in CertLayers(RepoSummary)},
     selfSigned |->
        {World(OneImage, GoodAttestation, SimpleManifest(l), CosignRefs, Unparsable, GoodPayload) :
            l \in CertLayers(BuilderSummary)},
     hardened |->
        {World(Hardened, GoodAttestation, SimpleManifest(DHILayer(a)), CosignRefs, Unparsable, GoodPayload) :
            a \in {Absent} \cup Shapes(Logged3(Body(DHISig, DHIKey, OfLayer)))}]
GoodWorlds == UNION {GoodWorldsOf[k] : k \in DOMAIN GoodWorldsOf}

\* They are what the property of signed images is about.
ASSUME GoodWorldsAreInOrder ==
    \A k \in DOMAIN GoodWorldsOf : \A w \in GoodWorldsOf[k] :
        InGoodOrder(w) /\ DueKind(w, w.manifest["sig"].layers[1]) = k

\* Everything that can be wrong with one part of the chain.
OtherWorlds ==
    {World(i, GoodAttestation, BundleManifest, BundleRefs, GoodBundle, Unparsable) :
        i \in {Unattested, NoFit, Unparsable}}
    \cup {World(i, a, BundleManifest, BundleRefs, GoodBundle, Unparsable) :
            i \in {OneImage, Hardened}, a \in Attestations}
    \cup {World(OneImage, GoodAttestation, s, BundleRefs, GoodBundle, Unparsable) : s \in BadSignatures}
    \cup {World(i, GoodAttestation, BundleManifest, BundleRefs, b, Unparsable) :
            i \in {OneImage, Hardened}, b \in BundleSet \cup {Unparsable}}
    \cup {World(Hardened, GoodAttestation, BundleManifestWith(Empty), BundleRefs, b, Unparsable) :
            b \in BundleSet}
    \cup {World(i, GoodAttestation, SimpleManifest(l), CosignRefs, Unparsable, GoodPayload) :
            i \in {OneImage, Hardened}, l \in SimpleLayers}
    \cup {World(i, GoodAttestation, SimpleManifest(l), CosignRefs, Unparsable, p) :
            i \in {OneImage, Hardened}, l \in {DHILayer(Absent)} \cup CertLayers(UserSummary), p \in Payloads}

\* The target is not an index.
PlainTargets == {[w EXCEPT !.type = "manifest"] : w \in GoodWorlds}

AllWorlds == GoodWorlds \cup OtherWorlds \cup PlainTargets
=============================================================================
