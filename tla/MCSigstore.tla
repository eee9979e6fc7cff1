----------------------------- MODULE MCSigstore -----------------------------
(* Certificates, signatures and log entries for the instances of              *)
(* ImageVerification and ArtifactVerification.  The certificates are valid at *)
(* 3, the logs from 1 on.                                                     *)
EXTENDS SignatureKind

Logs == [l \in {"rekor", "rekor2"} |-> 1 .. 4]
TSAs == {"tsa"}

-----------------------------------------------------------------------------
(* Certificates *)

Summary(signer, source, issuer) ==
    [certificateIssuer |-> "sigstore", issuer |-> issuer, buildSigner |-> signer, san |-> signer,
     source |-> source, ref |-> <<"refs", "heads", "main">>, runner |-> "github-hosted"]
Repo == github \o <<"docker", "buildx">>
Fork == github \o <<"docker", "github-builder-fork">>
BuildYml == <<"build.yml">>
BuilderSummary == Summary(githubBuilderURI \o BuildYml, Repo, "github")
RepoSummary == Summary(Repo \o workflows \o BuildYml, Repo, "github")
UserSummary == Summary(<<"user@example.com">>, <<>>, "google")
Summaries ==
    {BuilderSummary, RepoSummary, UserSummary,
     Summary(githubBuilderURIExperimental \o BuildYml, Repo, "github"),
     Summary(githubBuilderURI \o BuildYml, Repo, "google"),
     Summary(githubBuilderURI, Repo, "github"),
     Summary(Fork \o workflows \o BuildYml, Repo, "github"),
     [BuilderSummary EXCEPT !.san = RepoSummary.san],
     [RepoSummary EXCEPT !.buildSigner = Fork \o workflows \o BuildYml],
     [BuilderSummary EXCEPT !.runner = "self-hosted"],
     [BuilderSummary EXCEPT !.certificateIssuer = "other"]}

Certificate(ca, sct, summary) ==
    [key |-> "leaf", ca |-> ca, sct |-> sct, valid |-> {3}, summary |-> summary]
DHIKey == [key |-> "dhi"]
GoodCert == Certificate("fulcio", TRUE, BuilderSummary)

-----------------------------------------------------------------------------
(* Log entries *)

Body(sig, key, doc) == [sig |-> sig, key |-> key, doc |-> doc]
Sealed(en) == [en EXCEPT !.set = Promise(en)]
Proven(en) == [en EXCEPT !.proof = Proof(en)]
Entry(log, index, time, body) ==
    [log |-> log, index |-> index, time |-> time, body |-> body, set |-> None, proof |-> None]

\* A signed entity, and what is logged of it.
Entity(key, cert, doc) ==
    [version |-> "v0.3", doc |-> doc, sig |-> [by |-> key, over |-> doc], cert |-> cert,
     entries |-> <<>>, stamps |-> <<>>]
EntityBody(e, key) == Body(e.sig, key, e.doc)
WithEntries(e, entries) == [e EXCEPT !.entries = entries]
Stamped(e, by, t) == [e EXCEPT !.stamps = Append(@, [by |-> by, over |-> e.sig, time |-> t])]
=============================================================================
