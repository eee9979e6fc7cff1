--------------------------- MODULE SignatureKind ---------------------------
(***************************************************************************)
(* types/name.go and what the command prints of a SignatureInfo.           *)
(*                                                                         *)
(* A URI is the sequence of its parts between slashes, with the scheme and *)
(* the host as one: strings.HasPrefix(uri, prefix + "/") says that the     *)
(* sequence goes on after prefix.  An empty string is <<>>.                *)
(***************************************************************************)
EXTENDS SigstoreVerifier

Kinds == {"hardened", "builder", "githubRepo", "selfSigned", "untrusted"}

github == <<"https://github.com">>
workflows == <<".github", "workflows">>
githubBuilderURI == github \o <<"docker", "github-builder">> \o workflows
githubBuilderURIExperimental == github \o <<"docker", "github-builder-experimental">> \o workflows

\* uri is something under prefix.
Under(uri, prefix) == Len(uri) > Len(prefix) /\ SubSeq(uri, 1, Len(prefix)) = prefix

-----------------------------------------------------------------------------
(* SignatureInfo *)

\* Bug: the error is not passed on.
toRootStatusWithoutError(st) == [error |-> "", lastUpdated |-> st.lastUpdated]
toRootStatus(st) == [error |-> st.error, lastUpdated |-> st.lastUpdated]

\* What TrustProvider.TrustedRoot returns with the root: Error is what the update
\* failed with, LastUpdated is never set (module TrustProvider).
Statuses == {[error |-> e, lastUpdated |-> None] : e \in {"", "update failed"}}

\* Bug: the index alone makes an image hardened.
isDHIByIndex(s) == s.isDHI
isDHI(s) == s.isDHI /\ s.reference # ""

isSelfSigned(s) == s.signer # None /\ s.signer.certificateIssuer = "sigstore"

\* A workflow that GitHub ran on one of its own runners, for a repository there.
OnGithub(c) ==
    /\ c.issuer = "github"
    /\ Under(c.source, github)
    /\ c.runner = "github-hosted"

UnderBuilder(uri) == Under(uri, githubBuilderURI) \/ Under(uri, githubBuilderURIExperimental)

isGithubBuilder(s) ==
    /\ isSelfSigned(s)
    /\ UnderBuilder(s.signer.buildSigner)
    /\ UnderBuilder(s.signer.san)
    /\ OnGithub(s.signer)
    /\ s.timestamps # {}
    /\ s.type = "bundle"

\* The workflow is one of the repository's own.
isGithubSelfSigned(s) ==
    /\ isSelfSigned(s)
    /\ OnGithub(s.signer)
    /\ Under(s.signer.buildSigner, s.signer.source \o workflows)
    /\ Under(s.signer.san, s.signer.source \o workflows)

DetectKind(s) ==
    IF isDHI(s) THEN "hardened"
    ELSE IF isGithubBuilder(s) THEN "builder"
    ELSE IF isGithubSelfSigned(s) THEN "githubRepo"
    ELSE IF isSelfSigned(s) THEN "selfSigned"
    ELSE "untrusted"

-----------------------------------------------------------------------------
(* What the command says of it. *)

\* The kinds that Name describes by what the certificate says.
NamedBySigner == {"builder", "githubRepo", "selfSigned"}

\* The branch or tag after refs/heads/ or refs/tags/.
RefName(ref) ==
    IF Under(ref, <<"refs", "heads">>) \/ Under(ref, <<"refs", "tags">>)
      THEN SubSeq(ref, 3, Len(ref)) ELSE <<>>

Name(s) ==
    CASE s.kind = "hardened"   -> <<s.kind, s.reference>>
      [] s.kind = "builder"    -> <<s.kind, Under(s.signer.buildSigner, githubBuilderURIExperimental),
                                    Tail(s.signer.source), RefName(s.signer.ref)>>
      [] s.kind = "githubRepo" -> <<s.kind, Tail(s.signer.source)>>
      [] s.kind = "selfSigned" -> <<s.kind, s.signer.runner = "github-hosted",
                                    IF s.signer.issuer \in {"google", "githubLogin"}
                                      THEN <<s.signer.issuer, s.signer.san>> ELSE <<>> >>
      [] OTHER                 -> <<s.kind>>

\* section if there is something to say.
If(cond, section) == IF cond THEN {section} ELSE {}

Sections(s) ==
    If(s.isDHI, "dhi") \cup If(s.signer # None, "signer") \cup If(s.reference # "", "reference")
    \cup If(s.timestamps # {}, "timestamps")

\* The detailed format; LastUpdated is printed under the warning.
Format(s) ==
    [name |-> Name(s),
     sections |-> Sections(s) \cup If(s.root.error # "", "error")
                  \cup If(s.root.error # "" /\ s.root.lastUpdated # None, "lastUpdated")]

\* The JSON of a SignatureInfo: empty fields are left out.
Encode(s) ==
    [name |-> <<s.kind>>,
     sections |-> Sections(s) \cup If(s.root.error # "", "error")
                  \cup If(s.root.lastUpdated # None, "lastUpdated")]
=============================================================================
