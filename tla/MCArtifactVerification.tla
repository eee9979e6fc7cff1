---------------------- MODULE MCArtifactVerification ----------------------
(* Instances of ArtifactVerification for TLC. *)
EXTENDS ArtifactVerification, MCSigstore

-----------------------------------------------------------------------------
(* Bundles *)

Doc(d, predicate) == [subject |-> d, predicate |-> predicate]

\* Entries in one, two or no logs: with promise and proof, with one of them, in a
\* log the root does not know, at another time, for another signature; one more than
\* allowed; an index that the promise has only rounded.
EntriesOf(e) ==
    LET body == EntityBody(e, KeyOf(e, FulcioRoot))
        en(log, i, t) == Entry(log, i, t, body)
        full(log, i) == Sealed(Proven(en(log, i, 3)))
        other == Entry("rekor2", 1, 3, Body([e.sig EXCEPT !.by = "other"], e.cert, e.doc))
    IN  {<<>>, <<full("rekor", 1)>>, <<Sealed(en("rekor", 1, 3))>>, <<Proven(en("rekor", 1, 3))>>,
         <<full("rekor", 1), full("rekor", 2)>>, <<full("rekor", 1), full("rekor", 1)>>,
         <<full("rekor", 1), full("rekor2", 1)>>, <<full("rekor", 1), full("unknown", 1)>>,
         <<full("rekor", 1), [full("rekor2", 1) EXCEPT !.time = 4]>>,
         <<full("rekor", 1), [full("rekor2", 1) EXCEPT !.proof = Proof(other)]>>,
         <<full("rekor", 1), en("rekor2", 1, 3)>>, <<full("rekor", 1), Proven(en("rekor2", 1, 0))>>,
         <<full("rekor", 1), Sealed(Proven(other))>>, <<Sealed(Proven(en("rekor", 1, 1)))>>,
         <<full("rekor", 1), full("rekor", 2), full("rekor2", 1)>>, <<[full("rekor", 8) EXCEPT !.index = 7]>>}

StampsOf(e) ==
    LET stamp(by, t) == [by |-> by, over |-> e.sig, time |-> t] IN
    {<<>>, <<stamp("tsa", 3)>>, <<stamp("other", 3)>>, <<stamp("tsa", 1)>>, <<stamp("tsa", 3), stamp("tsa", 1)>>,
     <<stamp("tsa", 3), stamp("tsa", 3), stamp("tsa", 3)>>}

Entities ==
    {Entity("leaf", GoodCert, doc) :
        doc \in {Doc("d", "slsa1"), Doc("d", "slsa02"), Doc("d", "other"), Doc("d", None), Doc("d2", "slsa1")}}
    \cup {Entity("leaf", c, Doc("d", "slsa1")) :
            c \in {Certificate("fulcio", FALSE, BuilderSummary), Certificate("other", TRUE, BuilderSummary), None}}
    \cup {Entity("other", GoodCert, Doc("d", "slsa1"))}
    \cup {[Entity("leaf", GoodCert, Doc("d", None)) EXCEPT !.sig.over = Doc("d2", None)]}

Bundles ==
    UNION {{[e EXCEPT !.version = v, !.entries = es, !.stamps = ss] :
              v \in {"v0.1", "v0.3"}, es \in EntriesOf(e), ss \in StampsOf(e)} : e \in Entities}
GoodEntity(c, predicate) ==
    LET e == Entity("leaf", Certificate("fulcio", TRUE, c), Doc("d", predicate)) IN
    WithEntries(e, <<Sealed(Proven(Entry("rekor", 1, 3, EntityBody(e, e.cert))))>>)
SomeBundles == {Unparsable, GoodEntity(BuilderSummary, None)}
               \cup {GoodEntity(c, "slsa1") : c \in Summaries}

-----------------------------------------------------------------------------
(* Calls *)

Options == [slsaNotRequired : BOOLEAN, tlogThreshold : {None, -1, 0, 1, 2}]
LibraryCalls ==
    {[by |-> "library", digest |-> "d", bundle |-> b, opts |-> o] : b \in Bundles, o \in Options}
    \cup {[by |-> "library", digest |-> d, bundle |-> b, opts |-> o] :
            d \in {Unparsable, NoColon}, b \in SomeBundles, o \in Options}

Answer(status, trailing, attestations) ==
    [status |-> status, trailing |-> trailing, attestations |-> attestations]
Answers ==
    {None, NoAnswer, Answer(404, FALSE, <<>>), Answer(500, FALSE, Unparsable), Answer(200, FALSE, Unparsable),
     Answer(200, FALSE, <<>>), Answer(200, FALSE, <<None>>)}
    \cup {Answer(200, t, <<b, None>>) : t \in BOOLEAN, b \in SomeBundles}

Command(args, stateDir, artifact, path, repo, json) ==
    [by |-> "command", args |-> args, stateDir |-> stateDir, artifact |-> artifact, bundlePath |-> path,
     repo |-> repo, json |-> json]
Commands ==
    {Command(args, dir, a, GoodEntity(BuilderSummary, "slsa1"), None, FALSE) :
        args \in {<<>>, <<"artifact">>, <<"other", "file">>, <<"artifact", "file">>}, dir \in {"", "dir"},
        a \in {"d", "d2", NoAnswer}}
    \cup {Command(<<"artifact", "file">>, "dir", "d", path, repo, json) :
            path \in {None, NoAnswer} \cup SomeBundles, repo \in Answers, json \in BOOLEAN}

AllCalls == LibraryCalls \cup Commands
=============================================================================
