-------------------------- MODULE SigstoreVerifier --------------------------
(***************************************************************************)
(* sigstore-go's bundle loading and Verifier.Verify, as far as the options *)
(* that verifier.go gives them: the part that VerifyImage and              *)
(* VerifyArtifact share.  There is no state here, only verdicts.           *)
(*                                                                         *)
(* A signature is [by |-> key, over |-> doc], and whoever has it could not *)
(* have made it without the key.  A document is [subject |-> digest,       *)
(* predicate |-> type]; a message signature is one over a document without *)
(* predicate, an envelope one with.  The signed entity is                  *)
(*   [version, doc, sig, cert, entries, stamps]                            *)
(* with a certificate or None, the sequence of its log entries (Unparsable *)
(* if reading them fails) and of its RFC 3161 timestamps.  A log entry is  *)
(*   [log, index, time, body, set, proof]                                  *)
(* where body is what was logged and set and proof are the log's promise   *)
(* and its proof of inclusion, or None.  Time 0 is Go's zero time.         *)
(***************************************************************************)
EXTENDS Integers, Sequences, FiniteSets

CONSTANTS
    RekorLogs,                \* log id -> the times at which its key is valid
    TimestampingAuthorities,
    DHIEpoch,                 \* the DHI key is valid from here on
    MaxAllowedTlogEntries,    \* the package limits
    MaxAllowedTimestamps,
    MaxExact,                 \* float64 has every integer up to here, and then every other
    None,
    Unparsable

\* No key is valid at Go's zero time.
ASSUME LogKeysHaveAStart == \A l \in DOMAIN RekorLogs : 0 \notin RekorLogs[l]
ASSUME LimitsAssumption == {MaxAllowedTlogEntries, MaxAllowedTimestamps, MaxExact} \subseteq Nat

\* The float64 of a number, for which JSON is the way in; ties go to even.  The gaps
\* of two stand for all the wider ones further up.
Float64(n) ==
    IF n \in -MaxExact .. MaxExact THEN n
    ELSE IF n % 4 = 3 THEN n + 1 ELSE 2 * (n \div 2)

-----------------------------------------------------------------------------
(* The trusted root of Sigstore, and the one of roots/dhi. *)

FulcioRoot == [cas |-> {"fulcio"}, key |-> None]
\* No certificate authorities, one key; the logs and the TSAs are Sigstore's.
DHIRoot == [cas |-> {}, key |-> "dhi"]

-----------------------------------------------------------------------------
(* Bundles *)

\* Not too many log entries, and before v0.2 a promise, from then on a proof, if
\* there are entries at all.
validate(b) ==
    /\ b.entries # Unparsable
    /\ Len(b.entries) <= MaxAllowedTlogEntries
    /\ b.entries # <<>> => \E i \in DOMAIN b.entries :
          IF b.version = "v0.1" THEN b.entries[i].set # None ELSE b.entries[i].proof # None

loadBundle(b) == IF b # Unparsable /\ validate(b) THEN b ELSE Unparsable

-----------------------------------------------------------------------------
(* The transparency log *)

\* What signs an entity, as the log compares it with an entry.
KeyOf(e, tm) == IF e.cert # None THEN e.cert ELSE [key |-> tm.key]

ValidAtTime(e, tm, t) ==
    IF e.cert # None THEN t \in e.cert.valid ELSE tm.key # None /\ t >= DHIEpoch

\* The entry as the log sealed it: canonical JSON has numbers as float64 holds them.
Promise(en) == [by |-> en.log, over |-> <<en.log, Float64(en.index), Float64(en.time), en.body>>]
Proof(en) == [by |-> en.log, over |-> en.body]

VerifySET(en) == en.set = Promise(en) /\ en.time \in RekorLogs[en.log]

\* Entries the trusted root cannot verify are skipped, not refused.
Skipped(en) == en.log \notin DOMAIN RekorLogs \/ (en.set # None /\ ~VerifySET(en))

Considered(e) == {i \in DOMAIN e.entries : ~Skipped(e.entries[i])}

\* An entry that is not skipped has to fit the entity.
EntryOK(e, tm, en) ==
    /\ en.set # None \/ en.proof # None
    /\ en.proof # None => en.proof = Proof(en)
    /\ en.body = [sig |-> e.sig, key |-> KeyOf(e, tm), doc |-> e.doc]
    /\ en.time # 0 => ValidAtTime(e, tm, en.time)

VerifiedLogs(e) == {e.entries[i].log : i \in Considered(e)}

VerifyTlogEntry(e, tm, threshold) ==
    /\ e.entries # Unparsable
    /\ Len(e.entries) <= MaxAllowedTlogEntries
    /\ \A i, j \in DOMAIN e.entries :
          i # j => <<e.entries[i].log, e.entries[i].index>> # <<e.entries[j].log, e.entries[j].index>>
    /\ \A i \in Considered(e) : EntryOK(e, tm, e.entries[i])
    /\ Cardinality(VerifiedLogs(e)) >= threshold

-----------------------------------------------------------------------------
(* Times *)

\* Of the indices for which by is defined the first with each of its values.
FirstOfEach(by) == {i \in DOMAIN by : \A j \in DOMAIN by : by[i] = by[j] => i <= j}

\* A time is trusted with the promise that signs it, one for each log.
LogTimes(e) ==
    LET promised == {i \in Considered(e) : e.entries[i].set # None}
        by == [i \in promised |-> e.entries[i].log]
    IN  {[type |-> "Tlog", uri |-> by[i], time |-> e.entries[i].time] : i \in FirstOfEach(by)}

\* More timestamps than allowed are an error, whatever they are worth.
TimestampsAllowed(e) == Len(e.stamps) <= MaxAllowedTimestamps

VerifySignedTimestamp(e) ==
    LET verified == {i \in DOMAIN e.stamps :
                        e.stamps[i].by \in TimestampingAuthorities /\ e.stamps[i].over = e.sig}
        by == [i \in verified |-> e.stamps[i].by]
    IN  {[type |-> "TimestampAuthority", uri |-> by[i], time |-> e.stamps[i].time] : i \in FirstOfEach(by)}

\* VerifyObserverTimestamps: log times count if the log was verified at all.
VerifiedTimestamps(e, o) ==
    IF ~o.observer THEN {}
    ELSE (IF o.threshold > 0 THEN LogTimes(e) ELSE {}) \cup VerifySignedTimestamp(e)

-----------------------------------------------------------------------------
(* Verify, under the options o:                                            *)
(*   threshold  WithTransparencyLog(threshold), 0 without it               *)
(*   observer   WithObserverTimestamps(1), else WithNoObserverTimestamps   *)
(*   sct        WithSignedCertificateTimestamps(1)                         *)
(*   identity   any certificate identity, else WithoutIdentitiesUnsafe     *)

SignerOK(e, tm, o) ==
    LET times == {t.time : t \in VerifiedTimestamps(e, o)} IN
    IF e.cert # None
      THEN /\ o.observer
           /\ e.cert.ca \in tm.cas
           /\ times \subseteq e.cert.valid
           /\ o.sct => e.cert.sct
      ELSE /\ \A t \in times : ValidAtTime(e, tm, t)
           /\ ~o.sct /\ ~o.identity
           /\ tm.key # None

SignatureOK(e, tm, digest) ==
    /\ e.doc.subject = digest
    /\ e.sig = [by |-> IF e.cert # None THEN e.cert.key ELSE tm.key, over |-> e.doc]

\* Verify without error.
Verified(e, tm, o, digest) ==
    /\ o.threshold > 0 => VerifyTlogEntry(e, tm, o.threshold)
    /\ o.observer => TimestampsAllowed(e) /\ VerifiedTimestamps(e, o) # {}
    /\ SignerOK(e, tm, o)
    /\ SignatureOK(e, tm, digest)

\* The parts of the result that are used.
VerificationResult(e, o) ==
    [certificate |-> IF e.cert # None THEN e.cert.summary ELSE None,
     timestamps  |-> VerifiedTimestamps(e, o),
     statement   |-> IF e.doc.predicate # None THEN e.doc ELSE None]

-----------------------------------------------------------------------------
(* What a verdict has to rest on, whatever way it was found: used to state  *)
(* the properties of VerifyImage and VerifyArtifact.                        *)

\* The logs of the root that sealed this very signature, with a promise about
\* the numbers that were read, as float64 holds them, or with a proof.
SealingLogs(e) ==
    {e.entries[i].log : i \in {j \in DOMAIN e.entries :
        LET en == e.entries[j] IN
        /\ en.log \in DOMAIN RekorLogs
        /\ en.body.sig = e.sig
        /\ en.set = Promise(en) \/ en.proof = Proof(en)}}

\* Time t was signed by a log of the root, in the promise for this signature, or by
\* one of its TSAs.
TimeSigned(e, t) ==
    \/ /\ t.type = "Tlog" /\ t.uri \in DOMAIN RekorLogs
       /\ \E i \in DOMAIN e.entries :
             LET en == e.entries[i] IN
             en.log = t.uri /\ en.set = Promise(en) /\ en.body.sig = e.sig /\ t.time = en.time
    \/ /\ t.type = "TimestampAuthority" /\ t.uri \in TimestampingAuthorities
       /\ \E i \in DOMAIN e.stamps :
             e.stamps[i].by = t.uri /\ e.stamps[i].over = e.sig /\ t.time = e.stamps[i].time

\* A Fulcio certificate with a certificate timestamp, valid at all these times.
CertificateTrusted(e, times) ==
    /\ e.cert # None
    /\ e.cert.ca = "fulcio" /\ e.cert.sct /\ e.sig.by = e.cert.key
    /\ times # {}
    /\ \A t \in times : t.time \in e.cert.valid

\* An entity that verifies, as a signer makes it: over the digest, with the key that
\* the root names or with a certificate of its authority.
ProperlySigned(e, tm, digest) ==
    /\ IF tm.key = None THEN e.cert # None /\ e.cert.ca \in tm.cas /\ e.cert.sct ELSE e.cert = None
    /\ e.doc.subject = digest
    /\ e.sig = [by |-> KeyOf(e, tm).key, over |-> e.doc]

\* A TSA of the root answered for the signature.
TimeStamped(e) ==
    \E i \in DOMAIN e.stamps : e.stamps[i].by \in TimestampingAuthorities /\ e.stamps[i].over = e.sig

\* Not too many timestamps, and the signer was valid at all their times.
StampsFit(e, tm) ==
    Len(e.stamps) <= MaxAllowedTimestamps /\ \A i \in DOMAIN e.stamps : ValidAtTime(e, tm, e.stamps[i].time)

\* Logs of the root sealed it, each entry once and not too many of them, and a log
\* or a TSA vouches for a time; the signer was valid at all times that are given.
\* An entry with a proof alone may have none.
ProperlyLogged(e, tm) ==
    /\ e.entries # Unparsable /\ DOMAIN e.entries # {}
    /\ Len(e.entries) <= MaxAllowedTlogEntries
    /\ \A i, j \in DOMAIN e.entries :
          e.entries[i].log = e.entries[j].log /\ e.entries[i].index = e.entries[j].index => i = j
    /\ \A i \in DOMAIN e.entries :
          LET en == e.entries[i] IN
          /\ en.log \in DOMAIN RekorLogs
          /\ ValidAtTime(e, tm, en.time) \/ (en.time = 0 /\ en.set = None)
          /\ en.set \in {None, Promise(en)} /\ en.proof \in {None, Proof(en)} /\ (en.set # None \/ en.proof # None)
          /\ en.set # None => en.time \in RekorLogs[en.log]
          /\ en.body = [sig |-> e.sig, key |-> KeyOf(e, tm), doc |-> e.doc]
    /\ StampsFit(e, tm)
    /\ (\E i \in DOMAIN e.entries : e.entries[i].set # None) \/ TimeStamped(e)
=============================================================================
