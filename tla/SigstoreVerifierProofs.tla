----------------------- MODULE SigstoreVerifierProofs -----------------------
(***************************************************************************)
(* What a verdict of Verifier.Verify rests on, for every signed entity,    *)
(* every trusted root and all options, and for which entities there is     *)
(* certainly one: the lemmas that the proofs about VerifyImage and         *)
(* VerifyArtifact share.                                                   *)
(***************************************************************************)
EXTENDS SigstoreVerifier, FiniteSetTheorems, WellFoundedInduction, TLAPS

\* An entry that is considered and fits was sealed by its log, with a promise or
\* with a proof, and if it has a promise it is the one for these numbers.
LEMMA EntrySealed ==
    ASSUME NEW e, NEW tm, NEW i \in Considered(e), EntryOK(e, tm, e.entries[i])
    PROVE  LET en == e.entries[i] IN
           /\ i \in DOMAIN e.entries
           /\ en.log \in DOMAIN RekorLogs
           /\ en.body.sig = e.sig
           /\ en.set # None => en.set = Promise(en)
           /\ en.set = Promise(en) \/ en.proof = Proof(en)
<1> DEFINE en == e.entries[i]
<1>1. i \in DOMAIN e.entries /\ en.log \in DOMAIN RekorLogs /\ (en.set # None => VerifySET(en))
  BY DEF Considered, Skipped
<1>2. en.body = [sig |-> e.sig, key |-> KeyOf(e, tm), doc |-> e.doc]
        /\ (en.set # None \/ en.proof # None) /\ (en.proof # None => en.proof = Proof(en))
  BY DEF EntryOK
<1>3. en.body.sig = e.sig
  BY <1>2
<1>4. en.set # None => en.set = Promise(en)
  BY <1>1 DEF VerifySET
<1> QED
  BY <1>1, <1>2, <1>3, <1>4

\* The logs that are counted sealed this very signature: no entry for another one,
\* and no entry that only names a log, counts for the threshold.
THEOREM CountedLogsSealed ==
    ASSUME NEW e, NEW tm, NEW n, VerifyTlogEntry(e, tm, n)
    PROVE  VerifiedLogs(e) \subseteq SealingLogs(e) /\ Cardinality(VerifiedLogs(e)) >= n
<1>1. ASSUME NEW i \in Considered(e) PROVE e.entries[i].log \in SealingLogs(e)
  <2>1. EntryOK(e, tm, e.entries[i])
    BY DEF VerifyTlogEntry
  <2> QED
    BY <2>1, EntrySealed DEF SealingLogs
<1> QED
  BY <1>1 DEF VerifiedLogs, VerifyTlogEntry

\* Every time that a verdict reports was signed by a log or a TSA of the root, for
\* this very signature.
THEOREM ReportedTimesSigned ==
    ASSUME NEW e, NEW tm, NEW o, NEW digest, Verified(e, tm, o, digest)
    PROVE  \A t \in VerifiedTimestamps(e, o) : TimeSigned(e, t)
<1>1. ASSUME o.threshold > 0, NEW t \in LogTimes(e) PROVE TimeSigned(e, t)
  <2> DEFINE promised == {i \in Considered(e) : e.entries[i].set # None}
             by == [i \in promised |-> e.entries[i].log]
  <2>1. PICK i \in FirstOfEach(by) :
          t = [type |-> "Tlog", uri |-> by[i], time |-> e.entries[i].time]
    BY <1>1 DEF LogTimes
  <2>2. i \in promised
    BY <2>1 DEF FirstOfEach
  <2>3. by[i] = e.entries[i].log
    BY <2>2
  <2>4. EntryOK(e, tm, e.entries[i])
    BY <1>1, <2>2 DEF Verified, VerifyTlogEntry
  <2>5. /\ i \in DOMAIN e.entries /\ e.entries[i].log \in DOMAIN RekorLogs
        /\ e.entries[i].body.sig = e.sig /\ e.entries[i].set = Promise(e.entries[i])
    BY <2>2, <2>4, EntrySealed
  <2>6. t.type = "Tlog" /\ t.uri = e.entries[i].log /\ t.time = e.entries[i].time
    BY <2>1, <2>3
  <2> QED
    BY <2>5, <2>6 DEF TimeSigned
<1>2. ASSUME NEW t \in VerifySignedTimestamp(e) PROVE TimeSigned(e, t)
  <2> DEFINE verified == {i \in DOMAIN e.stamps :
                 e.stamps[i].by \in TimestampingAuthorities /\ e.stamps[i].over = e.sig}
             by == [i \in verified |-> e.stamps[i].by]
  <2>1. PICK i \in FirstOfEach(by) :
          t = [type |-> "TimestampAuthority", uri |-> by[i], time |-> e.stamps[i].time]
    BY <1>2 DEF VerifySignedTimestamp
  <2>2. i \in verified
    BY <2>1 DEF FirstOfEach
  <2>3. by[i] = e.stamps[i].by
    BY <2>2
  <2>4. t.type = "TimestampAuthority" /\ t.uri = e.stamps[i].by /\ t.time = e.stamps[i].time
    BY <2>1, <2>3
  <2> QED
    BY <2>2, <2>4 DEF TimeSigned
<1> QED
  BY <1>1, <1>2 DEF VerifiedTimestamps

\* Without a log threshold the times come from TSAs alone.
LEMMA TimesWithoutLog ==
    ASSUME NEW e, NEW o, ~(o.threshold > 0), NEW t \in VerifiedTimestamps(e, o)
    PROVE  t.type = "TimestampAuthority"
<1>1. t \in VerifySignedTimestamp(e)
  BY DEF VerifiedTimestamps
<1>2. \E u, v : t = [type |-> "TimestampAuthority", uri |-> u, time |-> v]
  BY <1>1 DEF VerifySignedTimestamp
<1> QED
  BY <1>2

\* What is verified with Sigstore's root and the options of verifier.go carries a
\* certificate of Fulcio that was valid at every time reported, and there is one.
THEOREM FulcioVerdict ==
    ASSUME NEW e, NEW o, NEW digest, Verified(e, FulcioRoot, o, digest),
           o.observer = TRUE, o.sct = TRUE
    PROVE  CertificateTrusted(e, VerifiedTimestamps(e, o))
<1>1. VerifiedTimestamps(e, o) # {} /\ SignerOK(e, FulcioRoot, o) /\ SignatureOK(e, FulcioRoot, digest)
  BY DEF Verified
<1>2. /\ e.cert # None /\ e.cert.ca = "fulcio" /\ e.cert.sct
      /\ \A t \in VerifiedTimestamps(e, o) : t.time \in e.cert.valid
  BY <1>1 DEF SignerOK, FulcioRoot
<1>3. e.sig = [by |-> e.cert.key, over |-> e.doc]
  BY <1>1, <1>2 DEF SignatureOK
<1>4. e.sig.by = e.cert.key
  BY <1>3
<1> QED
  BY <1>1, <1>2, <1>4 DEF CertificateTrusted

\* What is verified with the root of roots/dhi was signed by the DHI key, without a
\* certificate, and at times at which that key was valid.
THEOREM DHIVerdict ==
    ASSUME NEW e, NEW o, NEW digest, Verified(e, DHIRoot, o, digest)
    PROVE  /\ e.cert = None
           /\ e.sig.by = "dhi"
           /\ \A t \in VerifiedTimestamps(e, o) : t.time >= DHIEpoch
<1>1. SignerOK(e, DHIRoot, o) /\ SignatureOK(e, DHIRoot, digest)
  BY DEF Verified
<1>2. e.cert = None
  BY <1>1 DEF SignerOK, DHIRoot
<1>3. e.sig = [by |-> "dhi", over |-> e.doc]
  BY <1>1, <1>2 DEF SignatureOK, DHIRoot
<1>4. e.sig.by = "dhi"
  BY <1>3
<1>5. ASSUME NEW t \in VerifiedTimestamps(e, o) PROVE t.time >= DHIEpoch
  BY <1>1, <1>2 DEF SignerOK, ValidAtTime
<1> QED
  BY <1>2, <1>4, <1>5

\* The signature of a verified entity is over the digest that was asked about.
LEMMA SignatureOverDigest ==
    ASSUME NEW e, NEW tm, NEW o, NEW digest, Verified(e, tm, o, digest)
    PROVE  e.doc.subject = digest /\ e.sig.over = e.doc
<1>1. e.doc.subject = digest
        /\ e.sig = [by |-> IF e.cert # None THEN e.cert.key ELSE tm.key, over |-> e.doc]
  BY DEF Verified, SignatureOK
<1> QED
  BY <1>1

-----------------------------------------------------------------------------
(* Entities that verify. *)

\* A set of indices that is not empty has a least one.
LEMMA LeastIndex ==
    ASSUME NEW T, T \subseteq Nat, T # {}
    PROVE  \E m \in T : \A k \in T : m <= k
<1> DEFINE R == OpToRel(<, Nat)
<1>1. IsWellFoundedOn(R, Nat)
  BY NatLessThanWellFounded
<1>2. \A x \in Nat, y \in Nat : <<y, x>> \in R <=> y < x
  BY DEF OpToRel
<1> HIDE DEF R
<1>3. PICK m \in T : \A k \in T : <<k, m>> \notin R
  BY <1>1, WFMin, Zenon
<1>4. \A k \in T : k \in Nat /\ m \in Nat /\ ~(k < m)
  BY <1>2, <1>3, Zenon
<1>5. \A k \in T : m <= k
  BY <1>4
<1> QED
  BY <1>5

\* Where there are values there is a first index with one of them.
LEMMA FirstOfEachExists ==
    ASSUME NEW by, DOMAIN by \subseteq Nat, DOMAIN by # {}
    PROVE  FirstOfEach(by) # {}
<1>1. PICK m \in DOMAIN by : \A k \in DOMAIN by : m <= k
  BY LeastIndex
<1> QED
  BY <1>1 DEF FirstOfEach

\* None of the entries is skipped if they are all as they should be, and all fit.
LEMMA ProperEntries ==
    ASSUME NEW e, NEW tm, ProperlyLogged(e, tm)
    PROVE  /\ Considered(e) = DOMAIN e.entries
           /\ VerifiedLogs(e) = {e.entries[i].log : i \in DOMAIN e.entries}
           /\ \A i \in DOMAIN e.entries : EntryOK(e, tm, e.entries[i])
           /\ \A i, j \in DOMAIN e.entries :
                 i # j => <<e.entries[i].log, e.entries[i].index>> # <<e.entries[j].log, e.entries[j].index>>
<1>1. ASSUME NEW i \in DOMAIN e.entries
      PROVE  ~Skipped(e.entries[i]) /\ EntryOK(e, tm, e.entries[i])
  <2> DEFINE en == e.entries[i]
  <2>1. /\ en.log \in DOMAIN RekorLogs
        /\ ValidAtTime(e, tm, en.time) \/ (en.time = 0 /\ en.set = None)
        /\ en.set \in {None, Promise(en)} /\ en.proof \in {None, Proof(en)} /\ (en.set # None \/ en.proof # None)
        /\ en.set # None => en.time \in RekorLogs[en.log]
        /\ en.body = [sig |-> e.sig, key |-> KeyOf(e, tm), doc |-> e.doc]
    BY DEF ProperlyLogged
  <2> HIDE DEF en
  <2>2. ~Skipped(en)
    BY <2>1 DEF Skipped, VerifySET
  <2>3. EntryOK(e, tm, en)
    BY <2>1 DEF EntryOK
  <2> QED
    BY <2>2, <2>3 DEF en
<1>2. Considered(e) = DOMAIN e.entries
  BY <1>1 DEF Considered
<1>3. \A i, j \in DOMAIN e.entries :
        e.entries[i].log = e.entries[j].log /\ e.entries[i].index = e.entries[j].index => i = j
  BY DEF ProperlyLogged
<1> QED
  BY <1>1, <1>2, <1>3 DEF VerifiedLogs

\* A time that is reported is one of an entry with a promise, if logs count, or of a
\* TSA's answer.
LEMMA WhereTimesAre ==
    ASSUME NEW e, NEW o, NEW t \in VerifiedTimestamps(e, o)
    PROVE  \/ /\ o.threshold > 0
              /\ \E i \in DOMAIN e.entries : e.entries[i].set # None /\ t.time = e.entries[i].time
           \/ \E i \in DOMAIN e.stamps : t.time = e.stamps[i].time
<1>1. CASE o.threshold > 0 /\ t \in LogTimes(e)
  <2>1. PICK i \in Considered(e) :
          e.entries[i].set # None /\ \E u : t = [type |-> "Tlog", uri |-> u, time |-> e.entries[i].time]
    BY <1>1 DEF LogTimes, FirstOfEach
  <2>2. i \in DOMAIN e.entries /\ t.time = e.entries[i].time
    BY <2>1 DEF Considered
  <2> QED
    BY <1>1, <2>1, <2>2
<1>2. CASE t \in VerifySignedTimestamp(e)
  <2>1. PICK i \in DOMAIN e.stamps :
          \E u : t = [type |-> "TimestampAuthority", uri |-> u, time |-> e.stamps[i].time]
    BY <1>2 DEF VerifySignedTimestamp, FirstOfEach
  <2>2. t.time = e.stamps[i].time
    BY <2>1
  <2> QED
    BY <2>2
<1> QED
  BY <1>1, <1>2 DEF VerifiedTimestamps

\* There is a time to report, from a TSA or, if logs count, from a promise.
LEMMA SomeTime ==
    ASSUME NEW e, NEW tm, NEW o, o.observer = TRUE,
           TimeStamped(e) \/ (ProperlyLogged(e, tm) /\ o.threshold > 0),
           DOMAIN e.entries \subseteq Nat, DOMAIN e.stamps \subseteq Nat
    PROVE  VerifiedTimestamps(e, o) # {}
<1>1. CASE /\ ProperlyLogged(e, tm) /\ o.threshold > 0
           /\ \E i \in DOMAIN e.entries : e.entries[i].set # None
  <2> DEFINE promised == {i \in Considered(e) : e.entries[i].set # None}
             by == [i \in promised |-> e.entries[i].log]
  <2>1. promised # {} /\ promised \subseteq Nat
    BY <1>1, ProperEntries
  <2>2. FirstOfEach(by) # {}
    BY <2>1, FirstOfEachExists
  <2>3. LogTimes(e) # {}
    BY <2>2 DEF LogTimes
  <2> QED
    BY <1>1, <2>3 DEF VerifiedTimestamps
<1>2. CASE TimeStamped(e)
  <2> DEFINE verified == {i \in DOMAIN e.stamps :
                 e.stamps[i].by \in TimestampingAuthorities /\ e.stamps[i].over = e.sig}
             by == [i \in verified |-> e.stamps[i].by]
  <2>1. verified # {} /\ verified \subseteq Nat
    BY <1>2 DEF TimeStamped
  <2>2. FirstOfEach(by) # {}
    BY <2>1, FirstOfEachExists
  <2>3. VerifySignedTimestamp(e) # {}
    BY <2>2 DEF VerifySignedTimestamp
  <2> QED
    BY <2>3 DEF VerifiedTimestamps
<1> QED
  BY <1>1, <1>2 DEF ProperlyLogged

\* An entity that is properly signed for the digest is verified: with the log, at any
\* threshold that its logs reach, if it is properly logged too; without the log if a
\* TSA vouches for a time; without the log and without times if the root has a key.
\* Nothing that is in order, and within the library's limits on the numbers of
\* entries and of timestamps, is refused.
THEOREM ProperVerified ==
    ASSUME NEW e, NEW tm, NEW o, NEW digest, ProperlySigned(e, tm, digest),
           o.sct = (tm.key = None), o.identity = (tm.key = None),
           DOMAIN e.entries \subseteq Nat, DOMAIN e.stamps \subseteq Nat,
           \/ /\ ProperlyLogged(e, tm) /\ o.observer = TRUE
              /\ o.threshold \in Nat /\ o.threshold > 0
              /\ Cardinality({e.entries[i].log : i \in DOMAIN e.entries}) >= o.threshold
           \/ StampsFit(e, tm) /\ TimeStamped(e) /\ o.threshold = 0 /\ o.observer = TRUE
           \/ tm.key # None /\ o.threshold = 0 /\ o.observer = FALSE
    PROVE  Verified(e, tm, o, digest)
<1>1. SignatureOK(e, tm, digest)
  <2>1. e.cert = None => KeyOf(e, tm).key = tm.key
    BY DEF KeyOf
  <2> QED
    BY <2>1 DEF ProperlySigned, SignatureOK, KeyOf
<1>2. ASSUME o.observer = TRUE, \A t \in VerifiedTimestamps(e, o) : ValidAtTime(e, tm, t.time)
      PROVE  SignerOK(e, tm, o)
  BY <1>2 DEF SignerOK, ProperlySigned, ValidAtTime
<1>3. CASE /\ ProperlyLogged(e, tm) /\ o.observer = TRUE
           /\ o.threshold \in Nat /\ o.threshold > 0
           /\ Cardinality({e.entries[i].log : i \in DOMAIN e.entries}) >= o.threshold
  <2>1. VerifyTlogEntry(e, tm, o.threshold)
    BY <1>3, ProperEntries DEF VerifyTlogEntry, ProperlyLogged
  <2>2. VerifiedTimestamps(e, o) # {}
    BY <1>3, SomeTime
  <2>3. /\ \A i \in DOMAIN e.entries : e.entries[i].set # None => ValidAtTime(e, tm, e.entries[i].time)
        /\ \A i \in DOMAIN e.stamps : ValidAtTime(e, tm, e.stamps[i].time)
    BY <1>3 DEF ProperlyLogged, StampsFit
  <2>4. \A t \in VerifiedTimestamps(e, o) : ValidAtTime(e, tm, t.time)
    BY <2>3, WhereTimesAre
  <2>5. TimestampsAllowed(e)
    BY <1>3 DEF ProperlyLogged, StampsFit, TimestampsAllowed
  <2> QED
    BY <1>1, <1>2, <1>3, <2>1, <2>2, <2>4, <2>5 DEF Verified
<1>4. CASE StampsFit(e, tm) /\ TimeStamped(e) /\ o.threshold = 0 /\ o.observer = TRUE
  <2>1. ~(o.threshold > 0)
    BY <1>4
  <2>2. VerifiedTimestamps(e, o) # {}
    BY <1>4, SomeTime, Zenon
  <2>3. \A t \in VerifiedTimestamps(e, o) : ValidAtTime(e, tm, t.time)
    BY <1>4, <2>1, WhereTimesAre DEF StampsFit
  <2>4. TimestampsAllowed(e)
    BY <1>4 DEF StampsFit, TimestampsAllowed
  <2> QED
    BY <1>1, <1>2, <1>4, <2>1, <2>2, <2>3, <2>4 DEF Verified
<1>5. CASE tm.key # None /\ o.threshold = 0 /\ o.observer = FALSE
  <2>1. VerifiedTimestamps(e, o) = {} /\ ~(o.threshold > 0)
    BY <1>5 DEF VerifiedTimestamps
  <2>2. SignerOK(e, tm, o)
    BY <1>5, <2>1 DEF SignerOK, ProperlySigned
  <2> QED
    BY <1>1, <1>5, <2>1, <2>2 DEF Verified
<1> QED
  BY <1>3, <1>4, <1>5
=============================================================================
