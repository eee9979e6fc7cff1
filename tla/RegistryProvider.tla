-------------------------- MODULE RegistryProvider --------------------------
(***************************************************************************)
(* How the command reads from registries: cmd/policy-helper/utils.go with  *)
(* runImageCmd of main.go, the context mark of image/dhi.go, and ReadBlob  *)
(* of image/resolve.go with containerd's content.ReadBlob.                 *)
(*                                                                         *)
(* VerifyImage makes its requests one after the other.  The attestations   *)
(* and signatures of a Docker Hardened Image on Docker Hub are in the      *)
(* Scout registry; a provider for it is made when a request first needs    *)
(* it.  A blob is read in as many pieces as the connection gives, and a    *)
(* reader may be used again at another offset.                             *)
(***************************************************************************)
EXTENDS Integers, FiniteSetsExt

CONSTANTS
    Domains,     \* the registries that images come from, "hub" is docker.io
    BlobLen,     \* the length of every blob
    MaxUses,     \* bound: how often a reader is used
    None

ASSUME BlobLenAssumption == BlobLen \in Nat \ {0}
ASSUME MaxUsesAssumption == MaxUses \in Nat \ {0}

VARIABLES
    domain,     \* where the image reference points to
    scout,      \* dhiReferrersFetcher: "scout", or None
    locked,     \* dhiInitMutex
    pc,         \* where the request is
    req,        \* what it asks for
    from,       \* the registry that is asked
    rd,         \* the state of readerAt, and of the ReadAt that is under way
    result,     \* what the request returned
    fault,      \* history: something failed or was not as it should be
    uses        \* history: how often ReadAt was called

vars == <<domain, scout, locked, pc, req, from, rd, result, fault, uses>>

\* What VerifyImage asks for: the descriptor comes from the reference, from the
\* index, from a list of referrers, which sets ArtifactType, or from a manifest.
\* The context is marked once the index turned out to be a hardened image's.
Wanted ==
    [object : {"index"}, dhi : {FALSE}, artifactType : {FALSE}, mediaType : {"index"}]
    \cup [object : {"referrers"}, dhi : BOOLEAN, artifactType : {FALSE}, mediaType : {"manifest"}]
    \cup [object : {"attestation"}, dhi : {TRUE}, artifactType : {TRUE}, mediaType : {"manifest"}]
    \cup [object : {"attestation"}, dhi : {FALSE}, artifactType : {FALSE}, mediaType : {"manifest"}]
    \cup [object : {"signature"}, dhi : BOOLEAN, artifactType : {TRUE}, mediaType : {"manifest"}]
    \cup [object : {"layer"}, dhi : BOOLEAN, artifactType : {FALSE}, mediaType : {"bundle", "simple"}]

\* Where that is: what belongs to a hardened image of Docker Hub is at Scout.
Home(w) == IF domain = "hub" /\ w.dhi THEN "scout" ELSE domain

\* A fresh reader: offset is what readerAt believes, pos where the stream is, of
\* length len; the buffer has room for want bytes from off on, got are there, and
\* they are the stream's from position start.
Reader(size, len, seeks) ==
    [len |-> len, seeks |-> seeks, offset |-> 0, pos |-> 0,
     off |-> 0, want |-> size, got |-> 0, start |-> 0]

Sizes == 0 .. BlobLen + 1

\* Type correctness: in particular ReadAt never counts more than was asked for.
TypeOK ==
    /\ domain \in Domains
    /\ scout \in {None, "scout"}
    /\ locked \in BOOLEAN
    /\ pc \in {"start", "resolve", "failed", "lock", "init", "ask", "seek", "read", "done"}
    /\ req \in Wanted \cup {None}
    /\ from \in {"scout", None} \cup Domains
    /\ rd = None \/ (rd.got \in 0 .. rd.want /\ rd.pos \in 0 .. rd.len /\ rd.offset \in Nat)
    /\ result \in {None, "list", "blob", "nothing", "error"}
    /\ fault \in BOOLEAN
    /\ uses \in 0 .. MaxUses

Init ==
    /\ domain \in Domains
    /\ scout = None
    /\ locked = FALSE
    /\ pc = "start"
    /\ req = None
    /\ from = None
    /\ rd = None
    /\ result = None
    /\ fault = FALSE
    /\ uses = 0

Return(r, failed) ==
    /\ pc' = "done"
    /\ result' = r
    /\ fault' = (fault \/ failed)

-----------------------------------------------------------------------------
(* runImageCmd and providerFromRef *)

\* The reference and the platform are parsed.
RunImageCmd ==
    /\ pc = "start"
    /\ pc' \in {"resolve", "failed"}
    /\ UNCHANGED <<domain, scout, locked, req, from, rd, result, fault, uses>>

\* The reference is resolved and a fetcher with referrers made; or one of these
\* fails, and the command with it.
ProviderFromRef ==
    /\ pc = "resolve"
    /\ pc' \in {"done", "failed"}
    /\ UNCHANGED <<domain, scout, locked, req, from, rd, result, fault, uses>>

dhiAllowed == domain = "hub"

\* Bug: the artifact type of the descriptor is not looked at.
AtScoutByMediaType(w) ==
    dhiAllowed /\ w.dhi /\ (w.object = "referrers" \/ w.mediaType \in {"bundle", "simple"})
\* ReaderAt and FetchReferrers: does the provider for Scout answer?
AtScout(w) ==
    /\ dhiAllowed /\ w.dhi
    /\ w.object = "referrers" \/ w.artifactType \/ w.mediaType \in {"bundle", "simple"}

\* The next request; the one before has returned.
Request ==
    /\ pc = "done"
    /\ \E w \in Wanted :
          /\ req' = w
          /\ pc' = IF AtScout(w) THEN "lock" ELSE "ask"
          /\ from' = IF AtScout(w) THEN None ELSE domain
    /\ rd' = None
    /\ result' = None
    /\ fault' = FALSE
    /\ uses' = 0
    /\ UNCHANGED <<domain, scout, locked>>

-----------------------------------------------------------------------------
(* dhiReferrersProvider *)

Lock ==
    /\ pc = "lock"
    /\ ~locked
    /\ locked' = TRUE
    /\ pc' = "init"
    /\ UNCHANGED <<domain, scout, req, from, rd, result, fault, uses>>

\* The provider for Scout is there, or is made now.
HaveScout ==
    /\ pc = "init"
    /\ scout' = "scout"
    /\ locked' = FALSE
    /\ from' = scout'
    /\ pc' = "ask"
    /\ UNCHANGED <<domain, req, rd, result, fault, uses>>

\* There is no fetcher, or it knows no referrers; the next request tries again.
FailScout ==
    /\ pc = "init"
    /\ scout = None
    /\ locked' = FALSE
    /\ Return("error", TRUE)
    /\ UNCHANGED <<domain, scout, req, from, rd, uses>>

-----------------------------------------------------------------------------
(* The registry *)

\* The list of referrers; a registry that is not its home has none to give.
AnswerReferrers ==
    /\ pc = "ask" /\ req.object = "referrers"
    /\ Return(IF from = Home(req) THEN "list" ELSE "error", FALSE)
    /\ UNCHANGED <<domain, scout, locked, req, from, rd, uses>>

\* The response to Fetch.  Its length, or the size that the descriptor names, may
\* be wrong.
AnswerFetch ==
    /\ pc = "ask" /\ req.object # "referrers"
    /\ from = Home(req)
    /\ \E size \in Sizes, len \in Sizes, seeks \in BOOLEAN :
          /\ rd' = Reader(size, len, seeks)
          /\ fault' = (size # BlobLen \/ len < BlobLen)
    /\ uses' = 1
    /\ pc' = "seek"
    /\ UNCHANGED <<domain, scout, locked, req, from, result>>

\* An error; it is nobody's fault if what was asked for is elsewhere.
AnswerError ==
    /\ pc = "ask"
    /\ Return("error", from = Home(req))
    /\ UNCHANGED <<domain, scout, locked, req, from, rd, uses>>

-----------------------------------------------------------------------------
(* ReadAt and ReadBlob *)

\* What ReadBlob returns for a buffer of this length that could be filled: the
\* blob, or nil and no error if the digest is another one.
Blob(r) == IF r.want = BlobLen THEN "blob" ELSE "nothing"

\* ReadAt ends: for ReadBlob at its first use, for another reader after that.
EndRead(r, err, failed) ==
    /\ rd' = r
    /\ Return(IF uses > 1 THEN result ELSE IF err THEN "error" ELSE Blob(r), failed /\ uses = 1)
    /\ UNCHANGED <<domain, scout, locked, req, from, uses>>

\* Bug: the stream is moved from where it is, and not from its start.
MovedFromCurrent(r) ==
    IF r.offset = r.off THEN [r EXCEPT !.start = r.pos]
    ELSE [r EXCEPT !.offset = r.off, !.pos = r.pos + r.off, !.start = r.pos + r.off]
\* A stream that stands elsewhere is moved.
Moved(r) ==
    IF r.offset = r.off THEN [r EXCEPT !.start = r.pos]
    ELSE [r EXCEPT !.offset = r.off, !.pos = r.off, !.start = r.off]

Seek ==
    /\ pc = "seek"
    /\ rd.offset # rd.off => rd.seeks
    /\ rd' = Moved(rd)
    /\ pc' = "read"
    /\ UNCHANGED <<domain, scout, locked, req, from, result, fault, uses>>

\* It cannot be moved, or moving it fails.
SeekError ==
    /\ pc = "seek"
    /\ rd.offset # rd.off
    /\ EndRead(rd, TRUE, TRUE)

\* Bug: the offset is not advanced by a read that fails.
AdvancedUnlessError(r, n, err) ==
    [r EXCEPT !.pos = @ + n, !.got = @ + n, !.offset = IF err THEN @ ELSE @ + n]
\* n more bytes, with or without an error.
Advanced(r, n, err) == [r EXCEPT !.pos = @ + n, !.got = @ + n, !.offset = @ + n]

\* The rest of the buffer, that the next Read may fill.
Room(r) == r.want - r.got
\* What a Read can give at most.
AtMost(r) == Min({Room(r), r.len - r.pos})

\* Some bytes, fewer than would fit perhaps.
Read ==
    /\ pc = "read"
    /\ rd.got < rd.want
    /\ \E n \in 1 .. AtMost(rd) : rd' = Advanced(rd, n, FALSE)
    /\ UNCHANGED <<domain, scout, locked, pc, req, from, result, fault, uses>>

\* The buffer is full.
ReadFull ==
    /\ pc = "read"
    /\ rd.got = rd.want
    /\ EndRead(rd, FALSE, FALSE)

\* Bug: the loop goes on after EOF.
EOFIgnored(r, short) ==
    rd' = r /\ UNCHANGED <<domain, scout, locked, pc, req, from, result, fault, uses>>
\* EOF is an error unless the buffer is full.
EOF(r, short) == EndRead(r, short, FALSE)

\* The stream ends, at once or with the last bytes.
ReadEOF ==
    /\ pc = "read"
    /\ rd.got < rd.want
    /\ \E n \in 0 .. AtMost(rd) :
          /\ rd.pos + n = rd.len
          /\ EOF(Advanced(rd, n, n # Room(rd)), n # Room(rd))

\* The connection breaks, perhaps after some bytes.
ReadError ==
    /\ pc = "read"
    /\ rd.got < rd.want
    /\ \E n \in 0 .. AtMost(rd) : EndRead(Advanced(rd, n, TRUE), TRUE, TRUE)

\* Another ReadAt of the same reader.
ReadAgain ==
    /\ pc = "done" /\ rd # None
    /\ uses < MaxUses
    /\ uses' = uses + 1
    /\ \E off \in 0 .. rd.len, want \in 0 .. BlobLen :
          rd' = [rd EXCEPT !.off = off, !.want = want, !.got = 0]
    /\ pc' = "seek"
    /\ UNCHANGED <<domain, scout, locked, req, from, result, fault>>

\* What goes on by itself, as long as the registry answers and the stream flows.
Step ==
    \/ Lock \/ HaveScout \/ AnswerReferrers \/ AnswerFetch \/ AnswerError
    \/ Seek \/ SeekError \/ Read \/ ReadFull \/ ReadEOF

Next ==
    \/ RunImageCmd \/ ProviderFromRef \/ Request \/ Step \/ ReadAgain
    \/ FailScout \/ ReadError
    \/ pc = "failed" /\ UNCHANGED vars

Spec == Init /\ [][Next]_vars /\ WF_vars(Step)

-----------------------------------------------------------------------------
(* What must hold. *)

\* A request meets what it asks for if nothing fails while it is made: it goes to
\* the registry that has it, in whatever pieces the blob comes and however the
\* stream ends, and no failure of an earlier request, in making the provider for
\* Scout for instance, is held against it.
HonestRequestServed ==
    pc = "done" /\ req # None /\ ~fault => result \in {"list", "blob"}

\* The bytes that ReadAt returns are the ones at the offset it was asked for, also
\* after a read that broke off: readerAt knows where its stream is.
ReadsWhatWasAsked ==
    pc \in {"read", "done"} /\ rd # None /\ rd.got > 0 => rd.start = rd.off

\* Every request comes to its end, also the one after a request that failed to
\* make the provider for Scout: the mutex is free, and the loop of ReadAt ends.
RequestReturns == pc \in {"lock", "ask", "seek"} ~> pc = "done"
=============================================================================
