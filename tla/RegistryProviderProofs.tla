----------------------- MODULE RegistryProviderProofs -----------------------
(***************************************************************************)
(* Proofs about RegistryProvider for every set of registries, every length *)
(* of a blob and any number of uses of a reader.                           *)
(***************************************************************************)
EXTENDS RegistryProvider, TLAPS

-----------------------------------------------------------------------------
(* The inductive invariant. *)

\* What readerAt and the ReadAt under way keep.
Readers ==
    [len : Nat, seeks : BOOLEAN, offset : Nat, pos : Nat,
     off : Nat, want : Nat, got : Nat, start : Nat]

\* There is a reader while a ReadAt is under way, and after one.
Open == pc \in {"seek", "read"} \/ (pc = "done" /\ rd # None)

\* readerAt knows where its stream is, and the stream does not stand past its end;
\* what is in the buffer was read from the offset asked for, without a gap.
ReaderInv ==
    /\ ~Open => rd = None
    /\ Open =>
          /\ rd \in Readers
          /\ rd.offset = rd.pos
          /\ rd.pos <= rd.len
          /\ rd.off <= rd.len
          /\ rd.got <= rd.want
          /\ uses >= 1
    /\ pc = "seek" => rd.got = 0
    /\ pc = "read" => rd.start = rd.off /\ rd.pos = rd.off + rd.got
    /\ Open /\ rd.got > 0 => rd.start = rd.off

\* A request that is routed has not failed yet, and goes to where its object is;
\* before the first one there is none.
RouteInv ==
    /\ pc \in {"start", "resolve"} => req = None
    /\ pc \in {"lock", "init", "ask"} => ~fault /\ req \in Wanted
    /\ pc \in {"lock", "init"} => Home(req) = "scout"
    /\ pc = "ask" => from = Home(req)

\* The first ReadAt asks for the whole blob, which an honest stream holds; a later
\* one leaves the result of the first alone.
ServedInv ==
    /\ pc \in {"seek", "read"} /\ uses = 1 /\ ~fault =>
          rd.off = 0 /\ rd.want = BlobLen /\ rd.len >= BlobLen
    /\ pc \in {"seek", "read"} /\ uses # 1 /\ ~fault /\ req # None =>
          result \in {"list", "blob"}
    /\ HonestRequestServed

IInv == TypeOK /\ ReaderInv /\ RouteInv /\ ServedInv

-----------------------------------------------------------------------------
(* What the operators on readers return. *)

\* The sizes a stream can have, the blob's among them.
LEMMA SizeFacts == Sizes \subseteq Nat /\ BlobLen \in Sizes /\ 0 .. BlobLen \subseteq Sizes
BY BlobLenAssumption DEF Sizes

\* A Read gives no more than fits the buffer, nor more than is left of the stream.
LEMMA AtMostFacts ==
    ASSUME NEW r \in Readers, r.got <= r.want, r.pos <= r.len
    PROVE  /\ AtMost(r) \in Nat
           /\ AtMost(r) <= r.want - r.got
           /\ AtMost(r) <= r.len - r.pos
<1> DEFINE a == r.want - r.got
           b == r.len - r.pos
<1>1. a \in Nat /\ b \in Nat
  BY SizeFacts DEF Readers
<1> HIDE DEF a, b
<1>2. \E m \in {a, b} : \A y \in {a, b} : m <= y
  BY <1>1
<1>3. Min({a, b}) \in {a, b} /\ \A y \in {a, b} : Min({a, b}) <= y
  BY <1>2 DEF Min
<1>4. AtMost(r) = Min({a, b})
  BY DEF AtMost, Room, a, b
<1> QED
  BY <1>1, <1>3, <1>4 DEF a, b

\* After Advanced a reader still knows where its stream is.
LEMMA AdvancedFacts ==
    ASSUME NEW r \in Readers, r.got <= r.want, r.pos <= r.len, r.offset = r.pos,
           NEW n \in 0 .. AtMost(r), NEW err \in BOOLEAN
    PROVE  LET a == Advanced(r, n, err) IN
           /\ a \in Readers
           /\ a.offset = a.pos
           /\ a.pos = r.pos + n /\ a.pos <= a.len
           /\ a.got = r.got + n /\ a.got <= a.want
           /\ a.off = r.off /\ a.want = r.want /\ a.len = r.len /\ a.start = r.start
<1>1. n \in Nat /\ n <= r.want - r.got /\ n <= r.len - r.pos
  BY AtMostFacts DEF Readers
<1> DEFINE p == r.pos + n
           g == r.got + n
           o == r.offset + n
<1>2. p \in Nat /\ g \in Nat /\ o \in Nat /\ o = p /\ p <= r.len /\ g <= r.want
  BY <1>1 DEF Readers
<1>3. Advanced(r, n, err) = [r EXCEPT !.pos = p, !.got = g, !.offset = o]
  BY DEF Advanced
<1> HIDE DEF p, g, o
<1>4. LET a == Advanced(r, n, err) IN
      /\ a \in Readers
      /\ a.offset = o /\ a.pos = p /\ a.got = g
      /\ a.off = r.off /\ a.want = r.want /\ a.len = r.len /\ a.start = r.start
  BY <1>2, <1>3, Zenon DEF Readers
<1> QED
  BY <1>2, <1>4 DEF p, g

\* After Moved it stands where it was asked to read.
LEMMA MovedFacts ==
    ASSUME NEW r \in Readers, r.offset = r.pos
    PROVE  LET m == Moved(r) IN
           /\ m \in Readers
           /\ m.offset = r.off /\ m.pos = r.off /\ m.start = r.off
           /\ m.off = r.off /\ m.got = r.got /\ m.want = r.want /\ m.len = r.len
BY DEF Readers, Moved

-----------------------------------------------------------------------------
(* Each action keeps the invariant. *)

\* The command's beginning and the routing of a request: no reader is open.
LEMMA RequestStep ==
    ASSUME IInv, RunImageCmd \/ ProviderFromRef \/ Request
    PROVE  IInv'
<1>1. CASE RunImageCmd
  BY <1>1 DEF IInv, TypeOK, ReaderInv, Open, RouteInv, ServedInv, HonestRequestServed, RunImageCmd
<1>2. CASE ProviderFromRef
  BY <1>2 DEF IInv, TypeOK, ReaderInv, Open, RouteInv, ServedInv, HonestRequestServed, ProviderFromRef
<1>3. CASE Request
  <2>1. PICK w \in Wanted :
          /\ req' = w
          /\ pc' = IF AtScout(w) THEN "lock" ELSE "ask"
          /\ from' = IF AtScout(w) THEN None ELSE domain
    BY <1>3 DEF Request
  <2>2. AtScout(w) <=> domain = "hub" /\ w.dhi
    BY DEF AtScout, dhiAllowed, Wanted
  <2>3. TypeOK'
    <3>1. req' \in Wanted \cup {None} /\ pc' \in {"lock", "ask"} /\ from' \in {None} \cup Domains
      BY <1>3, <2>1 DEF IInv, TypeOK, Request
    <3>2. uses' \in 0 .. MaxUses
      BY <1>3, MaxUsesAssumption DEF Request
    <3> QED
      BY <1>3, <3>1, <3>2 DEF IInv, TypeOK, Request
  <2>4. RouteInv'
    BY <1>3, <2>1, <2>2 DEF Request, RouteInv, Home
  <2>5. ReaderInv' /\ ServedInv'
    BY <1>3, <2>1 DEF Request, ReaderInv, Open, ServedInv, HonestRequestServed
  <2> QED
    BY <2>3, <2>4, <2>5 DEF IInv
<1> QED
  BY <1>1, <1>2, <1>3

\* dhiReferrersProvider, and the answers that need no reader.
LEMMA AskStep ==
    ASSUME IInv, Lock \/ HaveScout \/ FailScout \/ AnswerReferrers \/ AnswerError
    PROVE  IInv'
<1> USE DEF IInv, TypeOK, ReaderInv, Open, RouteInv, ServedInv, HonestRequestServed, Home
<1>1. CASE Lock
  BY <1>1 DEF Lock
<1>2. CASE HaveScout
  BY <1>2 DEF HaveScout
<1>3. CASE FailScout
  BY <1>3 DEF FailScout, Return
<1>4. CASE AnswerReferrers
  BY <1>4 DEF AnswerReferrers, Return
<1>5. CASE AnswerError
  BY <1>5 DEF AnswerError, Return
<1> QED
  BY <1>1, <1>2, <1>3, <1>4, <1>5

\* A response opens a reader, and ReadAgain uses it once more.
LEMMA OpenStep ==
    ASSUME IInv, AnswerFetch \/ ReadAgain
    PROVE  IInv'
<1> USE SizeFacts
<1>1. CASE AnswerFetch
  <2>1. PICK size \in Sizes, len \in Sizes, seeks \in BOOLEAN :
          rd' = Reader(size, len, seeks) /\ fault' = (size # BlobLen \/ len < BlobLen)
    BY <1>1 DEF AnswerFetch
  <2>2. /\ rd' \in Readers
        /\ rd'.offset = 0 /\ rd'.pos = 0 /\ rd'.off = 0 /\ rd'.got = 0
        /\ rd'.want = size /\ rd'.len = len /\ rd'.start = 0
    BY <2>1 DEF Reader, Readers
  <2>3. pc' = "seek" /\ uses' = 1 /\ UNCHANGED <<domain, scout, locked, req, from, result>>
    BY <1>1 DEF AnswerFetch
  <2>4. TypeOK'
    BY <2>1, <2>2, <2>3, MaxUsesAssumption DEF IInv, TypeOK
  <2>5. ReaderInv' /\ RouteInv'
    BY <2>2, <2>3 DEF ReaderInv, Open, RouteInv
  <2>6. ServedInv'
    <3>1. ~fault' => ~(size # BlobLen \/ len < BlobLen)
      BY <2>1, Zenon
    <3>2. ~(len < BlobLen) => len >= BlobLen
      BY BlobLenAssumption
    <3> QED
      BY <2>2, <2>3, <3>1, <3>2 DEF ServedInv, HonestRequestServed
  <2> QED
    BY <2>4, <2>5, <2>6 DEF IInv
<1>2. CASE ReadAgain
  <2>1. PICK off \in 0 .. rd.len, want \in 0 .. BlobLen :
          rd' = [rd EXCEPT !.off = off, !.want = want, !.got = 0]
    BY <1>2 DEF ReadAgain
  <2>2. Open /\ pc = "done" /\ rd # None
    BY <1>2 DEF ReadAgain, Open
  <2>3. /\ rd' \in Readers
        /\ rd'.offset = rd.offset /\ rd'.pos = rd.pos /\ rd'.len = rd.len
        /\ rd'.off <= rd.len /\ rd'.got = 0 /\ rd'.want \in Nat
    <3>1. rd \in Readers
      BY <2>2 DEF IInv, ReaderInv
    <3>2. off \in Nat /\ off <= rd.len /\ want \in Nat /\ 0 \in Nat
      BY <3>1, BlobLenAssumption DEF Readers
    <3> QED
      BY <2>1, <3>1, <3>2, Zenon DEF Readers
  <2>4. pc' = "seek" /\ uses' = uses + 1 /\ uses < MaxUses
          /\ UNCHANGED <<domain, scout, locked, req, from, result, fault>>
    BY <1>2 DEF ReadAgain
  <2>5. TypeOK'
    BY <2>2, <2>3, <2>4, MaxUsesAssumption DEF IInv, TypeOK, ReaderInv, Readers
  <2>6. ReaderInv' /\ RouteInv'
    BY <2>2, <2>3, <2>4, MaxUsesAssumption DEF IInv, TypeOK, ReaderInv, Open, RouteInv, Readers
  <2>7. ServedInv'
    BY <2>2, <2>4, MaxUsesAssumption DEF IInv, TypeOK, ReaderInv, ServedInv, HonestRequestServed
  <2> QED
    BY <2>5, <2>6, <2>7 DEF IInv
<1> QED
  BY <1>1, <1>2

\* The steps of a ReadAt that is not at its end.
LEMMA ReadStep ==
    ASSUME IInv, Seek \/ Read
    PROVE  IInv'
<1> USE SizeFacts
<1>1. Open /\ rd \in Readers
  BY DEF Seek, Read, Open, IInv, ReaderInv
<1>2. CASE Seek
  <2>1. /\ rd' \in Readers
        /\ rd'.offset = rd.off /\ rd'.pos = rd.off /\ rd'.start = rd.off
        /\ rd'.off = rd.off /\ rd'.got = rd.got /\ rd'.want = rd.want /\ rd'.len = rd.len
    BY <1>1, <1>2, MovedFacts DEF Seek, IInv, ReaderInv
  <2>2. pc' = "read" /\ pc = "seek" /\ UNCHANGED <<domain, scout, locked, req, from, result, fault, uses>>
    BY <1>2 DEF Seek
  <2>3. TypeOK'
    BY <1>1, <2>1, <2>2 DEF IInv, TypeOK, ReaderInv, Readers
  <2>4. ReaderInv' /\ RouteInv'
    BY <1>1, <2>1, <2>2 DEF IInv, ReaderInv, Open, RouteInv, Readers
  <2>5. ServedInv'
    BY <2>1, <2>2 DEF IInv, ServedInv, HonestRequestServed
  <2> QED
    BY <2>3, <2>4, <2>5 DEF IInv
<1>3. CASE Read
  <2>1. PICK n \in 1 .. AtMost(rd) : rd' = Advanced(rd, n, FALSE)
    BY <1>3 DEF Read
  <2>2. n \in 0 .. AtMost(rd)
    BY <2>1
  <2>3. /\ rd' \in Readers
        /\ rd'.offset = rd'.pos
        /\ rd'.pos = rd.pos + n /\ rd'.pos <= rd'.len
        /\ rd'.got = rd.got + n /\ rd'.got <= rd'.want
        /\ rd'.off = rd.off /\ rd'.want = rd.want /\ rd'.len = rd.len /\ rd'.start = rd.start
    BY <1>1, <2>1, <2>2, AdvancedFacts DEF IInv, ReaderInv
  <2>4. pc = "read" /\ UNCHANGED <<domain, scout, locked, pc, req, from, result, fault, uses>>
    BY <1>3 DEF Read
  <2>5. TypeOK'
    BY <1>1, <2>3, <2>4 DEF IInv, TypeOK, ReaderInv, Readers
  <2>6. ReaderInv' /\ RouteInv'
    BY <1>1, <2>3, <2>4 DEF IInv, ReaderInv, Open, RouteInv, Readers
  <2>7. ServedInv'
    BY <2>3, <2>4 DEF IInv, ServedInv, HonestRequestServed
  <2> QED
    BY <2>5, <2>6, <2>7 DEF IInv
<1> QED
  BY <1>2, <1>3

\* ReadAt ends with a reader that is in order, and at its first use either with the
\* whole blob or with something to blame.
LEMMA EndStep ==
    ASSUME IInv, pc \in {"seek", "read"}, NEW r, NEW err \in BOOLEAN, NEW failed \in BOOLEAN,
           EndRead(r, err, failed),
           r \in Readers, r.offset = r.pos, r.pos <= r.len, r.off <= r.len, r.got <= r.want,
           r.got > 0 => r.start = r.off,
           uses = 1 /\ ~fault /\ ~failed => ~err /\ r.want = BlobLen
    PROVE  IInv'
<1> USE SizeFacts
<1>1. rd' = r /\ pc' = "done" /\ fault' = (fault \/ (failed /\ uses = 1))
        /\ UNCHANGED <<domain, scout, locked, req, from, uses>>
  BY DEF EndRead, Return
<1>2. result' = IF uses > 1 THEN result ELSE IF err THEN "error" ELSE Blob(r)
  BY DEF EndRead, Return
<1>3. uses \in Nat /\ uses >= 1
  BY MaxUsesAssumption DEF IInv, TypeOK, ReaderInv, Open
<1>4. TypeOK'
  BY <1>1, <1>2, <1>3 DEF IInv, TypeOK, Blob, Readers
<1>5. ReaderInv' /\ RouteInv'
  BY <1>1, <1>3 DEF ReaderInv, Open, RouteInv
<1>6. HonestRequestServed'
  <2>1. CASE uses = 1
    BY <1>1, <1>2, <2>1 DEF IInv, TypeOK, HonestRequestServed, Blob
  <2>2. CASE uses # 1
    BY <1>1, <1>2, <1>3, <2>2 DEF IInv, TypeOK, ServedInv, HonestRequestServed
  <2> QED
    BY <2>1, <2>2
<1>7. ServedInv'
  BY <1>1, <1>6 DEF ServedInv
<1> QED
  BY <1>4, <1>5, <1>7 DEF IInv

\* Each way for ReadAt to end.
LEMMA DoneStep ==
    ASSUME IInv, SeekError \/ ReadFull \/ ReadEOF \/ ReadError
    PROVE  IInv'
<1> USE SizeFacts
<1>1. Open /\ rd \in Readers
  BY DEF SeekError, ReadFull, ReadEOF, ReadError, Open, IInv, ReaderInv
<1>2. CASE SeekError
  BY <1>1, <1>2, EndStep DEF SeekError, IInv, ReaderInv
<1>3. CASE ReadFull
  BY <1>1, <1>3, EndStep DEF ReadFull, IInv, ReaderInv, ServedInv
<1>4. ASSUME NEW n \in 0 .. AtMost(rd), pc = "read", NEW e \in BOOLEAN, NEW err \in BOOLEAN,
             NEW failed \in BOOLEAN, EndRead(Advanced(rd, n, e), err, failed),
             failed \/ (rd.pos + n = rd.len /\ err = (n # Room(rd)))
      PROVE  IInv'
  <2> DEFINE a == Advanced(rd, n, e)
  <2>1. /\ a \in Readers
        /\ a.offset = a.pos
        /\ a.pos = rd.pos + n /\ a.pos <= a.len
        /\ a.got = rd.got + n /\ a.got <= a.want
        /\ a.off = rd.off /\ a.want = rd.want /\ a.len = rd.len /\ a.start = rd.start
    BY <1>1, <1>4, AdvancedFacts DEF IInv, ReaderInv
  <2> HIDE DEF a
  <2>2. a.off <= a.len /\ (a.got > 0 => a.start = a.off)
    BY <1>1, <1>4, <2>1 DEF IInv, ReaderInv
  <2>3. ASSUME uses = 1, ~fault, ~failed PROVE ~err /\ a.want = BlobLen
    <3>1. rd.off = 0 /\ rd.want = BlobLen /\ rd.len >= BlobLen /\ rd.pos = rd.off + rd.got
      BY <1>4, <2>3 DEF IInv, ServedInv, ReaderInv
    <3>2. n = rd.want - rd.got
      BY <1>1, <1>4, <2>1, <2>3, <3>1, BlobLenAssumption DEF Readers
    <3> QED
      BY <1>4, <2>1, <2>3, <3>1, <3>2 DEF Room
  <2> QED
    BY <1>4, <2>1, <2>2, <2>3, EndStep DEF a
<1>5. CASE ReadEOF
  BY <1>4, <1>5 DEF ReadEOF, EOF
<1>6. CASE ReadError
  BY <1>4, <1>6 DEF ReadError
<1> QED
  BY <1>2, <1>3, <1>5, <1>6

-----------------------------------------------------------------------------
(* The theorems. *)

\* The inductive invariant holds of every behaviour.
LEMMA Invariance == Spec => []IInv
<1>1. Init => IInv
  <2>1. Init => TypeOK
    <3>1. 0 \in 0 .. MaxUses
      BY MaxUsesAssumption
    <3> QED
      BY <3>1 DEF Init, TypeOK
  <2>2. Init => ReaderInv /\ RouteInv /\ ServedInv
    BY DEF Init, ReaderInv, Open, RouteInv, ServedInv, HonestRequestServed
  <2> QED
    BY <2>1, <2>2 DEF IInv
<1>2. IInv /\ [Next]_vars => IInv'
  <2> SUFFICES ASSUME IInv, [Next]_vars PROVE IInv'
    OBVIOUS
  <2>1. CASE UNCHANGED vars
    BY <2>1 DEF vars, IInv, TypeOK, ReaderInv, Open, RouteInv, ServedInv, HonestRequestServed, Home
  <2> QED
    BY <2>1, RequestStep, AskStep, OpenStep, ReadStep, DoneStep DEF Next, Step
<1> QED
  BY <1>1, <1>2, PTL DEF Spec

\* The types of the provider's state; ReadAt never counts more than was asked for.
THEOREM TypeCorrect == Spec => []TypeOK
<1>1. IInv => TypeOK
  BY DEF IInv
<1> QED
  BY <1>1, Invariance, PTL

\* A request that nothing goes wrong for is served: it is routed to the registry
\* that has its object, and ReadAt and ReadBlob return the whole blob.
THEOREM RequestServed == Spec => []HonestRequestServed
<1>1. IInv => HonestRequestServed
  BY DEF IInv, ServedInv
<1> QED
  BY <1>1, Invariance, PTL

\* ReadAt reads at the offset it was asked for, however often a reader is used and
\* whatever failed before.
THEOREM ReadAtRight == Spec => []ReadsWhatWasAsked
<1>1. IInv => ReadsWhatWasAsked
  BY DEF IInv, ReaderInv, Open, ReadsWhatWasAsked
<1> QED
  BY <1>1, Invariance, PTL
=============================================================================
