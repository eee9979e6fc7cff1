------------------------- MODULE RekorBundleProofs -------------------------
(***************************************************************************)
(* What parseRekorBundle makes of the annotation of a cosign signature:    *)
(* for every annotation that keeps to one of the two shapes, the entry     *)
(* that was written; for any other one, numbers that fit or an error.      *)
(***************************************************************************)
EXTENDS RekorBundle, TLAPS

-----------------------------------------------------------------------------
(* Numbers *)

\* Zero and the two ends are among the numbers of 64 bits.
LEMMA Int64Facts ==
    /\ MaxExact \in Nat /\ MaxInt64 \in Nat
    /\ 0 \in Int64 /\ MinInt64 \in Int64 /\ MaxInt64 \in Int64
    /\ \A n \in Int64 : n \in Int
BY LimitsAssumption, FloatIsNarrower DEF Int64, MinInt64

\* Whatever is read as a number has 64 bits.
LEMMA NumberFits ==
    ASSUME NEW v
    PROVE  anyToInt64(v) \subseteq Int64 /\ OrZero(v) \subseteq Int64
<1>1. anyToInt64(v) \subseteq Int64
  <2>1. CASE v.json = "num"
    BY <2>1, Int64Facts DEF anyToInt64
  <2>2. CASE v.json = "str"
    BY <2>2 DEF anyToInt64
  <2>3. CASE v.json \notin {"num", "str"}
    BY <2>3 DEF anyToInt64
  <2> QED
    BY <2>1, <2>2, <2>3
<1> QED
  BY <1>1, Int64Facts DEF OrZero

\* A number that is written exactly is read as it is.
LEMMA ExactRead ==
    ASSUME NEW v, Exact(v)
    PROVE  OrZero(v) = {v.v} /\ v.v \in Int64
<1>1. v.v \in Int64 /\ v.v \in Int
  BY Int64Facts DEF Exact
<1>2. CASE v.json = "str"
  <2>1. anyToInt64(v) = {v.v} \cap Int64
    BY <1>2 DEF anyToInt64
  <2> QED
    BY <1>1, <2>1 DEF OrZero
<1>3. CASE v.json = "num" /\ v.v \in -MaxExact .. MaxExact
  <2>1. Float64(v.v) = v.v
    BY <1>3 DEF Float64
  <2>2. Float64(v.v) \in Int64 /\ {Float64(v.v)} = {v.v}
    BY <1>1, <2>1
  <2>3. anyToInt64(v) = {v.v}
    BY <1>3, <2>2 DEF anyToInt64
  <2> QED
    BY <1>1, <2>3 DEF OrZero
<1> QED
  BY <1>1, <1>2, <1>3 DEF Exact

\* A field that is absent is read as zero, and so is a zero however it is written.
LEMMA ZeroRead ==
    ASSUME NEW v, Missing(v) \/ v.v = 0
    PROVE  OrZero(v) = {0}
<1>1. CASE v.json = "num" /\ v.v = 0
  <2>1. Exact(v)
    BY <1>1, Int64Facts DEF Exact
  <2> QED
    BY <1>1, <2>1, ExactRead
<1>2. CASE v.json = "str" /\ v.v = 0
  <2>1. Exact(v)
    BY <1>2, Int64Facts DEF Exact
  <2> QED
    BY <1>2, <2>1, ExactRead
<1>3. CASE v.json \notin {"num", "str"}
  <2>1. anyToInt64(v) = {}
    BY <1>3 DEF anyToInt64
  <2> QED
    BY <2>1 DEF OrZero
<1> QED
  BY <1>1, <1>2, <1>3 DEF Missing

\* A field of the older shape is read where it is.
LEMMA FieldRead ==
    ASSUME NEW top, NEW nested, Exact(Field(top, nested)), ZeroMeant(top, nested)
    PROVE  TopOrNested(top, nested) = {Field(top, nested).v}
<1>1. CASE Missing(top)
  <2>1. OrZero(top) = {0} /\ Field(top, nested) = nested
    BY <1>1, ZeroRead DEF Field
  <2>2. OrZero(nested) = {nested.v}
    BY <2>1, ExactRead
  <2> QED
    BY <2>1, <2>2 DEF TopOrNested
<1>2. CASE ~Missing(top) /\ top.v # 0
  <2>1. OrZero(top) = {top.v} /\ Field(top, nested) = top
    BY <1>2, ExactRead DEF Field
  <2> QED
    BY <1>2, <2>1 DEF TopOrNested
<1>3. CASE ~Missing(top) /\ top.v = 0
  <2>1. OrZero(top) = {0} /\ Field(top, nested) = top
    BY <1>3, ZeroRead DEF Field
  <2>2. OrZero(nested) = {0}
    BY <1>3, ZeroRead DEF ZeroMeant
  <2> QED
    BY <1>3, <2>1, <2>2 DEF TopOrNested
<1> QED
  BY <1>1, <1>2, <1>3

-----------------------------------------------------------------------------
(* Annotations *)

\* What parseRekorBundle finds in an annotation that is well written: one reading,
\* which has the parts as they were written.
LEMMA WellWrittenParsed ==
    ASSUME NEW a, WellWritten(a)
    PROVE  parseRekorBundle(a) =
             {[body |-> Written(a).body, set |-> Written(a).set, logID |-> Written(a).id,
               time |-> Written(a).time.v, index |-> Written(a).index.v]}
<1> DEFINE w == Written(a)
<1>1. Exact(w.time) /\ Exact(w.index) /\ w.id # None
  BY DEF WellWritten
<1>2. CASE InNewShape(a)
  <2>1. /\ w.body = a.new[1].body /\ w.set = a.new[1].set /\ w.id = a.new[1].keyID
        /\ w.time = a.new[1].time /\ w.index = a.new[1].index
    BY <1>2 DEF Written
  <2>2. OrZero(a.new[1].time) = {w.time.v} /\ OrZero(a.new[1].index) = {w.index.v}
    BY <1>1, <2>1, ExactRead
  <2>3. parseRekorBundle(a) = NewShape(a.new[1])
    BY <1>2 DEF parseRekorBundle, InNewShape
  <2> QED
    BY <2>1, <2>2, <2>3 DEF NewShape
<1>3. CASE ~InNewShape(a)
  <2> DEFINE b == a.old
  <2>1. /\ w.body = b.payload.body /\ w.set = b.set /\ w.id = StringOf(Field(b.logID, b.payload.logID))
        /\ w.time = Field(b.time, b.payload.time) /\ w.index = Field(b.index, b.payload.index)
    BY <1>3 DEF Written
  <2>2. ZeroMeant(b.time, b.payload.time) /\ ZeroMeant(b.index, b.payload.index) /\ b # Unparsable
    BY <1>3 DEF WellWritten
  <2>3. /\ TopOrNested(b.time, b.payload.time) = {w.time.v}
        /\ TopOrNested(b.index, b.payload.index) = {w.index.v}
    BY <1>1, <2>1, <2>2, FieldRead
  <2>4. (IF StringOf(b.logID) # None THEN StringOf(b.logID) ELSE StringOf(b.payload.logID)) = w.id
    <3>1. CASE Missing(b.logID)
      BY <2>1, <3>1 DEF Missing, StringOf, Field
    <3>2. CASE ~Missing(b.logID)
      BY <1>1, <2>1, <3>2 DEF Field
    <3> QED
      BY <3>1, <3>2
  <2>5. parseRekorBundle(a) = OldShape(b)
    BY <1>3, <2>2 DEF parseRekorBundle, InNewShape
  <2> QED
    BY <2>1, <2>3, <2>4, <2>5 DEF OldShape
<1> QED
  BY <1>2, <1>3

\* The log entry that a signer put into an annotation, in whichever shape, with its
\* numbers as strings or as JSON numbers that float64 holds, is the one that the
\* verifier sees.
THEOREM AnnotationRead ==
    ASSUME NEW a, WellWritten(a)
    PROVE  TlogEntries(a) = {<<Meant(a)>>}
<1> DEFINE w == Written(a)
           b == [body |-> w.body, set |-> w.set, logID |-> w.id, time |-> w.time.v, index |-> w.index.v]
<1>1. extractBundle(a) /\ w.body \notin {None, Unparsable} /\ w.id # None /\ w.id.hex
  BY DEF extractBundle, WellWritten
<1>2. parseRekorBundle(a) = {b}
  BY WellWrittenParsed
<1>3. b.body = w.body /\ b.set = w.set /\ b.logID = w.id /\ b.time = w.time.v /\ b.index = w.index.v
  OBVIOUS
<1> HIDE DEF b
<1>4. TlogEntries(a) =
        {<<[log |-> w.id.id, index |-> w.index.v, time |-> w.time.v, body |-> w.body, set |-> w.set, proof |-> None]>>}
  BY <1>1, <1>2, <1>3 DEF TlogEntries
<1> QED
  BY <1>4 DEF Meant

\* For any annotation at all, TlogEntries gives nothing, an error, or one entry,
\* without a proof, with numbers of 64 bits.
THEOREM EntryFits ==
    ASSUME NEW a, NEW r \in TlogEntries(a), r # <<>>, r # Unparsable
    PROVE  \E en : /\ r = <<en>>
                   /\ en.index \in Int64 /\ en.time \in Int64
                   /\ en.body \notin {None, Unparsable} /\ en.proof = None
<1>1. extractBundle(a) /\ parseRekorBundle(a) # {}
  BY DEF TlogEntries
<1>2. PICK b \in parseRekorBundle(a) :
        /\ b.body \notin {None, Unparsable}
        /\ r = <<[log |-> IF b.logID = None THEN None ELSE b.logID.id, index |-> b.index, time |-> b.time,
                  body |-> b.body, set |-> b.set, proof |-> None]>>
  BY <1>1 DEF TlogEntries
<1>3. b.time \in Int64 /\ b.index \in Int64
  <2>1. CASE \E e : b \in NewShape(e)
    <3>1. PICK e : b \in NewShape(e)
      BY <2>1
    <3>2. b.time \in OrZero(e.time) /\ b.index \in OrZero(e.index)
      BY <3>1 DEF NewShape
    <3> QED
      BY <3>2, NumberFits
  <2>2. CASE \E o : b \in OldShape(o)
    <3>1. PICK o : b \in OldShape(o)
      BY <2>2
    <3>2. b.time \in TopOrNested(o.time, o.payload.time) /\ b.index \in TopOrNested(o.index, o.payload.index)
      BY <3>1 DEF OldShape
    <3>3. ASSUME NEW top, NEW nested, NEW n \in TopOrNested(top, nested) PROVE n \in Int64
      <4>1. PICK m \in OrZero(top) : n \in IF m # 0 THEN {m} ELSE OrZero(nested)
        BY <3>3 DEF TopOrNested
      <4> QED
        BY <4>1, NumberFits
    <3> QED
      BY <3>2, <3>3
  <2> QED
    BY <2>1, <2>2 DEF parseRekorBundle
<1> DEFINE en == [log |-> IF b.logID = None THEN None ELSE b.logID.id, index |-> b.index, time |-> b.time,
                  body |-> b.body, set |-> b.set, proof |-> None]
<1>4. r = <<en>> /\ en.index = b.index /\ en.time = b.time /\ en.body = b.body /\ en.proof = None
  BY <1>2
<1> HIDE DEF en
<1> QED
  BY <1>2, <1>3, <1>4
=============================================================================
