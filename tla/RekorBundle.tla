---------------------------- MODULE RekorBundle ----------------------------
(***************************************************************************)
(* parseRekorBundle and TlogEntries of hashedrecordbundle.go: the log      *)
(* entry in the bundle annotation of a cosign signature, which comes in    *)
(* two shapes.  An annotation is Absent, Empty or what json.Unmarshal      *)
(* makes of it:                                                            *)
(*   new   the tlogEntries under content, <<>> if that fails               *)
(*   old   the document in cosign's older shape, Unparsable if that fails  *)
(* A JSON value is [json |-> type, v |-> value] with the types nil, num,   *)
(* str and other; the number of a string is NaN if it is none.  A log id   *)
(* has the JSON type and its encoding: only hex is decoded.  Body and      *)
(* promise are None if they are empty.                                     *)
(***************************************************************************)
EXTENDS SigstoreVerifier

CONSTANTS
    Absent,      \* the layer has no bundle annotation
    Empty,       \* the annotation is the empty string
    NaN,
    MaxInt64

ASSUME FloatIsNarrower == MaxInt64 \in Nat /\ MaxExact < MaxInt64

MinInt64 == -MaxInt64 - 1
Int64 == MinInt64 .. MaxInt64

\* What v can be converted to, {} if that is an error.  encoding/json reads a number
\* as float64; Go leaves the result of one that does not fit to the machine.
anyToInt64(v) ==
    CASE v.json = "num" -> IF Float64(v.v) \in Int64 THEN {Float64(v.v)} ELSE {MinInt64, MaxInt64}
      [] v.json = "str" -> {v.v} \cap Int64
      [] OTHER          -> {}

\* A field of rekorBundle is zero unless v sets it.
OrZero(v) == IF anyToInt64(v) = {} THEN {0} ELSE anyToInt64(v)

\* The field at the top level, or if that is zero the one under Payload.
TopOrNested(top, nested) ==
    UNION {IF n # 0 THEN {n} ELSE OrZero(nested) : n \in OrZero(top)}

\* A log id that is a string and not empty.
StringOf(v) == IF v.json = "str" THEN v.v ELSE None

NewShape(e) ==
    {[body |-> e.body, set |-> e.set, logID |-> e.keyID, time |-> t, index |-> i] :
        t \in OrZero(e.time), i \in OrZero(e.index)}

OldShape(b) ==
    {[body |-> b.payload.body, set |-> b.set,
      logID |-> IF StringOf(b.logID) # None THEN StringOf(b.logID) ELSE StringOf(b.payload.logID),
      time |-> t, index |-> i] :
        t \in TopOrNested(b.time, b.payload.time), i \in TopOrNested(b.index, b.payload.index)}

\* The new shape is used if its first entry has a body and a promise.
parseRekorBundle(a) ==
    IF a.new # <<>> /\ a.new[1].body # None /\ a.new[1].set # None THEN NewShape(a.new[1])
    ELSE IF a.old = Unparsable THEN {}
    ELSE OldShape(a.old)

\* An empty annotation counts as none.
extractBundle(a) == a \notin {Absent, Empty}

\* The results TlogEntries may have: no entry, one entry, or an error.
TlogEntries(a) ==
    IF ~extractBundle(a) THEN {<<>>}
    ELSE IF parseRekorBundle(a) = {} THEN {Unparsable}
    ELSE {IF (b.logID # None /\ ~b.logID.hex) \/ b.body \in {None, Unparsable} THEN Unparsable
          ELSE <<[log |-> IF b.logID = None THEN None ELSE b.logID.id, index |-> b.index, time |-> b.time,
                  body |-> b.body, set |-> b.set, proof |-> None]>> : b \in parseRekorBundle(a)}

-----------------------------------------------------------------------------
(* How an annotation is meant, for one whose writer kept to either shape.  *)

Missing(v) == v.json = "nil"

\* A number that every reader of JSON reads alike.
Exact(v) == v.v \in Int64 /\ (v.json = "str" \/ (v.json = "num" /\ v.v \in -MaxExact .. MaxExact))

\* A field of the older shape, and that a zero at the top level is meant.
Field(top, nested) == IF Missing(top) THEN nested ELSE top
ZeroMeant(top, nested) == top.v = 0 => Missing(nested) \/ nested.v = 0

InNewShape(a) == a.new # <<>> /\ a.new[1].body # None /\ a.new[1].set # None

\* The parts of the entry, with numbers and log id as they were written.
Written(a) ==
    IF InNewShape(a)
      THEN [body |-> a.new[1].body, set |-> a.new[1].set, id |-> a.new[1].keyID,
            time |-> a.new[1].time, index |-> a.new[1].index]
      ELSE [body |-> a.old.payload.body, set |-> a.old.set,
            id |-> StringOf(Field(a.old.logID, a.old.payload.logID)),
            time |-> Field(a.old.time, a.old.payload.time),
            index |-> Field(a.old.index, a.old.payload.index)]

WellWritten(a) ==
    /\ a \notin {Absent, Empty}
    /\ InNewShape(a) \/ a.old # Unparsable
    /\ ~InNewShape(a) => ZeroMeant(a.old.time, a.old.payload.time)
                         /\ ZeroMeant(a.old.index, a.old.payload.index)
    /\ LET w == Written(a) IN
       /\ w.body \notin {None, Unparsable}
       /\ w.id # None /\ w.id.hex
       /\ Exact(w.time) /\ Exact(w.index)

\* The entry that the writer had.
Meant(a) ==
    LET w == Written(a) IN
    [log |-> w.id.id, index |-> w.index.v, time |-> w.time.v, body |-> w.body, set |-> w.set, proof |-> None]
=============================================================================
