------------------------- MODULE TrustLoaderProofs -------------------------
(***************************************************************************)
(* For any number of concurrent verifications: loadTrustProvider makes one *)
(* provider, never races on v.tp, and implements OnceProvider.             *)
(***************************************************************************)
EXTENDS TrustLoader, TLAPS

\* The leader in the map is the one call that runs the function.
FlightInv == \A c \in Callers : pc[c] \in Running <=> flight = c

\* What the running call has found out is still so.
RunInv ==
    \A c \in Callers :
        /\ pc[c] \in {"idle", "wait", "check", "make"} => val[c] = None
        /\ pc[c] = "make" => tp = None /\ made = {}
        /\ pc[c] = "store" => tp = None /\ made = {c} /\ val[c] = c
        /\ pc[c] = "finish" => val[c] = IF tp = None THEN Error ELSE tp
MadeInv == (tp = None /\ \A c \in Callers : pc[c] # "store") => made = {}
KeptInv == tp # None => made = {tp}

\* A call waits for a leader that runs or has a result.
WaitInv ==
    \A c \in Callers :
        pc[c] = "wait" =>
            /\ leader[c] \in Callers
            /\ \/ pc[leader[c]] \in Running
               \/ pc[leader[c]] = "done" /\ val[leader[c]] # None

\* A provider that was given out is the one that is kept.
AnswerInv ==
    \A c \in Callers :
        /\ pc[c] # "done" => ans[c] = None
        /\ pc[c] = "done" => ans[c] # None
        /\ ans[c] \in Callers => ans[c] = tp
        /\ pc[c] = "done" /\ val[c] \in Callers => val[c] = tp

\* Calls that began when there was a provider will get it.
KnownInv ==
    \A c \in known :
        /\ tp # None
        /\ pc[c] # "idle"
        /\ ans[c] # Error
        /\ pc[c] = "wait" => val[leader[c]] # Error

IInv == TypeOK /\ FlightInv /\ RunInv /\ MadeInv /\ KeptInv /\ WaitInv /\ AnswerInv /\ KnownInv

-----------------------------------------------------------------------------
\* Every step of every call preserves the inductive invariant.
LEMMA StepInductive ==
    ASSUME IInv, NEW c \in Callers,
           Lead(c) \/ Join(c) \/ NewTrustProvider(c) \/ Step(c)
    PROVE  IInv'
<1> USE LoaderAssumption
<1>1. CASE Lead(c)
  <2>1. TypeOK'
    BY <1>1 DEF IInv, Lead, Begin, InFlight, TypeOK, Results, Running
  <2>2. FlightInv'
    BY <1>1 DEF IInv, Lead, Begin, InFlight, TypeOK, FlightInv, WaitInv, Running
  <2>3. RunInv'
    BY <1>1 DEF IInv, Lead, Begin, InFlight, TypeOK, FlightInv, RunInv, MadeInv, KeptInv, Running
  <2>4. MadeInv'
    BY <1>1 DEF IInv, Lead, Begin, InFlight, TypeOK, FlightInv, RunInv, MadeInv, Running
  <2>5. KeptInv'
    BY <1>1 DEF IInv, Lead, Begin, InFlight, TypeOK, FlightInv, RunInv, KeptInv, Running
  <2>6. WaitInv'
    BY <1>1 DEF IInv, Lead, Begin, InFlight, TypeOK, FlightInv, RunInv, WaitInv, Running, Results
  <2>7. AnswerInv'
    BY <1>1 DEF IInv, Lead, Begin, InFlight, TypeOK, FlightInv, RunInv, WaitInv, AnswerInv, Running, Results
  <2>8. KnownInv'
    BY <1>1 DEF IInv, Lead, Begin, InFlight, TypeOK, FlightInv, RunInv, WaitInv, AnswerInv, KnownInv, Running
  <2> QED BY <2>1, <2>2, <2>3, <2>4, <2>5, <2>6, <2>7, <2>8 DEF IInv
<1>2. CASE Join(c)
  <2>1. TypeOK'
    BY <1>2 DEF IInv, Join, Begin, InFlight, TypeOK, Results, Running
  <2>2. FlightInv'
    BY <1>2 DEF IInv, Join, Begin, InFlight, TypeOK, FlightInv, WaitInv, Running
  <2>3. RunInv'
    BY <1>2 DEF IInv, Join, Begin, InFlight, TypeOK, FlightInv, RunInv, MadeInv, KeptInv, Running
  <2>4. MadeInv'
    BY <1>2 DEF IInv, Join, Begin, InFlight, TypeOK, FlightInv, RunInv, MadeInv, Running
  <2>5. KeptInv'
    BY <1>2 DEF IInv, Join, Begin, InFlight, TypeOK, FlightInv, RunInv, KeptInv, Running
  <2>6. WaitInv'
    BY <1>2 DEF IInv, Join, Begin, InFlight, TypeOK, FlightInv, RunInv, WaitInv, Running, Results
  <2>7. AnswerInv'
    BY <1>2 DEF IInv, Join, Begin, InFlight, TypeOK, FlightInv, RunInv, WaitInv, AnswerInv, Running, Results
  <2>8. KnownInv'
    BY <1>2 DEF IInv, Join, Begin, InFlight, TypeOK, FlightInv, RunInv, WaitInv, AnswerInv, KnownInv, Running
  <2> QED BY <2>1, <2>2, <2>3, <2>4, <2>5, <2>6, <2>7, <2>8 DEF IInv
<1>3. CASE Check(c)
  <2>1. TypeOK'
    BY <1>3 DEF IInv, Check, TypeOK, Results, Running
  <2>2. FlightInv'
    BY <1>3 DEF IInv, Check, TypeOK, FlightInv, WaitInv, Running
  <2>3. RunInv'
    BY <1>3 DEF IInv, Check, TypeOK, FlightInv, RunInv, MadeInv, KeptInv, Running
  <2>4. MadeInv'
    BY <1>3 DEF IInv, Check, TypeOK, FlightInv, RunInv, MadeInv, Running
  <2>5. KeptInv'
    BY <1>3 DEF IInv, Check, TypeOK, FlightInv, RunInv, KeptInv, Running
  <2>6. WaitInv'
    BY <1>3 DEF IInv, Check, TypeOK, FlightInv, RunInv, WaitInv, Running, Results
  <2>7. AnswerInv'
    BY <1>3 DEF IInv, Check, TypeOK, FlightInv, RunInv, WaitInv, AnswerInv, Running, Results
  <2>8. KnownInv'
    BY <1>3 DEF IInv, Check, TypeOK, FlightInv, RunInv, WaitInv, AnswerInv, KnownInv, Running
  <2> QED BY <2>1, <2>2, <2>3, <2>4, <2>5, <2>6, <2>7, <2>8 DEF IInv
<1>4. CASE NewTrustProvider(c)
  <2>1. TypeOK'
    BY <1>4 DEF IInv, NewTrustProvider, AfterError, TypeOK, Results, Running
  <2>2. FlightInv'
    BY <1>4 DEF IInv, NewTrustProvider, AfterError, TypeOK, FlightInv, WaitInv, Running
  <2>3. RunInv'
    BY <1>4 DEF IInv, NewTrustProvider, AfterError, TypeOK, FlightInv, RunInv, MadeInv, KeptInv, Running
  <2>4. MadeInv'
    BY <1>4 DEF IInv, NewTrustProvider, AfterError, TypeOK, FlightInv, RunInv, MadeInv, Running
  <2>5. KeptInv'
    BY <1>4 DEF IInv, NewTrustProvider, AfterError, TypeOK, FlightInv, RunInv, KeptInv, Running
  <2>6. WaitInv'
    BY <1>4 DEF IInv, NewTrustProvider, AfterError, TypeOK, FlightInv, RunInv, WaitInv, Running, Results
  <2>7. AnswerInv'
    BY <1>4 DEF IInv, NewTrustProvider, AfterError, TypeOK, FlightInv, RunInv, WaitInv, AnswerInv, Running, Results
  <2>8. KnownInv'
    BY <1>4 DEF IInv, NewTrustProvider, AfterError, TypeOK, FlightInv, RunInv, WaitInv, AnswerInv, KnownInv, Running
  <2> QED BY <2>1, <2>2, <2>3, <2>4, <2>5, <2>6, <2>7, <2>8 DEF IInv
<1>5. CASE Store(c)
  <2>1. TypeOK'
    BY <1>5 DEF IInv, Store, Stored, TypeOK, RunInv, Results, Running
  <2>2. FlightInv'
    BY <1>5 DEF IInv, Store, Stored, TypeOK, FlightInv, WaitInv, Running
  <2>3. RunInv'
    BY <1>5 DEF IInv, Store, Stored, TypeOK, FlightInv, RunInv, MadeInv, KeptInv, Running
  <2>4. MadeInv'
    BY <1>5 DEF IInv, Store, Stored, RunInv, MadeInv
  <2>5. KeptInv'
    BY <1>5 DEF IInv, Store, Stored, TypeOK, FlightInv, RunInv, KeptInv, Running
  <2>6. WaitInv'
    BY <1>5 DEF IInv, Store, Stored, TypeOK, FlightInv, RunInv, WaitInv, Running, Results
  <2>7. AnswerInv'
    BY <1>5 DEF IInv, Store, Stored, TypeOK, FlightInv, RunInv, WaitInv, AnswerInv, Running, Results
  <2>8. KnownInv'
    BY <1>5 DEF IInv, Store, Stored, TypeOK, FlightInv, RunInv, WaitInv, AnswerInv, KnownInv, Running
  <2> QED BY <2>1, <2>2, <2>3, <2>4, <2>5, <2>6, <2>7, <2>8 DEF IInv
<1>6. CASE Finish(c)
  <2>1. TypeOK'
    BY <1>6 DEF IInv, Finish, Landed, TypeOK, Results, Running
  <2>2. FlightInv'
    BY <1>6 DEF IInv, Finish, Landed, TypeOK, FlightInv, WaitInv, Running
  <2>3. RunInv'
    BY <1>6 DEF IInv, Finish, Landed, TypeOK, FlightInv, RunInv, MadeInv, KeptInv, Running
  <2>4. MadeInv'
    BY <1>6 DEF IInv, Finish, Landed, TypeOK, FlightInv, RunInv, MadeInv, Running
  <2>5. KeptInv'
    BY <1>6 DEF IInv, Finish, Landed, TypeOK, FlightInv, RunInv, KeptInv, Running
  <2>6. WaitInv'
    BY <1>6 DEF IInv, Finish, Landed, TypeOK, FlightInv, RunInv, WaitInv, Running, Results
  <2>7. AnswerInv'
    BY <1>6 DEF IInv, Finish, Landed, TypeOK, FlightInv, RunInv, WaitInv, AnswerInv, Running, Results
  <2>8. KnownInv'
    BY <1>6 DEF IInv, Finish, Landed, TypeOK, FlightInv, RunInv, WaitInv, AnswerInv, KnownInv, Running
  <2> QED BY <2>1, <2>2, <2>3, <2>4, <2>5, <2>6, <2>7, <2>8 DEF IInv
<1>7. CASE Share(c)
  <2>1. TypeOK'
    BY <1>7 DEF IInv, Share, Woken, TypeOK, WaitInv, Results, Running
  <2>2. FlightInv'
    BY <1>7 DEF IInv, Share, Woken, TypeOK, FlightInv, WaitInv, Running
  <2>3. RunInv'
    BY <1>7 DEF IInv, Share, Woken, TypeOK, FlightInv, RunInv, MadeInv, KeptInv, Running
  <2>4. MadeInv'
    BY <1>7 DEF IInv, Share, Woken, TypeOK, FlightInv, RunInv, MadeInv, Running
  <2>5. KeptInv'
    BY <1>7 DEF IInv, Share, Woken, TypeOK, FlightInv, RunInv, KeptInv, Running
  <2>6. WaitInv'
    BY <1>7 DEF IInv, Share, Woken, TypeOK, FlightInv, RunInv, WaitInv, Running, Results
  <2>7. AnswerInv'
    BY <1>7 DEF IInv, Share, Woken, TypeOK, FlightInv, RunInv, WaitInv, AnswerInv, Running, Results
  <2>8. KnownInv'
    BY <1>7 DEF IInv, Share, Woken, TypeOK, FlightInv, RunInv, WaitInv, AnswerInv, KnownInv, Running
  <2> QED BY <2>1, <2>2, <2>3, <2>4, <2>5, <2>6, <2>7, <2>8 DEF IInv
<1> QED
  BY <1>1, <1>2, <1>3, <1>4, <1>5, <1>6, <1>7 DEF Step

\* The inductive invariant holds throughout.
LEMMA Invariance == Spec => []IInv
<1>1. Init => IInv
  BY LoaderAssumption DEF Init, IInv, TypeOK, FlightInv, RunInv, MadeInv, KeptInv, WaitInv,
     AnswerInv, KnownInv, Running, Results
<1>2. IInv /\ [Next]_vars => IInv'
  <2> SUFFICES ASSUME IInv, [Next]_vars PROVE IInv'
    OBVIOUS
  <2>1. CASE Next
    BY <2>1, StepInductive DEF Next
  <2>2. CASE UNCHANGED vars
    BY <2>2 DEF vars, IInv, TypeOK, FlightInv, RunInv, MadeInv, KeptInv, WaitInv,
       AnswerInv, KnownInv
  <2> QED
    BY <2>1, <2>2
<1> QED
  BY <1>1, <1>2, PTL DEF Spec

-----------------------------------------------------------------------------
\* The types of loadTrustProvider's state, for any number of calls.
THEOREM TypeCorrect == Spec => []TypeOK
<1>1. IInv => TypeOK
  BY DEF IInv
<1> QED
  BY <1>1, Invariance, PTL

\* singleflight is all the protection v.tp needs: no two calls access it at once.
THEOREM LoaderRaceFree == Spec => []NoRace
<1>1. IInv => NoRace
  BY DEF IInv, FlightInv, NoRace
<1> QED
  BY <1>1, Invariance, PTL

\* A Verifier makes at most one provider, and gives out no other.
THEOREM LoaderOnce == Spec => []OneProvider
<1>1. IInv => OneProvider
  BY DEF IInv, RunInv, MadeInv, KeptInv, OneProvider
<1> QED
  BY <1>1, Invariance, PTL

\* A Verifier that has given out its provider answers every later call with it.
THEOREM LoaderKeeps == Spec => []OnceLoadedAlwaysLoaded
<1>1. IInv => OnceLoadedAlwaysLoaded
  BY DEF IInv, KnownInv, OnceLoadedAlwaysLoaded
<1> QED
  BY <1>1, Invariance, PTL

\* No call waits for an attempt that is over.
THEOREM LoaderFresh == Spec => NoStaleResult
<1>1. IInv /\ [Next]_vars
        => [\A c \in Callers :
              pc[c] = "idle" /\ pc'[c] = "wait" => pc'[leader'[c]] \in Running]_vars
  <2> SUFFICES ASSUME IInv, Next, NEW c \in Callers, pc[c] = "idle", pc'[c] = "wait"
               PROVE  pc'[leader'[c]] \in Running
    OBVIOUS
  <2>1. PICK d \in Callers : Lead(d) \/ Join(d) \/ NewTrustProvider(d) \/ Step(d)
    BY DEF Next
  <2>2. Join(c)
    BY <2>1 DEF IInv, TypeOK, Lead, Join, Begin, Step, Check, NewTrustProvider, AfterError,
       Store, Finish, Share
  <2>3. pc[flight] \in Running /\ flight \in Callers
    BY <2>2 DEF IInv, TypeOK, FlightInv, Join, InFlight
  <2> QED
    BY <2>2, <2>3 DEF IInv, TypeOK, Join, Running
<1> QED
  BY <1>1, Invariance, PTL DEF Spec, NoStaleResult

-----------------------------------------------------------------------------
(* Refinement. *)

\* The steps that are no step of OnceProvider leave the answers as they are.
LEMMA AnswersKept ==
    ASSUME IInv, NEW c \in Callers,
           Lead(c) \/ Join(c) \/ Check(c) \/ NewTrustProvider(c) \/ Store(c) \/ Share(c)
    PROVE  Answered' = Answered
<1> USE LoaderAssumption
<1> SUFFICES ASSUME NEW d \in Callers PROVE Answered'[d] = Answered[d]
  BY DEF Answered
<1>1. CASE Lead(c)
  BY <1>1 DEF IInv, Lead, Begin, Answered, TypeOK, WaitInv, Running
<1>2. CASE Join(c)
  BY <1>2 DEF IInv, Join, Begin, InFlight, Answered, TypeOK, FlightInv, WaitInv, Running
<1>3. CASE Check(c)
  BY <1>3 DEF IInv, Check, Answered, TypeOK, WaitInv, Running
<1>4. CASE NewTrustProvider(c)
  BY <1>4 DEF IInv, NewTrustProvider, AfterError, Answered, TypeOK, WaitInv, Running
<1>5. CASE Store(c)
  BY <1>5 DEF IInv, Store, Answered, TypeOK, WaitInv, Running
<1>6. CASE Share(c)
  BY <1>6 DEF IInv, Share, Woken, Answered, TypeOK, WaitInv, Running
<1> QED
  BY <1>1, <1>2, <1>3, <1>4, <1>5, <1>6

\* When a leader is done, it and the calls that wait for it are answered.
LEMMA FinishAnswers ==
    ASSUME IInv, NEW c \in Callers, Finish(c)
    PROVE  Once!Answer
<1> USE LoaderAssumption
<1> DEFINE S == {c} \cup {d \in Callers : pc[d] = "wait" /\ leader[d] = c}
<1>1. S \in SUBSET {d \in Callers : Answered[d] = None}
  BY DEF IInv, Finish, Answered, AnswerInv, Running
<1>2. val[c] = IF tp = None THEN Error ELSE tp
  BY DEF IInv, Finish, RunInv
<1>3. ASSUME NEW d \in Callers
      PROVE  Answered'[d] = IF d \notin S THEN Answered[d]
                            ELSE IF tp = None THEN Error ELSE tp
  BY <1>2 DEF IInv, Finish, Answered, TypeOK, WaitInv, Running
<1>4. Answered' = [d \in Callers |-> IF d \notin S THEN Answered[d]
                                     ELSE IF tp = None THEN Error ELSE tp]
  BY <1>3 DEF Answered
<1>5. UNCHANGED tp
  BY DEF Finish
<1> QED
  BY <1>1, <1>4, <1>5 DEF Once!Answer

\* loadTrustProvider implements OnceProvider, for any number of concurrent calls:
\* one provider is made and kept, and every call is answered with it, or with an
\* error while there is none.
THEOREM LoaderImplementsOnce == Spec => ImplementsOnce
<1>1. Init => Once!Init
  BY DEF Init, Once!Init, Answered
<1>2. IInv /\ [Next]_vars => [Once!Make \/ Once!Answer]_<<tp, Answered>>
  <2> SUFFICES ASSUME IInv, [Next]_vars
               PROVE  Once!Make \/ Once!Answer \/ UNCHANGED <<tp, Answered>>
    OBVIOUS
  <2>1. CASE UNCHANGED vars
    BY <2>1 DEF vars, Answered
  <2>2. ASSUME NEW c \in Callers,
               Lead(c) \/ Join(c) \/ Check(c) \/ NewTrustProvider(c) \/ Share(c)
        PROVE  UNCHANGED <<tp, Answered>>
    BY <2>2, AnswersKept DEF Lead, Join, Begin, Check, NewTrustProvider, Share
  <2>3. ASSUME NEW c \in Callers, Store(c)
        PROVE  Once!Make
    BY <2>3, AnswersKept DEF Once!Make, Store, Stored, IInv, RunInv
  <2>4. ASSUME NEW c \in Callers, Finish(c)
        PROVE  Once!Answer
    BY <2>4, FinishAnswers
  <2> QED
    BY <2>1, <2>2, <2>3, <2>4 DEF Next, Step
<1> QED
  BY <1>1, <1>2, Invariance, PTL DEF Spec, ImplementsOnce, Once!Spec
=============================================================================
