---------------------------- MODULE TrustLoader ----------------------------
(***************************************************************************)
(* verifier.go: NewVerifier and loadTrustProvider.                         *)
(*                                                                         *)
(* A Verifier makes its trust provider when it is created and, if that     *)
(* failed, again in a later verification, until it succeeds.  The field    *)
(* v.tp has no lock: it is read and written only in the function that      *)
(* singleflight runs, and a call that comes while that runs waits for it   *)
(* and shares its result.  A provider is named after the call that made it.*)
(***************************************************************************)
CONSTANTS
    Callers,    \* the calls of loadTrustProvider
    Boot,       \* the one that NewVerifier makes
    None,       \* nothing
    Error       \* the result of a call that failed

ASSUME LoaderAssumption ==
    /\ Boot \in Callers
    /\ None \notin Callers
    /\ Error \notin Callers
    /\ None # Error

VARIABLES
    pc,         \* where each call is
    flight,     \* the leader in singleflight's map
    leader,     \* the leader whose result a call waits for
    val,        \* the result of each leader
    tp,         \* v.tp
    made,       \* the providers that were made: each has its update goroutines
    ans,        \* what each call returned
    known       \* history: the calls that began after another had returned a provider

vars == <<pc, flight, leader, val, tp, made, ans, known>>

Running == {"check", "make", "store", "finish"}
Results == Callers \cup {None, Error}

\* Type correctness.
TypeOK ==
    /\ pc \in [Callers -> {"idle", "wait", "done"} \cup Running]
    /\ flight \in Callers \cup {None}
    /\ leader \in [Callers -> Callers \cup {None}]
    /\ val \in [Callers -> Results]
    /\ tp \in Callers \cup {None}
    /\ made \in SUBSET Callers
    /\ ans \in [Callers -> Results]
    /\ known \in SUBSET Callers

Init ==
    /\ pc = [c \in Callers |-> "idle"]
    /\ flight = None
    /\ leader = [c \in Callers |-> None]
    /\ val = [c \in Callers |-> None]
    /\ tp = None
    /\ made = {}
    /\ ans = [c \in Callers |-> None]
    /\ known = {}

-----------------------------------------------------------------------------
(* singleflight's Do *)

\* NewVerifier's own call ends before the Verifier can be used.
Begin(c) ==
    /\ pc[c] = "idle"
    /\ c # Boot => pc[Boot] = "done"
    /\ known' = IF \E d \in Callers : ans[d] \in Callers THEN known \cup {c} ELSE known
    /\ UNCHANGED <<val, tp, made, ans>>

\* Bug: no duplicate suppression.
InFlightNever == FALSE
InFlight == flight # None

Lead(c) ==
    /\ Begin(c)
    /\ ~InFlight
    /\ flight' = c
    /\ pc' = [pc EXCEPT ![c] = "check"]
    /\ UNCHANGED leader

Join(c) ==
    /\ Begin(c)
    /\ InFlight
    /\ leader' = [leader EXCEPT ![c] = flight]
    /\ pc' = [pc EXCEPT ![c] = "wait"]
    /\ UNCHANGED flight

\* Bug: the map keeps the leader, so that its result stays for ever.
LandedNever(c) == flight
\* The leader is taken out of the map.
Landed(c) == IF flight = c THEN None ELSE flight

\* The function has returned.
Finish(c) ==
    /\ pc[c] = "finish"
    /\ flight' = Landed(c)
    /\ ans' = [ans EXCEPT ![c] = val[c]]
    /\ pc' = [pc EXCEPT ![c] = "done"]
    /\ UNCHANGED <<leader, val, tp, made, known>>

\* Bug: a call that wakes up looks for its leader in the map.
WokenInFlight(c) == pc[leader[c]] = "done" /\ flight = leader[c]
Woken(c) == pc[leader[c]] = "done"

\* A call that waited returns, perhaps long after its leader.
Share(c) ==
    /\ pc[c] = "wait"
    /\ Woken(c)
    /\ ans' = [ans EXCEPT ![c] = val[leader[c]]]
    /\ pc' = [pc EXCEPT ![c] = "done"]
    /\ UNCHANGED <<flight, leader, val, tp, made, known>>

-----------------------------------------------------------------------------
(* The function that loadTrustProvider gives it. *)

Check(c) ==
    /\ pc[c] = "check"
    /\ \/ /\ tp # None
          /\ val' = [val EXCEPT ![c] = tp]
          /\ pc' = [pc EXCEPT ![c] = "finish"]
       \/ /\ tp = None
          /\ pc' = [pc EXCEPT ![c] = "make"]
          /\ UNCHANGED val
    /\ UNCHANGED <<flight, leader, tp, made, ans, known>>

\* Bug: the nil provider of a failure is kept.
AfterErrorStore == "store"
AfterError == "finish"

\* NewTrustProvider succeeds, with its goroutines started, or fails.
NewTrustProvider(c) ==
    /\ pc[c] = "make"
    /\ \/ /\ made' = made \cup {c}
          /\ val' = [val EXCEPT ![c] = c]
          /\ pc' = [pc EXCEPT ![c] = "store"]
       \/ /\ val' = [val EXCEPT ![c] = Error]
          /\ pc' = [pc EXCEPT ![c] = AfterError]
          /\ UNCHANGED made
    /\ UNCHANGED <<flight, leader, tp, ans, known>>

\* Bug: the provider is not kept.
StoredNever(c) == tp
Stored(c) == val[c]

Store(c) ==
    /\ pc[c] = "store"
    /\ tp' = Stored(c)
    /\ pc' = [pc EXCEPT ![c] = "finish"]
    /\ UNCHANGED <<flight, leader, val, made, ans, known>>

-----------------------------------------------------------------------------
\* The steps that wait for nobody but another call of the same Verifier.
Step(c) == Check(c) \/ Store(c) \/ Finish(c) \/ Share(c)

Next == \E c \in Callers : Lead(c) \/ Join(c) \/ NewTrustProvider(c) \/ Step(c)

Spec == Init /\ [][Next]_vars

\* A goroutine that can run does.  Nothing is assumed of NewTrustProvider: the file
\* lock is taken without a limit, and its HTTP requests have no timeout.
FairSpec == Spec /\ \A c \in Callers : WF_vars(Step(c))

-----------------------------------------------------------------------------
(* What must hold. *)

\* One Verifier makes at most one provider: a second one would update the same
\* cache directory in goroutines that nothing stops.
OneProvider == \A c, d \in made : c = d

\* The field v.tp is accessed by one goroutine at a time, without a lock of its own.
NoRace == \A c, d \in Callers : pc[c] \in Running /\ pc[d] \in Running => c = d

\* A Verifier that has once given out its provider never again fails to: a call
\* that begins after that gets it, although other calls may still be returning the
\* error of an attempt before.
OnceLoadedAlwaysLoaded == \A c \in known : ans[c] # Error

\* A call waits only for an attempt in progress: the error of an attempt that was
\* over when the call began is never its answer.
NoStaleResult ==
    [][\A c \in Callers : pc[c] = "idle" /\ pc'[c] = "wait" => pc'[leader'[c]] \in Running]_vars

\* Every call returns, its own attempt and those it waits for over, unless one
\* attempt is in NewTrustProvider for ever: then it keeps all calls that joined it.
\* Nothing else does, in particular no call that waits for one that has left.
CallReturns ==
    \/ \A c \in Callers : pc[c] \notin {"idle", "done"} ~> pc[c] = "done"
    \/ <>[](\E d \in Callers : pc[d] = "make")

\* A call is answered when its leader is done, even if it returns later.
Answered == [c \in Callers |-> IF pc[c] = "wait" /\ pc[leader[c]] = "done"
                               THEN val[leader[c]] ELSE ans[c]]
Once == INSTANCE OnceProvider WITH
    Values <- Callers, provider <- tp, answer <- Answered

\* loadTrustProvider, with its leaders, waiters and retries, implements OnceProvider.
ImplementsOnce == Once!Spec
=============================================================================
