---------------------------- MODULE OnceProvider ----------------------------
(***************************************************************************)
(* What verifier.go's loadTrustProvider promises to its callers: there is  *)
(* one trust provider, made once and kept; a call is answered with it, or  *)
(* with an error while it has not been made.                               *)
(***************************************************************************)
CONSTANTS
    Callers,    \* the calls of loadTrustProvider
    Values,     \* the trust providers that could be made
    None,       \* no provider, no answer yet
    Error       \* the answer of a call that failed

VARIABLES
    provider,   \* the provider that was made
    answer      \* what each call is answered

Init ==
    /\ provider = None
    /\ answer = [c \in Callers |-> None]

Make ==
    /\ provider = None
    /\ provider' \in Values
    /\ UNCHANGED answer

\* Calls that wait for the same attempt are answered together.
Answer ==
    /\ \E S \in SUBSET {c \in Callers : answer[c] = None} :
          answer' = [c \in Callers |-> IF c \notin S THEN answer[c]
                                       ELSE IF provider = None THEN Error ELSE provider]
    /\ UNCHANGED provider

Spec == Init /\ [][Make \/ Answer]_<<provider, answer>>
=============================================================================
