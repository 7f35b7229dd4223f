---------------------------- MODULE SharedRefresh ----------------------------
(***************************************************************************)
(* What refreshToken (src/auth/oauth2client.ts) promises its callers: for  *)
(* each refresh token at most one exchange runs at a time, a caller that   *)
(* asks while it runs shares it, and when it ends every sharer gets the    *)
(* same answer in the same step.  No caller is left out, and none gets the *)
(* answer of another exchange.                                             *)
(***************************************************************************)
CONSTANTS Caller, Key, None

VARIABLES
  fetching,   \* the keys whose exchange is running
  asked,      \* the key each caller waits for, or None
  answer      \* the answer a caller has been given and not taken, or None

vars == <<fetching, asked, answer>>

Init ==
  /\ fetching = {}
  /\ asked = [c \in Caller |-> None]
  /\ answer = [c \in Caller |-> None]

(* A caller may ask again in the very step in which it takes an answer.    *)
Ask(c, k) ==
  /\ asked[c] = None
  /\ asked' = [asked EXCEPT ![c] = k]
  /\ answer' = [answer EXCEPT ![c] = None]
  /\ fetching' = fetching \union {k}

Sharers(k) == {c \in Caller : asked[c] = k}

(* What one sharer is given, all of them are given.                        *)
End(k) ==
  /\ k \in fetching
  /\ fetching' = fetching \ {k}
  /\ asked' = [c \in Caller |-> IF c \in Sharers(k) THEN None ELSE asked[c]]
  /\ \E s \in Sharers(k) :
       /\ answer'[s] # None
       /\ answer' = [c \in Caller |-> IF c \in Sharers(k) THEN answer'[s]
                                                         ELSE answer[c]]

Take(c) ==
  /\ answer[c] # None
  /\ answer' = [answer EXCEPT ![c] = None]
  /\ UNCHANGED <<fetching, asked>>

Next ==
  \/ \E c \in Caller, k \in Key : Ask(c, k)
  \/ \E k \in Key : End(k)
  \/ \E c \in Caller : Take(c)

Spec == Init /\ [][Next]_vars
=============================================================================
