--------------------------- MODULE MemoisedPromise ---------------------------
(***************************************************************************)
(* What a promise that is kept in a variable means for those who ask for   *)
(* it: envPromise in src/auth/envDetect.ts, which clear() forgets, and     *)
(* _getDefaultProjectIdPromise in src/auth/googleauth.ts, which nothing    *)
(* does.  From one time it is forgotten to the next it ends once, well or  *)
(* badly, and whoever has asked meanwhile is told what it ended with, and  *)
(* nothing else ever.                                                      *)
(***************************************************************************)
EXTENDS Naturals

CONSTANTS Caller, Result, None

VARIABLES
  epoch,   \* how often the promise has been forgotten
  asked,   \* the epoch in which each caller asked, or None
  ended,   \* the epochs whose promise has ended, each with its result
  told     \* the result that each caller was told, or None

vars == <<epoch, asked, ended, told>>

(* The result of the first promise may be known beforehand.                *)
Init ==
  /\ epoch = 0
  /\ asked = [c \in Caller |-> None]
  /\ ended \in {{}} \union {{<<0, r>>} : r \in Result}
  /\ told = [c \in Caller |-> None]

Forget == epoch' = epoch + 1 /\ UNCHANGED <<asked, ended, told>>

Ask(c) == asked[c] = None /\ asked' = [asked EXCEPT ![c] = epoch]

(* A promise may end in the step that makes it, and after it is forgotten. *)
End(e, r) ==
  /\ \A q \in Result : <<e, q>> \notin ended
  /\ ended' = ended \union {<<e, r>>}

(* Any callers may be told what the promise they asked for ended with.     *)
Tell ==
  /\ told' = [c \in Caller |-> told'[c]]
  /\ \A c \in Caller : told'[c] # told[c] =>
       told[c] = None /\ <<asked'[c], told'[c]>> \in ended'

Next ==
  \/ Forget
  \/ /\ UNCHANGED epoch
     /\ UNCHANGED asked \/ \E c \in Caller : Ask(c)
     /\ UNCHANGED ended \/ \E e \in 0..epoch, r \in Result : End(e, r)
     /\ Tell

Spec == Init /\ [][Next]_vars
=============================================================================
