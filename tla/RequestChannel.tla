--------------------------- MODULE RequestChannel ---------------------------
(***************************************************************************)
(* What a crossing to the DDR3 island promises its user, whatever clocks   *)
(* and synchronisers it is made of: one request at a time, each accepted   *)
(* by the memory exactly once, the answer handed over at most once and     *)
(* only to a user that still wants it, and no new request before the old   *)
(* one has been answered, wanted or not.                                   *)
(***************************************************************************)
EXTENDS Naturals

CONSTANTS Request, None

VARIABLES phase,     \* where the request is
          request,   \* the request, meaningful while phase # "idle"
          wanted,    \* 1 while the user still waits for the answer
          delivered  \* the last answer handed over, named by its request

cvars == <<phase, request, wanted, delivered>>

Init ==
    phase = "idle" /\ request = None /\ wanted = 0 /\ delivered = None

\* the user asks
Ask(r) ==
    /\ phase = "idle"
    /\ phase' = "asked" /\ request' = r /\ wanted' = 1
    /\ UNCHANGED delivered

\* the memory takes the request
Accept ==
    /\ phase = "asked" /\ phase' = "accepted"
    /\ UNCHANGED <<request, wanted, delivered>>

\* the memory answers; an answer nobody wants ends the exchange
Answer ==
    /\ phase = "accepted"
    /\ phase' = IF wanted = 1 THEN "answered" ELSE "idle"
    /\ UNCHANGED <<request, wanted, delivered>>

Deliver ==
    /\ phase = "answered" /\ wanted = 1
    /\ delivered' = request /\ wanted' = 0 /\ phase' = "idle"
    /\ UNCHANGED request

\* the user is reset: it loses the answer, the memory still owes it
Abandon ==
    /\ wanted = 1 /\ wanted' = 0
    /\ phase' = IF phase = "answered" THEN "idle" ELSE phase
    /\ UNCHANGED <<request, delivered>>

Next == Accept \/ Answer \/ Deliver \/ Abandon \/ \E r \in Request : Ask(r)

Spec == Init /\ [][Next]_cvars

\* a request, abandoned or not, comes to its end
LiveSpec == Spec /\ WF_cvars(Accept) /\ WF_cvars(Answer) /\ WF_cvars(Deliver)
=============================================================================
