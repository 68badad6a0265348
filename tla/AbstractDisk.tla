--------------------------- MODULE AbstractDisk ---------------------------
(***************************************************************************)
(* What the Amiga may expect of a drive, one command at a time: the        *)
(* sectors it asked for move in order, each from or to its own place on    *)
(* the medium, and the command ends when all of them have moved.  The      *)
(* promise lasts until the card fails.                                     *)
(***************************************************************************)
EXTENDS Integers, Sequences

CONSTANTS Requests,      \* records with at least lba, count (0: no data) 
          Place(_, _)    \* the place on the medium of a sector of the drive

VARIABLES request,       \* the command under way, or the one before
          active,        \* the Amiga waits for the command to end
          moved,         \* where the sectors moved so far came from or went
          trusted        \* the card has not failed yet

disk_vars == <<request, active, moved, trusted>>

Init == /\ request \in Requests
        /\ active = FALSE
        /\ moved = <<>>
        /\ trusted = TRUE

Ask(r) == /\ ~active
          /\ request' = r
          /\ active' = TRUE
          /\ moved' = <<>>
          /\ UNCHANGED trusted

\* The next sector of the command; the last one of a read ends it as well.
Move == /\ active
        /\ trusted
        /\ Len(moved) < request.count
        /\ moved' = Append(moved, Place(request, request.lba + Len(moved)))
        /\ active' \in {TRUE, Len(moved') < request.count}
        /\ UNCHANGED <<request, trusted>>

End == /\ active
       /\ trusted => Len(moved) = request.count
       /\ active' = FALSE
       /\ UNCHANGED <<request, moved, trusted>>

\* The card fails: from here on nothing is promised of the command under way
\* nor of those that follow.
Fail == /\ ~trusted'
        /\ UNCHANGED request

Next == Move \/ End \/ Fail \/ \E r \in Requests : Ask(r)

Spec == Init /\ [][Next]_disk_vars
===========================================================================
