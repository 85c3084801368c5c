------------------------------ MODULE FrameSet ------------------------------
(***************************************************************************)
(* What the page allocator promises: a frame has one holder at a time, a   *)
(* grant is a run of consecutive frames nobody holds, and a single frame   *)
(* is refused only when none is left.  PageFrames implements this with a   *)
(* list.                                                                   *)
(***************************************************************************)
EXTENDS Naturals

CONSTANTS Frames,   \* the frame numbers of the RAM the allocator was given
          Users     \* who may hold one

VARIABLE holder     \* per frame: its holder, or "pmm"

Init == holder = [f \in Frames |-> "pmm"]

IsFree(f) == holder[f] = "pmm"

\* u gets the frames from lo to hi.
Grant(u, lo, hi) ==
    /\ lo <= hi /\ lo .. hi \subseteq Frames
    /\ \A f \in lo .. hi : IsFree(f)
    /\ holder' = [f \in Frames |-> IF f \in lo .. hi THEN u ELSE holder[f]]

\* Two separate grants of one frame, and their return.
GrantPair(u, f, g) ==
    /\ f # g /\ IsFree(f) /\ IsFree(g)
    /\ holder' = [holder EXCEPT ![f] = u, ![g] = u]

Return(u) ==
    holder' = [f \in Frames |-> IF holder[f] = u THEN "pmm" ELSE holder[f]]

Next == \/ \E u \in Users, lo, hi \in Frames : Grant(u, lo, hi)
        \/ \E u \in Users, f, g \in Frames : GrantPair(u, f, g)
        \/ \E u \in Users : Return(u)

Spec == Init /\ [][Next]_holder
=============================================================================
