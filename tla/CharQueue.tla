----------------------------- MODULE CharQueue ------------------------------
(***************************************************************************)
(* What the shell may expect of the keyboard driver: characters come out   *)
(* in the order in which they were typed, each once, and one is lost only  *)
(* when Capacity others are waiting.                                       *)
(***************************************************************************)
EXTENDS Naturals

CONSTANTS Chars, Capacity

VARIABLES
    queue,   \* the characters waiting: a function on 0 .. n-1, oldest first
    size,    \* n
    taken,   \* the last one taken
    beat     \* flips whenever a character is typed, lost or not

qvars == <<queue, size, taken, beat>>

Init == /\ size = 0 /\ queue = [k \in 0 .. (size - 1) |-> taken]
        /\ taken \in Chars
        /\ beat = FALSE

Type(c) == /\ beat' = ~beat
           /\ IF size < Capacity
              THEN /\ size' = size + 1
                   /\ queue' = [k \in 0 .. size |->
                                  IF k = size THEN c ELSE queue[k]]
              ELSE UNCHANGED <<queue, size>>
           /\ UNCHANGED taken

Take == /\ size > 0
        /\ taken' = queue[0]
        /\ size' = size - 1
        /\ queue' = [k \in 0 .. (size - 2) |-> queue[k + 1]]
        /\ UNCHANGED beat

Next == Take \/ \E c \in Chars : Type(c)

Spec == Init /\ [][Next]_qvars
=============================================================================
