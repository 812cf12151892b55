----------------------------- MODULE TicketLine -----------------------------
(***************************************************************************)
(* What a fair lock promises: threads queue up in a line, the first of the *)
(* line may enter, and nobody else is inside.                              *)
(***************************************************************************)
EXTENDS Sequences

CONSTANT Procs

VARIABLES line,    \* the threads that hold or wait for the lock, in order
          inside   \* the threads that have it

Init == line = <<>> /\ inside = {}

Join(p) ==
    /\ \A i \in DOMAIN line : line[i] # p
    /\ line' = Append(line, p)
    /\ UNCHANGED inside

Enter(p) ==
    /\ line # <<>> /\ Head(line) = p
    /\ inside' = inside \cup {p}
    /\ UNCHANGED line

(* Joining a line that is empty gives the lock at once.                    *)
JoinAndEnter(p) ==
    /\ line = <<>> /\ inside = {}
    /\ line' = <<p>>
    /\ inside' = {p}

Leave(p) ==
    /\ p \in inside
    /\ line' = Tail(line)
    /\ inside' = inside \ {p}

Next == \E p \in Procs : Join(p) \/ Enter(p) \/ JoinAndEnter(p) \/ Leave(p)

Spec == Init /\ [][Next]_<<line, inside>>
=============================================================================
