------------------------------- MODULE Tunnel -------------------------------
(***************************************************************************)
(* What a tunnel promises to the one who bills it: pieces of traffic are   *)
(* moved up and down, one at a time; the tunnel ends at any time, once,    *)
(* with a result that says how many were moved each way; and nothing is    *)
(* moved after that.                                                       *)
(***************************************************************************)
EXTENDS Naturals, Sequences

VARIABLES
    up, down,       \* pieces moved so far
    results         \* the results that were given: none or one

Init == up = 0 /\ down = 0 /\ results = <<>>

Running == results = <<>>

MoveUp == Running /\ up' = up + 1 /\ UNCHANGED <<down, results>>
MoveDown == Running /\ down' = down + 1 /\ UNCHANGED <<up, results>>

End ==
    /\ Running
    /\ results' = <<[up |-> up, down |-> down]>>
    /\ UNCHANGED <<up, down>>

Next == MoveUp \/ MoveDown \/ End

Spec == Init /\ [][Next]_<<up, down, results>>
=============================================================================
