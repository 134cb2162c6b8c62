--------------------------- MODULE MessageChannel ---------------------------
(***************************************************************************)
(* What the outbound path of the device promises, without tasks, queues or *)
(* sockets: a message that was accepted may be lost, but it arrives at     *)
(* most once, and the messages that arrive over one connection arrive in   *)
(* the order they were accepted in.                                        *)
(***************************************************************************)
EXTENDS Integers, Sequences

CONSTANTS Sessions,     \* connections, one after the other
          MaxAccepted   \* bound: messages accepted

VARIABLES
  accepted,   \* number of messages accepted so far; message n is the n-th of them
  transit,    \* accepted, not yet arrived, not yet lost
  arrived     \* records [s, m]: message m arrived over connection s

chanVars == <<accepted, transit, arrived>>

Init == accepted = 0 /\ transit = {} /\ arrived = <<>>

Accept ==
  /\ accepted < MaxAccepted
  /\ accepted' = accepted + 1
  /\ transit' = transit \cup {accepted + 1}
  /\ UNCHANGED arrived

Lose ==
  /\ \E kept \in SUBSET transit : transit' = kept
  /\ UNCHANGED <<accepted, arrived>>

Arrive(s, m) ==
  /\ m \in transit
  /\ \A k \in 1..Len(arrived) : arrived[k].s = s => arrived[k].m < m
  /\ arrived' = Append(arrived, [s |-> s, m |-> m])
  /\ transit' = transit \ {m}
  /\ UNCHANGED accepted

Next == Accept \/ Lose \/ \E s \in Sessions, m \in transit : Arrive(s, m)

Spec == Init /\ [][Next]_chanVars
=============================================================================
