----------------------------- MODULE HaltSwitch -----------------------------
(***************************************************************************)
(* What the kill switch promises: from the moment it is on no order is       *)
(* decided, and whatever was decided before comes to its end.  It does not   *)
(* promise that an order decided before it is not signed after it.          *)
(***************************************************************************)
CONSTANT Orders

VARIABLES halted,    \* the switch
          stage      \* [Orders -> Stage]

hvars == <<halted, stage>>

Stage == {"none", "decided", "signed", "over"}

Init == /\ halted \in BOOLEAN
        /\ stage = [o \in Orders |-> "none"]

Switch == /\ halted' \in BOOLEAN
          /\ UNCHANGED stage

Advance(o, from, to) == /\ stage[o] = from
                        /\ stage' = [stage EXCEPT ![o] = to]
                        /\ UNCHANGED halted

Decide(o) == ~halted /\ Advance(o, "none", "decided")

Sign(o) == Advance(o, "decided", "signed")

End(o) == Advance(o, "decided", "over") \/ Advance(o, "signed", "over")

Next == Switch \/ \E o \in Orders : Decide(o) \/ Sign(o) \/ End(o)

HSafe == Init /\ [][Next]_hvars

HSpec == HSafe /\ \A o \in Orders : WF_hvars(End(o))
=============================================================================
