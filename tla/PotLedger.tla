----------------------------- MODULE PotLedger -----------------------------
(***************************************************************************)
(* What packages/api/src/hunt.ts promises about money: every round is        *)
(* settled at most once, and what it adds to the pot is either paid out, all *)
(* of it, or carried forward, all of it.                                    *)
(***************************************************************************)
EXTENDS Naturals

VARIABLES done,      \* rounds that have been settled
          carried,   \* the pot that rolls forward
          paidOut    \* everything paid to forecasters so far

lvars == <<done, carried, paidOut>>

LInit == done = {} /\ carried = 0 /\ paidOut = 0

(* One more round is settled, and never again. *)
SettleOne == \E r \in done' \ done : done' = done \cup {r}

Carry == /\ SettleOne
         /\ carried' >= carried
         /\ UNCHANGED paidOut

Pay == /\ SettleOne
       /\ paidOut' >= paidOut + carried
       /\ carried' = 0

LNext == Carry \/ Pay

LSpec == LInit /\ [][LNext]_lvars
=============================================================================
