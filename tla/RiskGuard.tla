----------------------------- MODULE RiskGuard -----------------------------
(***************************************************************************)
(* RiskGuard (packages/core/src/risk.ts): the last gate before an order      *)
(* leaves the process.  Its methods are synchronous, so each is one step of  *)
(* whoever calls it; Engine composes them with their callers.               *)
(*                                                                          *)
(* Contracts are integers, + for YES and - for NO; an order is the change it *)
(* would make.  Two rules are left out: the session stop, to which nothing   *)
(* in production reports realized PnL, and the notional cap, which the sizer *)
(* has already applied to the same price.                                   *)
(***************************************************************************)
EXTENDS RiskConfig, Sequences, SequencesExt

VARIABLES
  killSwitch,
  net,         \* [Markets -> contracts], from the fills reported
  lastFill,    \* [Markets -> time of the fill reported last]
  placements   \* timestamps of recent placements, in the order they were made

guardVars == <<killSwitch, net, lastFill, placements>>

Abs(n) == IF n < 0 THEN -n ELSE n

(* No fill yet: a time no cooldown reaches back to. *)
NoFill == -Cooldown

GuardTypeOK == /\ killSwitch \in BOOLEAN
               /\ net \in [Markets -> Int]
               /\ lastFill \in [Markets -> Int]
               /\ placements \in Seq(Nat)
               /\ Len(placements) <= MaxOrders

(* The configuration may start the agent halted. *)
GuardInit == /\ killSwitch \in BOOLEAN
             /\ net = [m \in Markets |-> 0]
             /\ lastFill = [m \in Markets |-> NoFill]
             /\ placements = <<>>

-----------------------------------------------------------------------------
(* kill() and unkill(). *)
SetKill(on) == /\ killSwitch' = on
               /\ UNCHANGED <<net, lastFill, placements>>

(* onFill(): the fill reported last sets the time, be it newer or older. *)
GuardFill(m, qty, ts) == /\ net' = [net EXCEPT ![m] = @ + qty]
                         /\ lastFill' = [lastFill EXCEPT ![m] = ts]
                         /\ UNCHANGED <<killSwitch, placements>>

(* prune(): placements go from the front, up to the first inside the window. *)
Pruned(ts) == LET first == SelectInSeq(placements, LAMBDA p : p > ts - Window)
              IN IF first = 0 THEN <<>> ELSE SubSeq(placements, first, Len(placements))

(* The rules of check(), in its order; the rate is read after a prune. *)
Halted == killSwitch

CoolingDown(m, ts) == ts - lastFill[m] < Cooldown

(* Mutant of TooMany: the order to come is not counted. *)
TooManyByOne(ts) == Len(Pruned(ts)) > MaxOrders

TooMany(ts) == Len(Pruned(ts)) >= MaxOrders

Reducing(m, delta) == Abs(net[m] + delta) < Abs(net[m])

(* Mutant of OverCaps: the cap is put on YES positions only. *)
OverCapsOneWay(m, delta) == ~Reducing(m, delta) /\ net[m] + delta > MaxNet

OverCaps(m, delta) ==
  LET after == [net EXCEPT ![m] = @ + delta]
  IN /\ ~Reducing(m, delta)
     /\ \/ Abs(after[m]) > MaxNet
        \/ SumFunction([x \in Markets |-> Abs(after[x])]) > MaxGross

(* Mutant of Denied: the kill switch is read where the signal is. *)
DeniedUnlessHalted(m, delta, ts) == CoolingDown(m, ts) \/ TooMany(ts) \/ OverCaps(m, delta)

Denied(m, delta, ts) == \/ Halted
                        \/ CoolingDown(m, ts)
                        \/ TooMany(ts)
                        \/ OverCaps(m, delta)

(* check() that denies: past the first two rules it has pruned. *)
Deny(m, delta, ts) == /\ Denied(m, delta, ts)
                      /\ placements' = IF Halted \/ CoolingDown(m, ts)
                                       THEN placements ELSE Pruned(ts)
                      /\ UNCHANGED <<killSwitch, net, lastFill>>

(* check() that permits, and the onOrderPlaced() its caller makes at once.   *)
(* The second prune, with the same time, finds nothing more to drop.        *)
Permit(m, delta, ts) == /\ ~Denied(m, delta, ts)
                        /\ placements' = Append(Pruned(ts), ts)
                        /\ UNCHANGED <<killSwitch, net, lastFill>>
=============================================================================
