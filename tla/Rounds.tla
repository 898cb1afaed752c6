------------------------------- MODULE Rounds -------------------------------
(***************************************************************************)
(* The round lifecycle: HuntService (Hunt) driven by RoundDriver's timer     *)
(* (packages/api/src/roundDriver.ts) and by the console's force-close, with  *)
(* the server's forecast intake and outcome reads between them               *)
(* (packages/ops/src/server.ts).                                            *)
(*                                                                          *)
(* Closing a round and settling it are separated by an awaited read of the   *)
(* outcomes; the timer, the console and the users go on meanwhile.          *)
(***************************************************************************)
EXTENDS Hunt, Functions

CONSTANTS
  Driver,      \* the timer, as a closer of rounds
  Clicks,      \* force-close requests; each is used once (bounds them)
  Pnls,        \* the values MIRA's PnL curve takes
  MaxRounds    \* bound of the model: rounds opened

ASSUME RoundsAssumption == /\ Driver \notin Clicks
                           /\ Pnls \subseteq Int
                           /\ MaxRounds \in Nat

VARIABLES
  due,         \* the clock has passed the current round's closeMs
  reads,       \* rounds closed and waiting for their outcomes, by closer
  clicked,     \* force-close requests already made
  forecasts,   \* every forecast the server accepted
  resolved,    \* markets with a winning outcome on the chain
  curve        \* the last point of the PnL curve

vars == <<huntVars, due, reads, clicked, forecasts, resolved, curve>>

(* What a closer holds across the await.  The console has its forecasts      *)
(* already, the timer looks for them afterwards.                            *)
Read == [by : Clicks \cup {Driver}, roundId : Nat, miraPnlUsd : Int, forecasts : SUBSET Forecast]

TypeOK == /\ HuntTypeOK
          /\ due \in BOOLEAN
          /\ reads \in SUBSET Read
          /\ clicked \in SUBSET Clicks
          /\ forecasts \in SUBSET Forecast
          /\ resolved \in SUBSET Markets
          /\ curve \in Int

Init == /\ HuntInit
        /\ due = FALSE
        /\ reads = {}
        /\ clicked = {}
        /\ forecasts = {}
        /\ resolved = {}
        /\ curve = 0

ForRound(r) == {f \in forecasts : f.roundId = r}

-----------------------------------------------------------------------------
(* tick() with no round OPEN: start one on markets that still trade.  A round *)
(* that is only being scored does not hold the next one up.                 *)
TickOpen == /\ status # "OPEN"
            /\ index < MaxRounds
            /\ \E ms \in SUBSET (Markets \ resolved) \ {{}} : Open(ms)
            /\ due' = FALSE
            /\ UNCHANGED <<reads, clicked, forecasts, resolved, curve>>

(* tick() with a round that is due: close it with MIRA's PnL and start       *)
(* reading the outcomes.                                                    *)
TickDue == /\ due
           /\ Close(curve)
           /\ reads' = reads \cup {[by |-> Driver, roundId |-> index, miraPnlUsd |-> curve,
                                    forecasts |-> {}]}
           /\ UNCHANGED <<due, clicked, forecasts, resolved, curve>>

(* settleRound(): closes an OPEN round without a PnL; a round that is not    *)
(* OPEN is returned as it is and settled all the same.                      *)
ForceClose(k) ==
  /\ k \notin clicked
  /\ status # "NONE"
  /\ IF status = "OPEN" THEN Close(miraPnlUsd) ELSE UNCHANGED huntVars
  /\ clicked' = clicked \cup {k}
  /\ reads' = reads \cup {[by |-> k, roundId |-> index, miraPnlUsd |-> miraPnlUsd,
                           forecasts |-> ForRound(index)]}
  /\ UNCHANGED <<due, forecasts, resolved, curve>>

(* The forecasts a read's round is settled with. *)
Considered(c) == IF c.by = Driver THEN ForRound(c.roundId) ELSE c.forecasts

(* Mutant of Answer: a round that is no longer current is not settled. *)
AnswerCurrentOnly(c) ==
  /\ IF c.roundId = index
     THEN \E outcomes \in SUBSET resolved : Settle(c.roundId, Considered(c), outcomes)
     ELSE UNCHANGED huntVars
  /\ reads' = reads \ {c}
  /\ UNCHANGED <<due, clicked, forecasts, resolved, curve>>

(* A read of the outcomes ends: it shows some of the resolved markets (it is *)
(* limited to 40 and may be old), none if the venue failed.                 *)
Answer(c) ==
  /\ \E outcomes \in SUBSET resolved : Settle(c.roundId, Considered(c), outcomes)
  /\ reads' = reads \ {c}
  /\ UNCHANGED <<due, clicked, forecasts, resolved, curve>>

(* Mutant of TakeForecast: the round the client names is believed. *)
TakeForecastForAny(m) ==
  /\ status = "OPEN"
  /\ m \in marketIds
  /\ \E r \in 1 .. index :
       forecasts' = forecasts \cup {[marketId |-> m, roundId |-> r]}
  /\ UNCHANGED <<huntVars, due, reads, clicked, resolved, curve>>

(* takeForecast(): for the open round, whatever round the client named. *)
TakeForecast(m) ==
  /\ status = "OPEN"
  /\ m \in marketIds
  /\ forecasts' = forecasts \cup {[marketId |-> m, roundId |-> index]}
  /\ UNCHANGED <<huntVars, due, reads, clicked, resolved, curve>>

-----------------------------------------------------------------------------
(* The world: the clock, the chain and MIRA's trading. *)
Expire == /\ status = "OPEN"
          /\ ~due
          /\ due' = TRUE
          /\ UNCHANGED <<huntVars, reads, clicked, forecasts, resolved, curve>>

Resolve(m) == /\ m \notin resolved
              /\ resolved' = resolved \cup {m}
              /\ UNCHANGED <<huntVars, due, reads, clicked, forecasts, curve>>

Trade(pnl) == /\ pnl # curve
              /\ curve' = pnl
              /\ UNCHANGED <<huntVars, due, reads, clicked, forecasts, resolved>>

Next == \/ TickOpen
        \/ TickDue
        \/ Expire
        \/ \E c \in reads : Answer(c)
        \/ \E k \in Clicks : ForceClose(k)
        \/ \E m \in Markets : TakeForecast(m) \/ Resolve(m)
        \/ \E pnl \in Pnls : Trade(pnl)

(* The interval keeps ticking, the clock advances and every read of the      *)
(* venue settles one way or the other.                                      *)
Fairness == WF_vars(TickDue) /\ WF_vars(Expire) /\ WF_vars(\E c \in reads : Answer(c))

Spec == Init /\ [][Next]_vars /\ Fairness

-----------------------------------------------------------------------------
(* No dollar is paid twice or lost: what the settlements on record say was   *)
(* earned has been paid or still rolls forward, with closes, force-closes    *)
(* and late reads in any order (hunt.ts:20-28).                             *)
PotConserved == SumFunction([r \in DOMAIN settled |-> Earned(settled[r].miraPnlUsd)]) = totalPaid + rollover

(* The round on display is SETTLED exactly when it has a settlement, even    *)
(* when an older round is settled after it opened (hunt.ts:214-219).        *)
DisplayMatchesSettlement == status = "SETTLED" <=> index \in DOMAIN settled

(* A settlement has considered every forecast ever accepted for its round:   *)
(* none slips in after the close (hunt.ts:124, server.ts:93-104).           *)
NoForecastLeftOut == \A r \in DOMAIN settled : settled[r].forecasts = ForRound(r)

(* Whoever closes a round, and however the reads are answered, each round is *)
(* settled once and its pot is paid or carried, whole (hunt.ts:20-28).      *)
Ledger == INSTANCE PotLedger WITH done <- DOMAIN settled,
                                  carried <- rollover, paidOut <- totalPaid

ImplementsPotLedger == Ledger!LSpec

(* Every round that opens is settled in the end (roundDriver.ts:39-61). *)
EveryRoundSettles == \A r \in 1 .. MaxRounds : index = r ~> r \in DOMAIN settled

(* "UNRESOLVED MARKETS ARE EXCLUDED" (brier.ts:13-15), and only they: a      *)
(* forecast whose market the read showed resolved is scored.                *)
(* The code does not keep this: see the README.                             *)
ResolvedForecastsScored ==
  \A r \in DOMAIN settled : \A f \in settled[r].forecasts :
    f.marketId \in settled[r].outcomes => f \in settled[r].scored

(* The pot is MIRA's PnL "for THIS round's window only" (hunt.ts:8): a round *)
(* is settled with the PnL it was closed with.                              *)
(* The code does not keep this: see the README.                             *)
SettlementUsesOwnPnl ==
  [][\A c \in reads \ reads' : settled'[c.roundId].miraPnlUsd = c.miraPnlUsd]_vars
=============================================================================
