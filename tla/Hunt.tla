-------------------------------- MODULE Hunt --------------------------------
(***************************************************************************)
(* HuntService (packages/api/src/hunt.ts): one current round, its pot, and   *)
(* the settlements made so far.  The methods are synchronous, so each is one *)
(* step of whoever calls it; Rounds composes them with their callers.       *)
(*                                                                          *)
(* Dollars are integers.  Brier scores are left out: a pot is paid out if    *)
(* any forecast of the round scored (topN is at least 1), else it rolls on.  *)
(***************************************************************************)
EXTENDS Integers, Sequences, FiniteSets

CONSTANTS
  Markets,
  Stamped      \* the outcomes carry the id of the round that asks for them

ASSUME HuntAssumption == Stamped \in BOOLEAN

VARIABLES      \* this.current
  index,       \* its id; rounds are numbered from 1, 0 is "no round yet"
  status,      \* its status, "NONE" before the first round
  marketIds,   \* the markets it covers
  miraPnlUsd   \* MIRA's PnL as recorded on it

VARIABLES
  rollover,    \* the unclaimed pot
  totalPaid,   \* stats.totalPaidUsd
  settled,     \* roundId -> Settlement
  journal      \* the round ids of the settlement records, in journal order

huntVars == <<index, status, marketIds, miraPnlUsd, rollover, totalPaid, settled, journal>>

Status   == {"NONE", "OPEN", "SCORING", "SETTLED"}
Forecast == [marketId : Markets, roundId : Nat]

(* The record settle makes, with the arguments it was called with. *)
Settlement == [miraPnlUsd : Int, potUsd : Nat, forecasts : SUBSET Forecast,
               outcomes : SUBSET Markets, scored : SUBSET Forecast]

HuntTypeOK == /\ index \in Nat
              /\ status \in Status
              /\ marketIds \in SUBSET Markets
              /\ miraPnlUsd \in Int
              /\ rollover \in Nat
              /\ totalPaid \in Nat
              /\ DOMAIN settled \in SUBSET Nat
              /\ settled \in [DOMAIN settled -> Settlement]
              /\ journal \in Seq(Nat)

HuntInit == /\ index = 0
            /\ status = "NONE"
            /\ marketIds = {}
            /\ miraPnlUsd = 0
            /\ rollover = 0
            /\ totalPaid = 0
            /\ settled = [r \in {} |-> 0]
            /\ journal = <<>>

-----------------------------------------------------------------------------
(* open(): its only caller has just seen that no round is OPEN, so there is  *)
(* never one to close first.                                                *)
Open(ms) == /\ index' = index + 1
            /\ status' = "OPEN"
            /\ marketIds' = ms
            /\ miraPnlUsd' = 0
            /\ UNCHANGED <<rollover, totalPaid, settled, journal>>

(* closeForScoring(pnl) of a round that is OPEN. *)
Close(pnl) == /\ status = "OPEN"
              /\ status' = "SCORING"
              /\ miraPnlUsd' = pnl
              /\ UNCHANGED <<index, marketIds, rollover, totalPaid, settled, journal>>

(* rankRound(): a forecast counts if an outcome for its market carries this  *)
(* round's id.                                                              *)
Scored(fs, outcomes) == IF Stamped THEN {f \in fs : f.marketId \in outcomes} ELSE {}

Earned(pnl) == IF pnl > 0 THEN pnl ELSE 0

(* Mutant of PayOrCarry: the pot is paid and stays. *)
PayAndKeep(pot, anyone) == IF anyone /\ pot > 0
                           THEN totalPaid' = totalPaid + pot /\ UNCHANGED rollover
                           ELSE rollover' = pot /\ UNCHANGED totalPaid

(* The pot goes to the scored forecasters, or rolls forward. *)
PayOrCarry(pot, anyone) == IF anyone /\ pot > 0
                           THEN totalPaid' = totalPaid + pot /\ rollover' = 0
                           ELSE rollover' = pot /\ UNCHANGED totalPaid

(* Mutant of MarkSettled: whichever round is current is marked. *)
MarkCurrent(r) == status' = "SETTLED"

MarkSettled(r) == status' = IF index = r THEN "SETTLED" ELSE status

(* settle() of a round that has no settlement yet.  The PnL is the CURRENT   *)
(* round's, whichever round is being settled.                               *)
SettleNew(r, fs, outcomes) ==
  LET new == [miraPnlUsd |-> miraPnlUsd, potUsd |-> Earned(miraPnlUsd) + rollover,
              forecasts |-> fs, outcomes |-> outcomes, scored |-> Scored(fs, outcomes)]
  IN /\ PayOrCarry(new.potUsd, new.scored # {})
     /\ settled' = [x \in DOMAIN settled \cup {r} |-> IF x = r THEN new ELSE settled[x]]
     /\ MarkSettled(r)
     /\ UNCHANGED <<index, marketIds, miraPnlUsd>>

(* Mutant of Settle: not idempotent, a repeat is settled afresh. *)
SettleAgain(r, fs, outcomes) == /\ journal' = journal \o <<r, r>>
                                /\ SettleNew(r, fs, outcomes)

(* settle() and, in the same step, its caller's onSettle.  The server gives  *)
(* the journal hook to HuntService (a first settlement) and calls it again   *)
(* itself with whatever settle returned.                                    *)
Settle(r, fs, outcomes) ==
  IF r \in DOMAIN settled
  THEN /\ journal' = Append(journal, r)
       /\ UNCHANGED <<index, status, marketIds, miraPnlUsd, rollover, totalPaid, settled>>
  ELSE /\ journal' = journal \o <<r, r>>
       /\ SettleNew(r, fs, outcomes)
=============================================================================
