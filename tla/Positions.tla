----------------------------- MODULE Positions -----------------------------
(***************************************************************************)
(* The copies of a position and how they are brought back to the chain's:    *)
(* passes of the Reconciler (packages/venue/src/reconciler.ts) over the      *)
(* venue's positions(), which reads one balance after the other, with the    *)
(* wiring of main.ts.  An interval starts a pass whether or not the last one *)
(* has ended, and fills are reported to the engine in between.              *)
(*                                                                          *)
(* Contracts are integers, + for YES and - for NO.                          *)
(***************************************************************************)
EXTENDS Integers

CONSTANTS
  Markets,
  Passes,      \* passes that may be under way at once
  Marks,       \* marks a quote may give; 0.5 where there is none
  Held,        \* positions the account may hold at first
  Sizes,       \* signed sizes of a match
  MaxMatches,  \* bound of the model: matches of a market
  MaxFailures  \* bound of the model: venue reads that fail

ASSUME PositionsAssumption == /\ Marks \subseteq Nat \ {0}
                              /\ Held \subseteq Int
                              /\ Sizes \subseteq Int
                              /\ MaxMatches \in Nat
                              /\ MaxFailures \in Nat

VARIABLES
  chain,       \* [Markets -> contracts]: the balances on the chain
  listed,      \* the markets getMarkets() lists, from its cache or the indexer
  known,       \* main.ts: positions as the reconciler left them
  engineNet,   \* [Markets -> contracts]: Engine.netByMarket, 0 where absent
  reports,     \* fills that may yet be reported to the engine
  pass,        \* [Passes -> Pass]
  failures     \* venue reads that have failed

(* History, for stating properties only. *)
VARIABLES
  matches,     \* [Markets -> matches so far], which dates a balance
  asOf,        \* [Markets -> the date of the balance `known` reflects]
  overtaken    \* passes during which another pass ended

historyVars == <<matches, asOf, overtaken>>
vars == <<chain, listed, known, engineNet, reports, pass, failures, historyVars>>

Position == [market : Markets, net : Int, avg : Marks]

(* What positions() holds at its awaits: `out` so far and the markets it has *)
(* yet to read.  `missed` and `dates` are history: reads that failed, and    *)
(* how old the others are.                                                  *)
Pass == [pc : {"idle", "listing", "reading"}, todo : SUBSET Markets,
         out : SUBSET Position, missed : SUBSET Markets, dates : [Markets -> Int]]

Report == [market : Markets, match : Nat, qty : Int, by : {"receipt", "poll"}]

NotRead == -1

Idle == [pc |-> "idle", todo |-> {}, out |-> {}, missed |-> {},
         dates |-> [m \in Markets |-> NotRead]]

TypeOK == /\ chain \in [Markets -> Int]
          /\ listed \in SUBSET Markets
          /\ known \in SUBSET Position
          /\ engineNet \in [Markets -> Int]
          /\ reports \in SUBSET Report
          /\ pass \in [Passes -> Pass]
          /\ failures \in Nat
          /\ matches \in [Markets -> Nat]
          /\ asOf \in [Markets -> Nat]
          /\ overtaken \in SUBSET Passes

Init == /\ chain \in [Markets -> Held]
        /\ listed = Markets
        /\ known = {}
        /\ engineNet = [m \in Markets |-> 0]
        /\ reports = {}
        /\ pass = [p \in Passes |-> Idle]
        /\ failures = 0
        /\ matches = [m \in Markets |-> 0]
        /\ asOf = [m \in Markets |-> 0]
        /\ overtaken = {}

-----------------------------------------------------------------------------
GoOn(p, to) == pass' = [pass EXCEPT ![p] = to]

(* reconcile() up to the first await of positions(). *)
Start(p) == /\ pass[p].pc = "idle"
            /\ GoOn(p, [pass[p] EXCEPT !.pc = "listing"])
            /\ overtaken' = overtaken \ {p}
            /\ UNCHANGED <<chain, listed, known, engineNet, reports, failures, matches, asOf>>

(* A read of the venue may fail. *)
Fail == failures < MaxFailures /\ failures' = failures + 1

(* getMarkets().catch(() => []) *)
List(p) == /\ pass[p].pc = "listing"
           /\ \/ /\ GoOn(p, [pass[p] EXCEPT !.pc = "reading", !.todo = listed])
                 /\ UNCHANGED failures
              \/ /\ GoOn(p, [pass[p] EXCEPT !.pc = "reading", !.missed = Markets])
                 /\ Fail
           /\ UNCHANGED <<chain, listed, known, engineNet, reports, historyVars>>

(* The mid of the quote, or 0.5 without one. *)
Mark == Marks

(* One turn of the loop in positions() for a balance that is read.  Without  *)
(* tokens the market is left out; with as many YES as NO it is listed flat.  *)
(* The quote awaited next only gives the mark.                              *)
ReadBalance(p, m) ==
  /\ pass[p].pc = "reading"
  /\ m \in pass[p].todo
  /\ LET read == [pass[p] EXCEPT !.todo = @ \ {m}, !.dates = [@ EXCEPT ![m] = matches[m]]]
     IN \/ /\ chain[m] = 0
           /\ GoOn(p, read)
        \/ \E mark \in Mark :
             GoOn(p, [read EXCEPT !.out = @ \cup {[market |-> m, net |-> chain[m], avg |-> mark]}])
  /\ UNCHANGED <<chain, listed, known, engineNet, reports, failures, historyVars>>

(* The same for a balance that cannot be read: noted, and passed over. *)
SkipBalance(p, m) == /\ pass[p].pc = "reading"
                     /\ m \in pass[p].todo
                     /\ Fail
                     /\ GoOn(p, [pass[p] EXCEPT !.todo = @ \ {m}, !.missed = @ \cup {m}])
                     /\ UNCHANGED <<chain, listed, known, engineNet, reports, historyVars>>

-----------------------------------------------------------------------------
(* The positions of a list in one market: there is one or none. *)
Of(m, list) == {c \in list : c.market = m}

Net(m) == IF Of(m, known) = {} THEN 0 ELSE (CHOOSE l \in known : l.market = m).net

(* Positions of the pass that `known` does not have like this. *)
Drifted(out) == out \ known

(* Mutant of Ghosts: the positions the pass has seen. *)
GhostsSeen(out) == {l \in known : Of(l.market, out) # {} /\ l.net # 0}

(* Positions `known` has in markets the pass does not list. *)
Ghosts(out) == {l \in known : Of(l.market, out) = {} /\ l.net # 0}

(* Mutant of Correct: the engine is not told (as before adoptNet, dropNet). *)
CorrectKnown(adopted, dropped) ==
  /\ known' = adopted \cup {l \in known \ dropped : Of(l.market, adopted) = {}}
  /\ UNCHANGED engineNet

(* local.adopt and local.drop: both copies follow, known and the engine's.   *)
Correct(adopted, dropped) ==
  /\ known' = adopted \cup {l \in known \ dropped : Of(l.market, adopted) = {}}
  /\ engineNet' = [m \in Markets |->
       IF Of(m, adopted) # {} THEN (CHOOSE c \in adopted : c.market = m).net
       ELSE IF Of(m, dropped) # {} THEN 0 ELSE engineNet[m]]

(* Mutant of EndPass: the next pass goes on with the reads of this one. *)
EndPassKeepingReads(p) == GoOn(p, [pass[p] EXCEPT !.pc = "idle"])

EndPass(p) == GoOn(p, Idle)

(* The rest of reconcile(), in one step: the reads are compared with what    *)
(* `known` says by then.                                                    *)
Reconcile(p) ==
  LET out == pass[p].out
  IN /\ pass[p].pc = "reading"
     /\ pass[p].todo = {}
     /\ Correct(Drifted(out), Ghosts(out))
     /\ asOf' = [m \in Markets |-> IF pass[p].dates[m] = NotRead THEN asOf[m] ELSE pass[p].dates[m]]
     /\ overtaken' = overtaken \cup {q \in Passes \ {p} : pass[q].pc # "idle"}
     /\ EndPass(p)
     /\ UNCHANGED <<chain, listed, reports, failures, matches>>

-----------------------------------------------------------------------------
(* Engine.onFill: what is reported is added to whatever the engine has. *)
OnFill(r) == /\ engineNet' = [engineNet EXCEPT ![r.market] = @ + r.qty]
             /\ reports' = reports \ {r}
             /\ UNCHANGED <<chain, listed, known, pass, failures, historyVars>>

(* A match: one of our order as it landed is told by the receipt and by the  *)
(* poll, one of a resting order by the poll alone.  Either may never come.   *)
Match(m, qty, by) ==
  /\ matches[m] < MaxMatches
  /\ chain' = [chain EXCEPT ![m] = @ + qty]
  /\ matches' = [matches EXCEPT ![m] = @ + 1]
  /\ reports' = reports \cup {[market |-> m, match |-> matches[m], qty |-> qty, by |-> b] : b \in by}
  /\ UNCHANGED <<listed, known, engineNet, pass, failures, asOf, overtaken>>

(* A market stops trading, or is too near its expiry to be listed. *)
Unlist(m) == /\ listed' = listed \ {m}
             /\ UNCHANGED <<chain, known, engineNet, reports, pass, failures, historyVars>>

PassStep(p) == \/ Start(p) \/ List(p) \/ Reconcile(p)
               \/ \E m \in Markets : ReadBalance(p, m)

Next == \/ \E p \in Passes : \/ PassStep(p)
                             \/ \E m \in Markets : SkipBalance(p, m)
        \/ \E r \in reports : OnFill(r)
        \/ \E m \in Markets, qty \in Sizes : Match(m, qty, {"receipt", "poll"}) \/ Match(m, qty, {"poll"})
        \/ \E m \in listed : Unlist(m)

(* The interval keeps starting passes and the venue's reads settle. *)
Spec == Init /\ [][Next]_vars /\ \A p \in Passes : WF_vars(PassStep(p))

-----------------------------------------------------------------------------
(* What is known of a market never goes back to an older balance, unless a   *)
(* pass that another one overtook is the one to end (reconciler.ts:160-164). *)
NeverOlder ==
  [][\A m \in Markets : asOf'[m] < asOf[m]
       => \E p \in overtaken : pass[p].pc = "reading" /\ pass'[p].pc = "idle"]_vars

(* Once the chain rests and the reads succeed, what is known of every listed *)
(* market is the chain's position for good, whatever passes overlapped or    *)
(* failed before (reconciler.ts:1-11).                                      *)
KnownConverges == <>[](\A m \in listed : Net(m) = chain[m])

(* A pass finds something to adopt in a market. *)
Adopts(m) == \E p \in Passes : Reconcile(p) /\ Of(m, Drifted(pass[p].out)) # {}

(* In a market where passes keep finding a difference to adopt, because its  *)
(* price moves, the engine's copy converges to the chain too, however late   *)
(* or often fills were reported (main.ts:115-126).                          *)
EngineFollows == \A m \in Markets : []<><<Adopts(m)>>_vars => <>[](engineNet[m] = chain[m])

(* "On an RPC failure local state is left ENTIRELY untouched"                *)
(* (reconciler.ts:75-78): a market whose read failed keeps its position.     *)
(* The code does not keep this: see the README.                             *)
FailedReadKeepsPosition ==
  [][\A p \in Passes : Reconcile(p) =>
       \A l \in known : l.market \in pass[p].missed => l \in known']_vars
=============================================================================
