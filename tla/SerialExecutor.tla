--------------------------- MODULE SerialExecutor ---------------------------
(***************************************************************************)
(* What packages/venue/src/txqueue.ts promises its callers, without nonces, *)
(* retries or timeouts: intents are accepted once, executed one at a time   *)
(* in the order they were accepted, and each gets exactly one answer.       *)
(***************************************************************************)
EXTENDS Naturals, Sequences

CONSTANT Ids            \* clientOrderIds

VARIABLES line,         \* every id accepted so far, in submission order
          status        \* [Ids -> Status]

avars == <<line, status>>

Settled == {"ok", "failed"}
Status  == {"new", "waiting", "running"} \cup Settled

AInit == /\ line = <<>>
         /\ status = [id \in Ids |-> "new"]

(* A first submission joins the end of the line; a repeat changes nothing. *)
Accept(id) == /\ status[id] = "new"
              /\ line' = Append(line, id)
              /\ status' = [status EXCEPT ![id] = "waiting"]

(* An intent starts only when everything accepted before it is answered. *)
Start(i) == /\ status[line[i]] = "waiting"
            /\ \A j \in 1 .. i - 1 : status[line[j]] \in Settled
            /\ status' = [status EXCEPT ![line[i]] = "running"]
            /\ UNCHANGED line

Answer(id, outcome) == /\ status[id] = "running"
                       /\ status' = [status EXCEPT ![id] = outcome]
                       /\ UNCHANGED line

Advance == \/ \E i \in DOMAIN line : Start(i)
           \/ \E id \in Ids, outcome \in Settled : Answer(id, outcome)

ANext == (\E id \in Ids : Accept(id)) \/ Advance

ASafe == AInit /\ [][ANext]_avars

(* One stuck intent must not stop the ones behind it. *)
ASpec == ASafe /\ WF_avars(Advance)
=============================================================================
