------------------------------ MODULE Journal ------------------------------
(***************************************************************************)
(* The decision journal (data/journal.ts) as a value and what its methods  *)
(* make of it.  A record is known by its seq.  A write that fails may have *)
(* put some lines of its batch on the disk, and a piece of the next one    *)
(* without its line end; the first line of a later write then runs into    *)
(* that piece.  So may a crash of the process.  Methods that write yield a *)
(* set: one value per outcome.                                             *)
(*                                                                         *)
(* A journal is one process's: without RUN_ID in the environment           *)
(* (shared/config.ts) each process writes a file of its own.               *)
(***************************************************************************)
EXTENDS Integers, SequencesExt

CONSTANTS
  BatchSize,    \* records buffered before they are written at once
  MaxFailures   \* bound: how many writes fail

Invalid == 0    \* a line that is not JSON

EmptyJournal ==
  [file |-> <<>>, torn |-> FALSE, buf |-> <<>>, armed |-> FALSE,
   seq |-> 0, closed |-> FALSE, failures |-> 0, died |-> FALSE]

\* The file with lines appended; a torn last line swallows the first of them.
Onto(j, lines) ==
  IF lines = <<>> THEN j.file
  ELSE j.file \o (IF j.torn THEN Tail(lines) ELSE lines)

\* appendFileSync wrote k lines, and perhaps a piece of the next.
Partly(j, k, piece) ==
  LET lines == SubSeq(j.buf, 1, k)
      still == j.torn /\ k = 0
      file  == Onto(j, lines)
  IN  [j EXCEPT !.file = IF piece /\ ~still THEN Append(file, Invalid) ELSE file,
                !.torn = piece \/ still,
                !.buf = <<>>]

\* It threw.
Failed(j, k, piece) == [Partly(j, k, piece) EXCEPT !.failures = @ + 1]

\* Mutant of Written: the batch is dropped from the buffer only once written.
WrittenKept(j) ==
  IF j.buf = <<>> THEN {j}
  ELSE {[j EXCEPT !.file = Onto(j, j.buf), !.torn = FALSE, !.buf = <<>>]}
       \cup (IF j.failures = MaxFailures THEN {}
             ELSE {[Failed(j, k, piece) EXCEPT !.buf = j.buf] :
                     k \in 0 .. Len(j.buf) - 1, piece \in BOOLEAN})

\* writeNow: the buffer is empty afterwards, whatever became of it.
Written(j) ==
  IF j.buf = <<>> THEN {j}
  ELSE {[j EXCEPT !.file = Onto(j, j.buf), !.torn = FALSE, !.buf = <<>>]}
       \cup (IF j.failures = MaxFailures THEN {}
             ELSE {Failed(j, k, piece) : k \in 0 .. Len(j.buf) - 1, piece \in BOOLEAN})

\* append: numbered even when the journal is closed, and then dropped.
Numbered(j) == [j EXCEPT !.seq = @ + 1]
Buffered(j) == [Numbered(j) EXCEPT !.buf = Append(@, Numbered(j).seq)]

Appended(j) ==
  IF j.closed THEN {Numbered(j)}
  ELSE IF Len(Buffered(j).buf) >= BatchSize THEN Written(Buffered(j))
  ELSE {[Buffered(j) EXCEPT !.armed = TRUE]}

TimerFired(j) == Written([j EXCEPT !.armed = FALSE])

Closed(j) == {[w EXCEPT !.closed = TRUE] : w \in Written([j EXCEPT !.armed = FALSE])}

\* The process dies: what it buffered is gone, or it was being written.
Cuts(j) == {c \in (0 .. Len(j.buf)) \X BOOLEAN : c[2] => c[1] < Len(j.buf)}

Died(j) == {[Partly(j, c[1], c[2]) EXCEPT !.armed = FALSE, !.died = TRUE] : c \in Cuts(j)}

-----------------------------------------------------------------------------
\* replayFile: each line in turn, with the seq the next one should have.
ReadLine(r, line) ==
  IF line = Invalid THEN [r EXCEPT !.warned = TRUE]
  ELSE [yielded |-> Append(r.yielded, line),
        expected |-> line + 1,
        warned |-> r.warned \/ line # r.expected]

\* The records it yields, and whether it warned of anything.
Replayed(file) ==
  FoldLeft(ReadLine, [yielded |-> <<>>, expected |-> 1, warned |-> FALSE], file)
=============================================================================
