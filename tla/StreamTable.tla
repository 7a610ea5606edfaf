---------------------------- MODULE StreamTable -----------------------------
(***************************************************************************)
(* What the stream editor promises about mediamtx.yml: the file is a table *)
(* from path names to their options, plus everything else in it (preamble, *)
(* comments, blank lines). A request sets one entry and, when it renames,  *)
(* drops the old one, or takes the new one back; a step drops an entry     *)
(* only for the request that asks for it. Only the operator's own save     *)
(* replaces the whole file, and only as long as the file is tidy is the    *)
(* text read as this table: nothing is promised about an untidy file.      *)
(***************************************************************************)
EXTENDS Functions

CONSTANTS
  Names, None, Requests,
  Options,   \* the options that an update renders
  Manual     \* what an operator may save, and whether it is tidy

VARIABLES table, rest, tidy, jobs

tableVars == <<table, rest, tidy, jobs>>

Same == UNCHANGED <<table, rest, tidy>>

Put(n, v) ==
  tidy =>
    /\ tidy'
    /\ UNCHANGED rest
    /\ table' = [m \in DOMAIN table \cup {n} |-> IF m = n THEN v ELSE table[m]]

Drop(n) ==
  tidy =>
    /\ tidy'
    /\ UNCHANGED rest
    /\ n \in DOMAIN table
    /\ table' = Restrict(table, DOMAIN table \ {n})

\* The request ends, or goes on at pc.
Ends(r)      == jobs'[r].pc = "idle"
GoesOn(r, pc) == jobs'[r].pc = pc /\ jobs'[r].new = jobs[r].new /\ jobs'[r].old = jobs[r].old

Ask(r) == jobs[r].pc = "idle" /\ jobs'[r].pc = "set" /\ Same

Set(r) ==
  /\ jobs[r].pc = "set"
  /\ IF jobs[r].old \in {None, jobs[r].new} THEN Ends(r) ELSE GoesOn(r, "delete")
  /\ Put(jobs[r].new, Options[jobs[r].update])

DropOld(r) == jobs[r].pc = "delete" /\ Ends(r) /\ Drop(jobs[r].old)

\* The entry could not be dropped; the new one is taken back, if that succeeds.
GiveUp(r) == jobs[r].pc = "delete" /\ GoesOn(r, "undo") /\ Same
Undo(r)   == jobs[r].pc = "undo" /\ Ends(r) /\ (Same \/ Drop(jobs[r].new))

Fail(r) == jobs[r].pc = "set" /\ Ends(r) /\ Same

Step(r) ==
  /\ \A q \in Requests \ {r} : jobs'[q] = jobs[q]
  /\ Ask(r) \/ Set(r) \/ DropOld(r) \/ GiveUp(r) \/ Undo(r) \/ Fail(r)

Delete(n) == UNCHANGED jobs /\ Drop(n)

Rewrite == UNCHANGED jobs /\ <<table', rest', tidy'>> \in Manual

Die == (\A r \in Requests : Ends(r)) /\ Same

TableInit ==
  /\ <<table, rest, tidy>> \in Manual
  /\ \A r \in Requests : jobs[r].pc = "idle"
TableNext ==
  \/ \E r \in Requests : Step(r)
  \/ \E n \in Names : Delete(n)
  \/ Rewrite \/ Die

TableSpec == TableInit /\ [][TableNext]_tableVars

=============================================================================
