--------------------------- MODULE RequestLedger ---------------------------
(***************************************************************************)
(* What the language features may expect of a JediProxy: a request that is *)
(* opened is settled at most once, with an answer or with undefined; a     *)
(* withdrawn request is never answered; and after an answer at most Limit  *)
(* requests are open, the oldest having been given up.                     *)
(***************************************************************************)
EXTENDS Naturals, Sequences, SequencesExt

CONSTANTS Requests, Limit, None

VARIABLES
    open,       \* the open requests, the oldest first
    withdrawn,  \* the requests their caller no longer wants
    outcome     \* outcome[r]: what r was settled with

Init ==
    /\ open = <<>>
    /\ withdrawn = {}
    /\ outcome = [r \in Requests |-> None]

\* A settled request keeps its outcome.
Abandoned(rs) ==
    [r \in Requests |-> IF r \in rs /\ outcome[r] = None THEN "undefined" ELSE outcome[r]]

Open(r) ==
    /\ outcome[r] = None
    /\ r \notin Range(open)
    /\ open' = Append(open, r)
    /\ UNCHANGED <<withdrawn, outcome>>

Withdraw(rs) ==
    /\ withdrawn' = withdrawn \union rs
    /\ UNCHANGED <<open, outcome>>

\* The request is refused before it is opened.
Refuse(r) ==
    /\ r \notin Range(open)
    /\ outcome' = Abandoned({r})
    /\ UNCHANGED <<open, withdrawn>>

Answer(i) ==
    LET rest == RemoveAt(open, i)
        excess == IF Len(rest) > Limit THEN Len(rest) - Limit ELSE 0
    IN  /\ open[i] \notin withdrawn
        /\ outcome[open[i]] = None
        /\ open' = SubSeq(rest, excess + 1, Len(rest))
        /\ outcome' = [Abandoned({rest[j] : j \in 1 .. excess})
                          EXCEPT ![open[i]] = "answer"]
        /\ UNCHANGED withdrawn

Abandon(i) ==
    /\ open[i] \in withdrawn
    /\ outcome[open[i]] = None
    /\ open' = RemoveAt(open, i)
    /\ outcome' = Abandoned({open[i]})
    /\ UNCHANGED withdrawn

AbandonAll ==
    /\ open' = <<>>
    /\ outcome' = Abandoned(Range(open))
    /\ UNCHANGED withdrawn

Next ==
    \/ \E r \in Requests : Open(r) \/ Refuse(r)
    \/ \E rs \in SUBSET Requests : Withdraw(rs)
    \/ \E i \in 1 .. Len(open) : Answer(i) \/ Abandon(i)
    \/ AbandonAll

Spec == Init /\ [][Next]_<<open, withdrawn, outcome>>
=============================================================================
