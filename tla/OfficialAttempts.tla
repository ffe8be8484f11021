-------------------------- MODULE OfficialAttempts ---------------------------
(***************************************************************************)
(* What an exam promises its students, whatever requests run at once: one  *)
(* attempt in progress at a time, no more attempts than the exam allows,   *)
(* and a submission that is one indivisible event, ranked against those    *)
(* that came before it and never touched again.                            *)
(*                                                                         *)
(* There is no request, no lock and no clock here.  Module ExamAttempt,    *)
(* which has them, is shown to implement this one.                         *)
(***************************************************************************)
EXTENDS Integers, FiniteSets

CONSTANTS
    Students, NoStudent,
    Rows,          \* identities of attempts
    Points,        \* the scores an attempt may reach
    MaxAttempts    \* attempts the exam allows each student

VARIABLES
    owner, number, status,  \* whose attempt, its number, how far it is
    result                  \* points, rank, size of the pool

vars == <<owner, number, status, result>>

Taken(s) == {r \in Rows : status[r] # "none" /\ owner[r] = s}
Running(s) == {r \in Taken(s) : status[r] = "in_progress"}
Submitted == {r \in Rows : status[r] = "submitted"}

\* Rank one has nobody ahead.
Ranking(points) ==
    [points |-> points,
     rank |-> Cardinality({r \in Submitted : result[r].points > points}) + 1,
     total |-> Cardinality(Submitted) + 1]

Unused == [points |-> 0, rank |-> 0, total |-> 0]

Init ==
    /\ owner = [r \in Rows |-> NoStudent]
    /\ number = [r \in Rows |-> 0]
    /\ status = [r \in Rows |-> "none"]
    /\ result = [r \in Rows |-> Unused]

\* A student with no attempt in progress and one to spare begins the next.
Begin(s, r) ==
    /\ status[r] = "none"
    /\ Running(s) = {} /\ Cardinality(Taken(s)) < MaxAttempts
    /\ owner' = [owner EXCEPT ![r] = s]
    /\ number' = [number EXCEPT ![r] = Cardinality(Taken(s)) + 1]
    /\ status' = [status EXCEPT ![r] = "in_progress"]
    /\ UNCHANGED result

Submit(r) ==
    /\ status[r] = "in_progress"
    /\ status' = [status EXCEPT ![r] = "submitted"]
    /\ \E p \in Points : result' = [result EXCEPT ![r] = Ranking(p)]
    /\ UNCHANGED <<owner, number>>

\* A start that finds an attempt whose time is over submits it first.
SubmitAndBegin(s, old, r) ==
    /\ status[r] = "none"
    /\ Running(s) \subseteq {old} /\ status[old] = "in_progress"
    /\ Cardinality(Taken(s)) < MaxAttempts
    /\ owner' = [owner EXCEPT ![r] = s]
    /\ number' = [number EXCEPT ![r] = Cardinality(Taken(s)) + 1]
    /\ status' = [status EXCEPT ![old] = "submitted", ![r] = "in_progress"]
    /\ \E p \in Points : result' = [result EXCEPT ![old] = Ranking(p)]

Next ==
    \/ \E r \in Rows : Submit(r)
    \/ \E s \in Students, r \in Rows :
         Begin(s, r) \/ \E old \in Rows : SubmitAndBegin(s, old, r)

Spec == Init /\ [][Next]_vars
=============================================================================
