---------------------------- MODULE ContentProofs ----------------------------
(***************************************************************************)
(* Proofs about the two stores that administrators and tasks write at the  *)
(* same time.                                                              *)
(*                                                                         *)
(* QuestionStats: the counters of a question nobody has edited are exact   *)
(* up to the deltas on their way, for any number of students, exams and    *)
(* deliveries.  IInv adds to the two invariants that a recorded change is  *)
(* a real one and is of the only edition there is.                         *)
(*                                                                         *)
(* MediaAssets: a ready picture can be shown and an answered task leaves a *)
(* settled row, for any number of uploads, workers and variants.  MediaInv *)
(* adds what a worker in the middle of a request can rely on.              *)
(***************************************************************************)
EXTENDS QuestionStats, MediaAssets, FiniteSetTheorems, WellFoundedInduction, TLAPS

\* A change recorded for an exam moves the vote from one option to another;
\* without an edit it is of edition 0, and an attempt that is not final has
\* recorded none.
ChangesReal ==
    /\ \A q \in Questions \ edited : edition[q] = 0
    /\ \A a \in Attempts, q \in Questions :
         /\ a \notin finalized => changes[a][q] = NoChange
         /\ changes[a][q].new # NoOption => changes[a][q].new # changes[a][q].prev
         /\ q \notin edited => changes[a][q].edition = 0

IInv == TypeOK /\ ChangesReal /\ PicksExact /\ TotalExact
-----------------------------------------------------------------------------
(* Lemmas *)

LEMMA OneType == ASSUME NEW P \in BOOLEAN PROVE One(P) \in {0, 1} /\ (P => One(P) = 1) /\ (~P => One(P) = 0)
  BY DEF One

\* Two finite sets that differ in at most one element differ in size by what
\* that element makes.
LEMMA CardinalityMoved ==
    ASSUME NEW S, IsFiniteSet(S), NEW T, NEW x, \A y : y # x => (y \in S <=> y \in T)
    PROVE  /\ IsFiniteSet(T) /\ Cardinality(S) \in Nat /\ Cardinality(T) \in Nat
           /\ Cardinality(T) + One(x \in S) = Cardinality(S) + One(x \in T)
  <1>1. CASE x \in S /\ x \notin T
    <2>1. T = S \ {x}
      BY <1>1
    <2>2. IsFiniteSet(T) /\ Cardinality(T) = Cardinality(S) - 1
      BY <1>1, <2>1, FS_RemoveElement
    <2> QED
      BY <1>1, <2>2, FS_CardinalityType DEF One
  <1>2. CASE x \notin S /\ x \in T
    <2>1. T = S \cup {x}
      BY <1>2
    <2>2. IsFiniteSet(T) /\ Cardinality(T) = Cardinality(S) + 1
      BY <1>2, <2>1, FS_AddElement
    <2> QED
      BY <1>2, <2>2, FS_CardinalityType DEF One
  <1>3. CASE x \in S <=> x \in T
    <2>1. T = S
      BY <1>3
    <2> QED
      BY <2>1, FS_CardinalityType DEF One
  <1> QED
    BY <1>1, <1>2, <1>3

LEMMA FiniteParts ==
    ASSUME TypeOK, NEW q \in Questions, NEW o \in Options
    PROVE  /\ IsFiniteSet(Voters(q, o)) /\ IsFiniteSet(HasVoted(q))
           /\ IsFiniteSet(Gained(q, o)) /\ IsFiniteSet(Dropped(q, o)) /\ IsFiniteSet(FirstVotes(q))
  <1>1. Uncounted \subseteq Attempts
    BY DEF TypeOK, Uncounted
  <1>2. IsFiniteSet(Uncounted)
    BY <1>1, StatsAssumption, FS_Subset
  <1> QED
    BY <1>2, StatsAssumption, FS_Subset DEF Voters, HasVoted, Gained, Dropped, FirstVotes

LEMMA ChangeType ==
    ASSUME TypeOK, NEW s \in Students, NEW q \in Questions, NEW o \in Votes
    PROVE  ChangeOf(s, q, o) \in Change /\ NoChange \in Change
  BY DEF TypeOK, ChangeOf, NoChange, Change, Votes

LEMMA DeltaTypes ==
    ASSUME TypeOK, NEW cs \in [Questions -> Change]
    PROVE  /\ TotalAfter(cs) \in [Questions -> Int]
           /\ CorrectAfter(cs) \in [Questions -> Int]
           /\ PicksAfter(cs) \in [Questions -> [Options -> Int]]
  BY DEF TypeOK, TotalAfter, CorrectAfter, PicksAfter, TotalDelta, CorrectDelta, OptionDelta, One

LEMMA ApplyType ==
    ASSUME TypeOK, NEW cs \in [Questions -> Change], ApplyDeltas(cs)
    PROVE  /\ total' \in [Questions -> Nat] /\ correct' \in [Questions -> Nat]
           /\ picks' \in [Questions -> [Options -> Nat]]
  <1>1. /\ total' \in [Questions -> Int] /\ correct' \in [Questions -> Int]
        /\ picks' \in [Questions -> [Options -> Int]]
    BY DeltaTypes DEF ApplyDeltas
  <1>2. \A q \in Questions : total'[q] >= 0 /\ correct'[q] >= 0 /\ \A o \in Options : picks'[q][o] >= 0
    BY DEF ApplyDeltas, Fits
  <1> QED
    BY <1>1, <1>2

\* The vote of a student once he answers with o (none: he keeps his vote).
VoteAfter(s, q, o) == IF o = NoOption THEN vote[s][q] ELSE o

\* A change of vote moves the pick counts and the total as it moves the vote.
LEMMA DeltaIsMove ==
    ASSUME TypeOK, NEW s \in Students, NEW q \in Questions, NEW o \in Votes, NEW x \in Options
    PROVE  /\ OptionDelta(ChangeOf(s, q, o), q, x) = 
                 IF ChangeOf(s, q, o) = NoChange THEN 0
                 ELSE One(VoteAfter(s, q, o) = x) - One(vote[s][q] = x)
           /\ ChangeOf(s, q, o) = NoChange => VoteAfter(s, q, o) = vote[s][q]
           /\ TotalDelta(ChangeOf(s, q, o)) =
                 One(VoteAfter(s, q, o) # NoOption) - One(vote[s][q] # NoOption)
  <1> USE StatsAssumption DEF ChangeOf, NoChange, VoteAfter, TotalDelta, OptionDelta, One, Votes, TypeOK
  <1>1. vote[s][q] \in Votes
    OBVIOUS
  <1>2. CASE o = NoOption \/ o = vote[s][q]
    BY <1>1, <1>2
  <1>3. CASE ~(o = NoOption \/ o = vote[s][q])
    BY <1>1, <1>3
  <1> QED
    BY <1>2, <1>3

LEMMA OptionDeltaType ==
    ASSUME NEW c, NEW q, NEW x PROVE OptionDelta(c, q, x) \in Int /\ TotalDelta(c) \in Int
  BY DEF OptionDelta, TotalDelta, One

LEMMA NoDelta ==
    ASSUME NEW q \in Questions, NEW x \in Options
    PROVE  OptionDelta(NoChange, q, x) = 0 /\ TotalDelta(NoChange) = 0
  BY StatsAssumption DEF OptionDelta, TotalDelta, NoChange, One

-----------------------------------------------------------------------------
(* Types *)

LEMMA TypeInit == Init => TypeOK
  BY DEF Init, TypeOK, Votes, NoChange, Change, Draft

LEMMA TypeStep == TypeOK /\ [Next]_vars => TypeOK'
  <1> USE StatsAssumption
  <1> SUFFICES ASSUME TypeOK, [Next]_vars PROVE TypeOK'
    OBVIOUS
  <1>1. CASE UNCHANGED vars
    BY <1>1 DEF TypeOK, vars, counters, editing, tasks
  <1>2. ASSUME NEW s \in Students, NEW q \in Questions, NEW o \in Options, Answer(s, q, o)
        PROVE  TypeOK'
    <2> DEFINE cs == [p \in Questions |-> IF p = q THEN ChangeOf(s, q, o) ELSE NoChange]
    <2>1. cs \in [Questions -> Change]
      BY ChangeType DEF Votes
    <2>2. ApplyDeltas(cs)
      BY <1>2 DEF Answer
    <2> HIDE DEF cs
    <2>3. /\ total' \in [Questions -> Nat] /\ correct' \in [Questions -> Nat]
          /\ picks' \in [Questions -> [Options -> Nat]]
      BY <2>1, <2>2, ApplyType
    <2> QED
      BY <1>2, <2>3 DEF Answer, TypeOK, editing, tasks, Votes
  <1>3. ASSUME NEW a \in Attempts, NEW choice \in [Questions -> Votes], NEW sent \in BOOLEAN,
               Finalize(a, choice, sent)
        PROVE  TypeOK'
    <2>1. Owner[a] \in Students
      OBVIOUS
    <2>2. [q \in Questions |-> ChangeOf(Owner[a], q, choice[q])] \in [Questions -> Change]
      BY <2>1, ChangeType
    <2>3. changes' \in [Attempts -> [Questions -> Change]]
      BY <1>3, <2>2 DEF Finalize, TypeOK
    <2>4. vote' \in [Students -> [Questions -> Votes]]
      BY <1>3, <2>1 DEF Finalize, TypeOK
    <2> QED
      BY <1>3, <2>3, <2>4 DEF Finalize, TypeOK, counters, editing
  <1>4. ASSUME NEW a \in Attempts, NEW acked \in BOOLEAN, ApplyTask(a, acked) PROVE TypeOK'
    <2>1. changes[a] \in [Questions -> Change]
      BY DEF TypeOK
    <2>2. /\ total' \in [Questions -> Nat] /\ correct' \in [Questions -> Nat]
          /\ picks' \in [Questions -> [Options -> Nat]]
      BY <1>4, <2>1, ApplyType DEF ApplyTask
    <2> QED
      BY <1>4, <2>2 DEF ApplyTask, TypeOK, editing
  <1>5. ASSUME NEW a \in Attempts, SkipTask(a) PROVE TypeOK'
    BY <1>5 DEF SkipTask, TypeOK, counters, editing
  <1>6. ASSUME NEW q \in Questions, BeginEdit(q) PROVE TypeOK'
    <2>1. [total |-> total[q], correct |-> correct[q], picks |-> picks[q]] \in Draft
      BY DEF TypeOK, Draft
    <2> QED
      BY <1>6, <2>1 DEF BeginEdit, TypeOK, counters, tasks
  <1>7. ASSUME NEW q \in Questions, SaveEdit(q) PROVE TypeOK'
    <2>1. draft[q] \in Draft
      BY <1>7 DEF SaveEdit, TypeOK
    <2>2. vote' \in [Students -> [Questions -> Votes]]
      BY <1>7 DEF SaveEdit, TypeOK, Votes
    <2> QED
      BY <1>7, <2>1, <2>2 DEF SaveEdit, TypeOK, Draft, tasks
  <1>8. ASSUME NEW q \in Questions, NEW changed \in SUBSET Options, SaveImages(q, changed)
        PROVE  TypeOK'
    <2>1. draft[q] \in Draft
      BY <1>8 DEF SaveImages, TypeOK
    <2> QED
      BY <1>8, <2>1 DEF SaveImages, TypeOK, Draft, tasks
  <1> QED
    BY <1>1, <1>2, <1>3, <1>4, <1>5, <1>6, <1>7, <1>8 DEF Next

\* Every variable keeps its type; no counter goes below zero.
THEOREM TypeCorrect == Spec => []TypeOK
  BY TypeInit, TypeStep, PTL DEF Spec
-----------------------------------------------------------------------------
(* The recorded changes *)

LEMMA ChangesStep == TypeOK /\ ChangesReal /\ [Next]_vars => ChangesReal'
  <1> USE StatsAssumption
  <1> SUFFICES ASSUME TypeOK, ChangesReal, [Next]_vars PROVE ChangesReal'
    OBVIOUS
  <1>1. CASE UNCHANGED vars
    BY <1>1 DEF ChangesReal, vars, editing, tasks
  <1>2. ASSUME NEW s \in Students, NEW q \in Questions, NEW o \in Options, Answer(s, q, o)
        PROVE  ChangesReal'
    BY <1>2 DEF Answer, ChangesReal, editing, tasks
  <1>3. ASSUME NEW a \in Attempts, NEW choice \in [Questions -> Votes], NEW sent \in BOOLEAN,
               Finalize(a, choice, sent)
        PROVE  ChangesReal'
    <2>1. \A q \in Questions :
            LET c == ChangeOf(Owner[a], q, choice[q])
            IN  (c.new # NoOption => c.new # c.prev) /\ (q \notin edited => c.edition = 0)
      BY DEF ChangeOf, NoChange, ChangesReal
    <2> QED
      BY <1>3, <2>1 DEF Finalize, ChangesReal, TypeOK, editing
  <1>4. ASSUME NEW a \in Attempts, NEW acked \in BOOLEAN, ApplyTask(a, acked) PROVE ChangesReal'
    BY <1>4 DEF ApplyTask, ChangesReal, editing
  <1>5. ASSUME NEW a \in Attempts, SkipTask(a) PROVE ChangesReal'
    BY <1>5 DEF SkipTask, ChangesReal, editing
  <1>6. ASSUME NEW q \in Questions, BeginEdit(q) PROVE ChangesReal'
    BY <1>6 DEF BeginEdit, ChangesReal, tasks
  <1>7. ASSUME NEW q \in Questions, SaveEdit(q) PROVE ChangesReal'
    BY <1>7 DEF SaveEdit, ChangesReal, TypeOK, tasks
  <1>8. ASSUME NEW q \in Questions, NEW changed \in SUBSET Options, SaveImages(q, changed)
        PROVE  ChangesReal'
    BY <1>8 DEF SaveImages, ChangesReal, tasks
  <1> QED
    BY <1>1, <1>2, <1>3, <1>4, <1>5, <1>6, <1>7, <1>8 DEF Next
-----------------------------------------------------------------------------
(* The counts *)

LEMMA CountTypes ==
    ASSUME TypeOK, NEW q \in Questions, NEW x \in Options
    PROVE  /\ Cardinality(Gained(q, x)) \in Nat /\ Cardinality(Dropped(q, x)) \in Nat
           /\ Cardinality(Voters(q, x)) \in Nat /\ Cardinality(FirstVotes(q)) \in Nat
           /\ Cardinality(HasVoted(q)) \in Nat /\ picks[q][x] \in Nat /\ total[q] \in Nat
  BY FiniteParts, FS_CardinalityType DEF TypeOK

\* A step that leaves the counters, the votes and the tasks of the questions
\* nobody has edited keeps their counts.
LEMMA CountsUntouched ==
    ASSUME TypeOK, PicksExact, TotalExact, edited \subseteq edited',
           Uncounted' = Uncounted, changes' = changes,
           NEW q \in Questions \ edited', NEW o \in Options,
           total'[q] = total[q], picks'[q] = picks[q],
           \A s \in Students : vote'[s][q] = vote[s][q]
    PROVE  /\ picks'[q][o] + Cardinality(Gained(q, o)') = Cardinality(Voters(q, o)') + Cardinality(Dropped(q, o)')
           /\ total'[q] + Cardinality(FirstVotes(q)') = Cardinality(HasVoted(q)')
  <1>1. /\ Gained(q, o)' = Gained(q, o) /\ Dropped(q, o)' = Dropped(q, o)
        /\ FirstVotes(q)' = FirstVotes(q)
    BY DEF Gained, Dropped, FirstVotes
  <1>2. Voters(q, o)' = Voters(q, o) /\ HasVoted(q)' = HasVoted(q)
    BY DEF Voters, HasVoted
  <1> QED
    BY <1>1, <1>2 DEF PicksExact, TotalExact

\* One student answers one question; the deltas go to the counters.
LEMMA CountsAnswer ==
    ASSUME TypeOK, PicksExact, TotalExact, NEW s \in Students, NEW p \in Questions,
           NEW o \in Options, Answer(s, p, o),
           NEW q \in Questions \ edited, NEW x \in Options
    PROVE  /\ picks'[q][x] + Cardinality(Gained(q, x)') = Cardinality(Voters(q, x)') + Cardinality(Dropped(q, x)')
           /\ total'[q] + Cardinality(FirstVotes(q)') = Cardinality(HasVoted(q)')
  <1> USE StatsAssumption
  <1> DEFINE cs == [r \in Questions |-> IF r = p THEN ChangeOf(s, p, o) ELSE NoChange]
  <1>1. /\ picks'[q][x] = picks[q][x] + OptionDelta(cs[q], q, x)
        /\ total'[q] = total[q] + TotalDelta(cs[q])
    BY DEF Answer, ApplyDeltas, PicksAfter, TotalAfter
  <1>2. /\ Gained(q, x)' = Gained(q, x) /\ Dropped(q, x)' = Dropped(q, x)
        /\ FirstVotes(q)' = FirstVotes(q)
    BY DEF Answer, tasks, Gained, Dropped, FirstVotes, Uncounted
  <1>3. CASE q # p
    <2>1. \A t \in Students : vote'[t][q] = vote[t][q]
      BY <1>3 DEF Answer, TypeOK
    <2>2. Voters(q, x)' = Voters(q, x) /\ HasVoted(q)' = HasVoted(q)
      BY <2>1 DEF Voters, HasVoted
    <2>3. picks'[q][x] = picks[q][x] /\ total'[q] = total[q]
      <3>1. cs[q] = NoChange
        BY <1>3
      <3> QED
        BY <1>1, <3>1, NoDelta DEF TypeOK
    <2> QED
      BY <1>2, <2>2, <2>3 DEF PicksExact, TotalExact
  <1>4. CASE q = p
    <2>1. /\ vote'[s][q] = o /\ \A t \in Students \ {s} : vote'[t][q] = vote[t][q]
      BY <1>4 DEF Answer, TypeOK
    <2>2. Cardinality(Voters(q, x)') + One(vote[s][q] = x) = Cardinality(Voters(q, x)) + One(o = x)
      <3>1. \A t : t # s => (t \in Voters(q, x) <=> t \in Voters(q, x)')
        BY <2>1 DEF Voters
      <3>2. /\ s \in Voters(q, x) <=> vote[s][q] = x
            /\ s \in Voters(q, x)' <=> o = x
        BY <2>1 DEF Voters
      <3>3. Cardinality(Voters(q, x)') + One(s \in Voters(q, x)) = Cardinality(Voters(q, x)) + One(s \in Voters(q, x)')
        BY <3>1, FiniteParts, CardinalityMoved
      <3> QED
        BY <3>2, <3>3 DEF One
    <2>3. Cardinality(HasVoted(q)') + One(vote[s][q] # NoOption) = Cardinality(HasVoted(q)) + 1
      <3>1. \A t : t # s => (t \in HasVoted(q) <=> t \in HasVoted(q)')
        BY <2>1 DEF HasVoted
      <3>2. /\ s \in HasVoted(q) <=> vote[s][q] # NoOption
            /\ s \in HasVoted(q)'
        BY <2>1 DEF HasVoted
      <3>3. Cardinality(HasVoted(q)') + One(s \in HasVoted(q)) = Cardinality(HasVoted(q)) + One(s \in HasVoted(q)')
        BY <3>1, FiniteParts, CardinalityMoved
      <3> QED
        BY <3>2, <3>3 DEF One
    <2>4. o \in Votes /\ VoteAfter(s, q, o) = o /\ o # NoOption
      BY DEF Votes, VoteAfter
    <2>5. cs[q] = ChangeOf(s, q, o)
      BY <1>4
    <2>6. /\ picks'[q][x] = picks[q][x] + One(o = x) - One(vote[s][q] = x)
          /\ total'[q] = total[q] + 1 - One(vote[s][q] # NoOption)
      <3> HIDE DEF cs
      <3>1. picks[q][x] \in Int /\ total[q] \in Int
        BY DEF TypeOK
      <3>2. CASE ChangeOf(s, q, o) = NoChange
        BY <1>1, <2>4, <2>5, <3>1, <3>2, NoDelta, DeltaIsMove DEF One
      <3>3. CASE ChangeOf(s, q, o) # NoChange
        BY <1>1, <2>4, <2>5, <3>1, <3>3, DeltaIsMove DEF One
      <3> QED
        BY <3>2, <3>3
    <2>7. /\ picks[q][x] + Cardinality(Gained(q, x)) = Cardinality(Voters(q, x)) + Cardinality(Dropped(q, x))
          /\ total[q] + Cardinality(FirstVotes(q)) = Cardinality(HasVoted(q))
      BY DEF PicksExact, TotalExact
    <2>8. /\ Cardinality(Gained(q, x)) \in Nat /\ Cardinality(Dropped(q, x)) \in Nat
          /\ Cardinality(Voters(q, x)) \in Nat /\ Cardinality(FirstVotes(q)) \in Nat
          /\ Cardinality(HasVoted(q)) \in Nat /\ picks[q][x] \in Nat /\ total[q] \in Nat
      BY CountTypes
    <2>9. /\ Cardinality(Voters(q, x)') \in Nat /\ Cardinality(HasVoted(q)') \in Nat
      <3>1. TypeOK'
        BY TypeStep DEF Next
      <3> QED
        BY <3>1, FiniteParts, FS_CardinalityType, StatsAssumption, FS_Subset DEF Voters, HasVoted
    <2> QED
      BY <1>2, <2>2, <2>3, <2>6, <2>7, <2>8, <2>9 DEF One
  <1> QED
    BY <1>3, <1>4

\* An exam becomes final: its change of vote moves the votes now and stands
\* among the uncounted.
LEMMA CountsFinalize ==
    ASSUME TypeOK, ChangesReal, PicksExact, TotalExact,
           NEW a \in Attempts, NEW choice \in [Questions -> Votes], NEW sent \in BOOLEAN,
           Finalize(a, choice, sent),
           NEW q \in Questions \ edited, NEW x \in Options
    PROVE  /\ picks'[q][x] + Cardinality(Gained(q, x)') = Cardinality(Voters(q, x)') + Cardinality(Dropped(q, x)')
           /\ total'[q] + Cardinality(FirstVotes(q)') = Cardinality(HasVoted(q)')
  <1> USE StatsAssumption
  <1> DEFINE s == Owner[a]
             c == ChangeOf(s, q, choice[q])
             v == VoteAfter(s, q, choice[q])
  <1>1. s \in Students /\ choice[q] \in Votes
    OBVIOUS
  <1>2. picks' = picks /\ total' = total
    BY DEF Finalize, counters
  <1>3. /\ Uncounted' = Uncounted \cup {a} /\ a \notin Uncounted
        /\ changes'[a][q] = c
        /\ \A b \in Attempts \ {a} : changes'[b] = changes[b]
    BY DEF Finalize, Uncounted, TypeOK
  <1>4. /\ vote'[s][q] = v
        /\ \A t \in Students \ {s} : vote'[t][q] = vote[t][q]
    BY <1>1 DEF Finalize, TypeOK, VoteAfter
  <1> HIDE DEF s, c, v
  <1>5. Cardinality(Voters(q, x)') + One(vote[s][q] = x) = Cardinality(Voters(q, x)) + One(v = x)
    <2>1. \A t : t # s => (t \in Voters(q, x) <=> t \in Voters(q, x)')
      BY <1>4 DEF Voters
    <2>2. /\ s \in Voters(q, x) <=> vote[s][q] = x
          /\ s \in Voters(q, x)' <=> v = x
      BY <1>1, <1>4 DEF Voters
    <2>3. Cardinality(Voters(q, x)') + One(s \in Voters(q, x)) = Cardinality(Voters(q, x)) + One(s \in Voters(q, x)')
      BY <2>1, FiniteParts, CardinalityMoved
    <2> QED
      BY <2>2, <2>3 DEF One
  <1>6. Cardinality(HasVoted(q)') + One(vote[s][q] # NoOption) = Cardinality(HasVoted(q)) + One(v # NoOption)
    <2>1. \A t : t # s => (t \in HasVoted(q) <=> t \in HasVoted(q)')
      BY <1>4 DEF HasVoted
    <2>2. /\ s \in HasVoted(q) <=> vote[s][q] # NoOption
          /\ s \in HasVoted(q)' <=> v # NoOption
      BY <1>1, <1>4 DEF HasVoted
    <2>3. Cardinality(HasVoted(q)') + One(s \in HasVoted(q)) = Cardinality(HasVoted(q)) + One(s \in HasVoted(q)')
      BY <2>1, FiniteParts, CardinalityMoved
    <2> QED
      BY <2>2, <2>3 DEF One
  <1>7. Cardinality(Gained(q, x)') = Cardinality(Gained(q, x)) + One(c.new = x)
    <2>1. \A b : b # a => (b \in Gained(q, x) <=> b \in Gained(q, x)')
      BY <1>3 DEF Gained, Uncounted, TypeOK
    <2>2. a \notin Gained(q, x) /\ (a \in Gained(q, x)' <=> c.new = x)
      BY <1>3 DEF Gained
    <2>3. Cardinality(Gained(q, x)') + One(a \in Gained(q, x)) = Cardinality(Gained(q, x)) + One(a \in Gained(q, x)')
          /\ Cardinality(Gained(q, x)') \in Nat /\ Cardinality(Gained(q, x)) \in Nat
      BY <2>1, FiniteParts, CardinalityMoved
    <2> QED
      BY <2>2, <2>3 DEF One
  <1>8. Cardinality(Dropped(q, x)') = Cardinality(Dropped(q, x)) + One(c.new # NoOption /\ c.prev = x)
    <2>1. \A b : b # a => (b \in Dropped(q, x) <=> b \in Dropped(q, x)')
      BY <1>3 DEF Dropped, Uncounted, TypeOK
    <2>2. a \notin Dropped(q, x) /\ (a \in Dropped(q, x)' <=> c.new # NoOption /\ c.prev = x)
      BY <1>3 DEF Dropped
    <2>3. Cardinality(Dropped(q, x)') + One(a \in Dropped(q, x)) = Cardinality(Dropped(q, x)) + One(a \in Dropped(q, x)')
          /\ Cardinality(Dropped(q, x)') \in Nat /\ Cardinality(Dropped(q, x)) \in Nat
      BY <2>1, FiniteParts, CardinalityMoved
    <2> QED
      BY <2>2, <2>3 DEF One
  <1>9. Cardinality(FirstVotes(q)') = Cardinality(FirstVotes(q)) + One(c.new # NoOption /\ c.prev = NoOption)
    <2>1. \A b : b # a => (b \in FirstVotes(q) <=> b \in FirstVotes(q)')
      BY <1>3 DEF FirstVotes, Uncounted, TypeOK
    <2>2. a \notin FirstVotes(q) /\ (a \in FirstVotes(q)' <=> c.new # NoOption /\ c.prev = NoOption)
      BY <1>3 DEF FirstVotes
    <2>3. Cardinality(FirstVotes(q)') + One(a \in FirstVotes(q)) = Cardinality(FirstVotes(q)) + One(a \in FirstVotes(q)')
          /\ Cardinality(FirstVotes(q)') \in Nat /\ Cardinality(FirstVotes(q)) \in Nat
      BY <2>1, FiniteParts, CardinalityMoved
    <2> QED
      BY <2>2, <2>3 DEF One
  <1>10. /\ One(c.new = x) - One(c.new # NoOption /\ c.prev = x) = One(v = x) - One(vote[s][q] = x)
         /\ One(c.new # NoOption /\ c.prev = NoOption) = One(v # NoOption) - One(vote[s][q] # NoOption)
    <2>1. CASE choice[q] = NoOption \/ choice[q] = vote[s][q]
      BY <2>1 DEF c, v, ChangeOf, NoChange, VoteAfter, One
    <2>2. CASE ~(choice[q] = NoOption \/ choice[q] = vote[s][q])
      BY <2>2 DEF c, v, ChangeOf, NoChange, VoteAfter, One
    <2> QED
      BY <2>1, <2>2
  <1>11. TypeOK'
    BY TypeStep DEF Next
  <1>12. Cardinality(Voters(q, x)') \in Nat /\ Cardinality(HasVoted(q)') \in Nat
    BY <1>11, FiniteParts, FS_CardinalityType, FS_Subset DEF Voters, HasVoted
  <1>13. /\ picks[q][x] + Cardinality(Gained(q, x)) = Cardinality(Voters(q, x)) + Cardinality(Dropped(q, x))
         /\ total[q] + Cardinality(FirstVotes(q)) = Cardinality(HasVoted(q))
    BY DEF PicksExact, TotalExact
  <1>14. picks'[q][x] + Cardinality(Gained(q, x)') = Cardinality(Voters(q, x)') + Cardinality(Dropped(q, x)')
    BY <1>2, <1>5, <1>7, <1>8, <1>10, <1>12, <1>13, CountTypes DEF One
  <1>15. total'[q] + Cardinality(FirstVotes(q)') = Cardinality(HasVoted(q)')
    BY <1>2, <1>6, <1>9, <1>10, <1>12, <1>13, CountTypes DEF One
  <1> QED
    BY <1>14, <1>15

\* A task is applied: its changes leave the uncounted for the counters.
LEMMA CountsApply ==
    ASSUME TypeOK, ChangesReal, PicksExact, TotalExact,
           NEW a \in Attempts, NEW acked \in BOOLEAN, ApplyTask(a, acked),
           NEW q \in Questions \ edited, NEW x \in Options
    PROVE  /\ picks'[q][x] + Cardinality(Gained(q, x)') = Cardinality(Voters(q, x)') + Cardinality(Dropped(q, x)')
           /\ total'[q] + Cardinality(FirstVotes(q)') = Cardinality(HasVoted(q)')
  <1> USE StatsAssumption
  <1> DEFINE c == changes[a][q]
  <1>1. /\ picks'[q][x] = picks[q][x] + One(c.new = x) - One(c.new # NoOption /\ c.prev = x)
        /\ total'[q] = total[q] + One(c.new # NoOption /\ c.prev = NoOption)
    <2>1. c.edition = edition[q]
      BY DEF ChangesReal
    <2>2. /\ picks'[q][x] = picks[q][x] + OptionDelta(c, q, x)
          /\ total'[q] = total[q] + TotalDelta(c)
      BY DEF ApplyTask, ApplyDeltas, PicksAfter, TotalAfter
    <2> QED
      BY <2>1, <2>2 DEF OptionDelta, TotalDelta, One, TypeOK
  <1>2. /\ Uncounted' = Uncounted \ {a} /\ a \in Uncounted /\ changes' = changes
    BY DEF ApplyTask, Uncounted, TypeOK
  <1>3. /\ Voters(q, x)' = Voters(q, x) /\ HasVoted(q)' = HasVoted(q)
    BY DEF ApplyTask, Voters, HasVoted
  <1> HIDE DEF c
  <1>4. Cardinality(Gained(q, x)') + One(c.new = x) = Cardinality(Gained(q, x))
    <2>1. \A b : b # a => (b \in Gained(q, x) <=> b \in Gained(q, x)')
      BY <1>2 DEF Gained
    <2>2. a \notin Gained(q, x)' /\ (a \in Gained(q, x) <=> c.new = x)
      BY <1>2 DEF Gained, c
    <2>3. Cardinality(Gained(q, x)') + One(a \in Gained(q, x)) = Cardinality(Gained(q, x)) + One(a \in Gained(q, x)')
          /\ Cardinality(Gained(q, x)') \in Nat /\ Cardinality(Gained(q, x)) \in Nat
      BY <2>1, FiniteParts, CardinalityMoved
    <2> QED
      BY <2>2, <2>3 DEF One
  <1>5. Cardinality(Dropped(q, x)') + One(c.new # NoOption /\ c.prev = x) = Cardinality(Dropped(q, x))
    <2>1. \A b : b # a => (b \in Dropped(q, x) <=> b \in Dropped(q, x)')
      BY <1>2 DEF Dropped
    <2>2. a \notin Dropped(q, x)' /\ (a \in Dropped(q, x) <=> c.new # NoOption /\ c.prev = x)
      BY <1>2 DEF Dropped, c
    <2>3. Cardinality(Dropped(q, x)') + One(a \in Dropped(q, x)) = Cardinality(Dropped(q, x)) + One(a \in Dropped(q, x)')
          /\ Cardinality(Dropped(q, x)') \in Nat /\ Cardinality(Dropped(q, x)) \in Nat
      BY <2>1, FiniteParts, CardinalityMoved
    <2> QED
      BY <2>2, <2>3 DEF One
  <1>6. Cardinality(FirstVotes(q)') + One(c.new # NoOption /\ c.prev = NoOption) = Cardinality(FirstVotes(q))
    <2>1. \A b : b # a => (b \in FirstVotes(q) <=> b \in FirstVotes(q)')
      BY <1>2 DEF FirstVotes
    <2>2. a \notin FirstVotes(q)' /\ (a \in FirstVotes(q) <=> c.new # NoOption /\ c.prev = NoOption)
      BY <1>2 DEF FirstVotes, c
    <2>3. Cardinality(FirstVotes(q)') + One(a \in FirstVotes(q)) = Cardinality(FirstVotes(q)) + One(a \in FirstVotes(q)')
          /\ Cardinality(FirstVotes(q)') \in Nat /\ Cardinality(FirstVotes(q)) \in Nat
      BY <2>1, FiniteParts, CardinalityMoved
    <2> QED
      BY <2>2, <2>3 DEF One
  <1>7. /\ picks[q][x] + Cardinality(Gained(q, x)) = Cardinality(Voters(q, x)) + Cardinality(Dropped(q, x))
        /\ total[q] + Cardinality(FirstVotes(q)) = Cardinality(HasVoted(q))
    BY DEF PicksExact, TotalExact
  <1>8. /\ Cardinality(Gained(q, x)') \in Nat /\ Cardinality(Dropped(q, x)') \in Nat
        /\ Cardinality(FirstVotes(q)') \in Nat
    <2>1. TypeOK'
      BY TypeStep DEF Next
    <2>2. /\ Gained(q, x)' \subseteq Gained(q, x) /\ Dropped(q, x)' \subseteq Dropped(q, x)
          /\ FirstVotes(q)' \subseteq FirstVotes(q)
      BY <1>2 DEF Gained, Dropped, FirstVotes
    <2> QED
      BY <2>2, FiniteParts, FS_Subset, FS_CardinalityType
  <1>9. picks'[q][x] + Cardinality(Gained(q, x)') = Cardinality(Voters(q, x)') + Cardinality(Dropped(q, x)')
    BY <1>1, <1>3, <1>4, <1>5, <1>7, <1>8, CountTypes DEF One
  <1>10. total'[q] + Cardinality(FirstVotes(q)') = Cardinality(HasVoted(q)')
    BY <1>1, <1>3, <1>6, <1>7, <1>8, CountTypes DEF One
  <1> QED
    BY <1>9, <1>10
-----------------------------------------------------------------------------
(* The inductive invariant *)

LEMMA IInvInit == Init => IInv
  <1> SUFFICES ASSUME Init PROVE IInv
    OBVIOUS
  <1> USE StatsAssumption
  <1>1. TypeOK
    BY TypeInit
  <1>2. ChangesReal
    BY DEF Init, ChangesReal, NoChange
  <1>3. ASSUME NEW q \in Questions, NEW x \in Options
        PROVE  /\ Voters(q, x) = {} /\ HasVoted(q) = {} /\ Gained(q, x) = {}
               /\ Dropped(q, x) = {} /\ FirstVotes(q) = {}
    BY DEF Init, Voters, HasVoted, Gained, Dropped, FirstVotes, Uncounted
  <1>4. PicksExact
    <2> SUFFICES ASSUME NEW q \in Questions, NEW x \in Options
                 PROVE  picks[q][x] + Cardinality(Gained(q, x)) = Cardinality(Voters(q, x)) + Cardinality(Dropped(q, x))
      BY DEF PicksExact
    <2>1. Gained(q, x) = {} /\ Voters(q, x) = {} /\ Dropped(q, x) = {} /\ picks[q][x] = 0
      BY <1>3 DEF Init
    <2> QED
      BY <2>1, FS_EmptySet
  <1>5. TotalExact
    <2> SUFFICES ASSUME NEW q \in Questions PROVE total[q] + Cardinality(FirstVotes(q)) = Cardinality(HasVoted(q))
      BY DEF TotalExact
    <2>1. FirstVotes(q) = {} /\ HasVoted(q) = {}
      BY <1>3
    <2> QED
      BY <2>1, FS_EmptySet DEF Init
  <1> QED
    BY <1>1, <1>2, <1>4, <1>5 DEF IInv

LEMMA CountsStep ==
    ASSUME IInv, [Next]_vars
    PROVE  PicksExact' /\ TotalExact'
  <1> USE StatsAssumption DEF IInv
  <1>1. SUFFICES ASSUME NEW q \in Questions \ edited', NEW x \in Options
        PROVE  /\ picks'[q][x] + Cardinality(Gained(q, x)') = Cardinality(Voters(q, x)') + Cardinality(Dropped(q, x)')
               /\ total'[q] + Cardinality(FirstVotes(q)') = Cardinality(HasVoted(q)')
    BY DEF PicksExact, TotalExact
  <1>2. CASE UNCHANGED vars
    BY <1>2, CountsUntouched DEF vars, counters, editing, tasks, Uncounted
  <1>3. ASSUME NEW s \in Students, NEW p \in Questions, NEW o \in Options, Answer(s, p, o)
        PROVE  /\ picks'[q][x] + Cardinality(Gained(q, x)') = Cardinality(Voters(q, x)') + Cardinality(Dropped(q, x)')
               /\ total'[q] + Cardinality(FirstVotes(q)') = Cardinality(HasVoted(q)')
    BY <1>3, CountsAnswer DEF Answer, editing
  <1>4. ASSUME NEW a \in Attempts, NEW choice \in [Questions -> Votes], NEW sent \in BOOLEAN,
               Finalize(a, choice, sent)
        PROVE  /\ picks'[q][x] + Cardinality(Gained(q, x)') = Cardinality(Voters(q, x)') + Cardinality(Dropped(q, x)')
               /\ total'[q] + Cardinality(FirstVotes(q)') = Cardinality(HasVoted(q)')
    BY <1>4, CountsFinalize DEF Finalize, editing
  <1>5. ASSUME NEW a \in Attempts, NEW acked \in BOOLEAN, ApplyTask(a, acked)
        PROVE  /\ picks'[q][x] + Cardinality(Gained(q, x)') = Cardinality(Voters(q, x)') + Cardinality(Dropped(q, x)')
               /\ total'[q] + Cardinality(FirstVotes(q)') = Cardinality(HasVoted(q)')
    BY <1>5, CountsApply DEF ApplyTask, editing
  <1>6. CASE \E a \in Attempts : SkipTask(a)
    BY <1>6, CountsUntouched DEF SkipTask, counters, editing, Uncounted
  <1>7. CASE \E p \in Questions : BeginEdit(p)
    BY <1>7, CountsUntouched DEF BeginEdit, counters, tasks, Uncounted
  <1>8. ASSUME NEW p \in Questions, SaveEdit(p) \/ \E changed \in SUBSET Options : SaveImages(p, changed)
        PROVE  /\ picks'[q][x] + Cardinality(Gained(q, x)') = Cardinality(Voters(q, x)') + Cardinality(Dropped(q, x)')
               /\ total'[q] + Cardinality(FirstVotes(q)') = Cardinality(HasVoted(q)')
    <2>1. p # q /\ edited \subseteq edited' /\ changes' = changes /\ Uncounted' = Uncounted
      BY <1>8 DEF SaveEdit, SaveImages, tasks, Uncounted
    <2>2. /\ total'[q] = total[q] /\ picks'[q] = picks[q]
          /\ \A s \in Students : vote'[s][q] = vote[s][q]
      BY <1>8, <2>1 DEF SaveEdit, SaveImages, TypeOK
    <2> QED
      BY <2>1, <2>2, CountsUntouched
  <1> QED
    BY <1>2, <1>3, <1>4, <1>5, <1>6, <1>7, <1>8 DEF Next

LEMMA IInvInductive == IInv /\ [Next]_vars => IInv'
  BY TypeStep, ChangesStep, CountsStep DEF IInv

THEOREM InvariantHolds == Spec => []IInv
  BY IInvInit, IInvInductive, PTL DEF Spec

\* The pick count of every option of a question nobody has edited is the
\* number of students who have it selected, up to the deltas on their way.
THEOREM PicksAreExact == Spec => []PicksExact
  <1>1. IInv => PicksExact
    BY DEF IInv
  <1> QED
    BY <1>1, InvariantHolds, PTL

\* The total of a question nobody has edited counts each student once.
THEOREM TotalIsExact == Spec => []TotalExact
  <1>1. IInv => TotalExact
    BY DEF IInv
  <1> QED
    BY <1>1, InvariantHolds, PTL

-----------------------------------------------------------------------------
(* MediaAssets: the latest row and the next one *)

LEMMA LeastOf == ASSUME NEW S \in SUBSET Nat, S # {} PROVE \E x \in S : \A y \in S : x <= y
<1>1. PICK x \in S : \A y \in S : ~(<<y, x>> \in OpToRel(<, Nat))
  BY NatLessThanWellFounded, WFMin
<1>2. \A y \in S : ~(y < x)
  BY <1>1 DEF OpToRel
<1> QED BY <1>2

LEMMA GreatestOf ==
    ASSUME NEW n \in Nat, NEW S \in SUBSET (1..n), S # {}
    PROVE  Max(S) \in S /\ \A y \in S : y <= Max(S)
<1> DEFINE T == {n - x : x \in S}
<1>1. T \in SUBSET Nat
  OBVIOUS
<1>2. T # {}
  <2>1. PICK x \in S : TRUE
    OBVIOUS
  <2>2. n - x \in T
    OBVIOUS
  <2> QED BY <2>2
<1> HIDE DEF T
<1>3. PICK t \in T : \A y \in T : t <= y
  BY <1>1, <1>2, LeastOf
<1>4. PICK x \in S : t = n - x
  BY <1>3 DEF T
<1>5. \A y \in S : x >= y
  <2> TAKE y \in S
  <2>1. n - y \in T
    BY DEF T
  <2> QED BY <1>3, <1>4, <2>1
<1> QED BY <1>5 DEF Max

\* The row that is inserted is new, and the rows are in order again.
LEMMA InsertedNext ==
    ASSUME MaxUploads \in Nat, RowsInOrder, NEW r \in Rows,
           r = 1 + Cardinality({x \in Rows : status[x] # "none"})
    PROVE  r \notin Made /\ \A x \in 1..r : x = r \/ x \in Made
<1>1. Made \in SUBSET (1..MaxUploads) /\ r = 1 + Cardinality(Made)
  BY DEF Made, Rows
<1>2. CASE Made = {}
  <2>1. r = 1
    BY <1>1, <1>2, FS_EmptySet
  <2> QED BY <1>2, <2>1
<1>3. CASE Made # {}
  <2> DEFINE m == Max(Made)
  <2>1. m \in Made /\ m \in 1..MaxUploads /\ \A y \in Made : y <= m
    BY <1>1, <1>3, GreatestOf
  <2> HIDE DEF m
  <2>2. \A x \in 1..m : x \in Made
    BY <2>1 DEF RowsInOrder
  <2>3. \A x \in Made : x \in 1..m
    BY <1>1, <2>1
  <2>4. Made = 1..m
    BY <2>2, <2>3
  <2>5. Cardinality(1..m) = m
    BY <2>1, FS_Interval
  <2>6. r = 1 + m /\ m \in Nat
    BY <1>1, <2>1, <2>4, <2>5
  <2>7. r \notin Made
    BY <2>3, <2>6
  <2> QED BY <2>2, <2>6, <2>7
<1> QED BY <1>2, <1>3

LEMMA LatestDuplicate ==
    ASSUME MaxUploads \in Nat, NEW w \in Workers, Duplicates(w) # {}
    PROVE  Max(Duplicates(w)) \in Rows /\ status[Max(Duplicates(w))] = "ready"
<1>1. Duplicates(w) \in SUBSET (1..MaxUploads)
  BY DEF Duplicates, Visible, Existing, Rows
<1>2. Max(Duplicates(w)) \in Duplicates(w)
  BY <1>1, GreatestOf
<1> QED BY <1>2 DEF Duplicates, Visible, Existing

-----------------------------------------------------------------------------
(* MediaAssets: types *)

Sources == [key : Keys \cup {0}, variants : SUBSET Names]

LEMMA SourceTypes ==
    ASSUME MediaTypeOK
    PROVE  /\ NoSource \in Sources
           /\ \A k \in Keys : [NoSource EXCEPT !.key = k] \in Sources
           /\ \A r \in Rows : CopyOf(r) \in Sources
           /\ \A w \in Workers :
                source[w].key \in Keys \cup {0} /\ source[w].variants \in SUBSET Names
<1>1. NoSource \in Sources /\ \A k \in Keys : [NoSource EXCEPT !.key = k] \in Sources
  BY DEF NoSource, Sources
<1>2. \A r \in Rows : CopyOf(r) \in Sources
  BY DEF CopyOf, Sources, MediaTypeOK
<1> QED BY <1>1, <1>2 DEF MediaTypeOK

LEMMA FinishType ==
    ASSUME MediaTypeOK, NEW w \in Workers, Finish(w) \/ Uploaded(w)
    PROVE  /\ pc' \in [Workers -> Places]
           /\ target' \in [Workers -> Rows \cup {0}]
           /\ source' \in [Workers -> [key : Keys \cup {0}, variants : SUBSET Names]]
           /\ left' \in [Workers -> SUBSET (Names \cup {Original})]
<1>1. NoSource \in [key : Keys \cup {0}, variants : SUBSET Names]
  BY SourceTypes DEF Sources
<1>2. \E place \in {"idle", "import"} : Rest(w, place)
  BY DEF Finish, Uploaded
<1> QED BY <1>1, <1>2 DEF Rest, Goto, Places, MediaTypeOK

\* The end of a transaction, or of a request that is none.
LEMMA RolledBack ==
    ASSUME MediaTypeOK, NEW w \in Workers, RollBack(w)
    PROVE  /\ status' \in [Rows -> {"none", "uploading", "processing", "ready", "failed", "gone"}]
           /\ importing' \subseteq Workers /\ uncommitted' \in [Workers -> SUBSET Rows]
           /\ \A v \in Workers : uncommitted'[v] \subseteq uncommitted[v]
           /\ \A r \in Rows : \/ status'[r] = status[r]
                              \/ status'[r] = "gone" /\ r \in uncommitted[w]
           /\ Finish(w)
<1>1. uncommitted' = [uncommitted EXCEPT ![w] = {}] /\ importing' = importing \ {w} /\ Finish(w)
  BY DEF RollBack
<1>2. status' = [r \in Rows |-> IF r \in uncommitted[w] THEN "gone" ELSE status[r]]
  BY DEF RollBack
<1> QED BY <1>1, <1>2 DEF MediaTypeOK

LEMMA UploadType ==
    ASSUME MediaTypeOK, NEW w \in Workers, Attending(w), FindDuplicate(w) \/ Import(w) \/ Upload(w)
    PROVE  MediaTypeOK'
<1> USE DEF MediaTypeOK
<1>1. MaxUploads \in Nat
  BY MediaAssumption
<1>2. CASE FindDuplicate(w)
  <2>1. uploads' \in Keys /\ uploads' \in 0..MaxUploads
    BY <1>1, <1>2 DEF FindDuplicate, Keys
  <2> DEFINE new == IF Duplicates(w) = {} THEN [NoSource EXCEPT !.key = uploads']
                    ELSE CopyOf(Max(Duplicates(w)))
  <2>2. new \in Sources
    BY <1>1, <2>1, LatestDuplicate, SourceTypes
  <2>3. source' = [source EXCEPT ![w] = new]
    BY <1>2 DEF FindDuplicate
  <2> HIDE DEF new
  <2>4. source' \in [Workers -> [key : Keys \cup {0}, variants : SUBSET Names]]
    BY <2>2, <2>3 DEF Sources
  <2>5. pc' \in [Workers -> Places]
    BY <1>2 DEF FindDuplicate, Goto, Places
  <2> QED BY <1>2, <2>1, <2>4, <2>5 DEF FindDuplicate, rows, transactions, history
<1>3. CASE InsertCopy(w) \/ InsertNew(w)
  <2>1. PICK r \in Rows : \/ Insert(w, r, source[w].key, source[w].variants, "ready")
                          \/ Insert(w, r, source[w].key, {}, "uploading")
    BY <1>3 DEF InsertCopy, InsertNew
  <2>2. source[w].key \in Keys \cup {0} /\ source[w].variants \in SUBSET Names
    BY SourceTypes
  <2>3. /\ status' \in [Rows -> {"none", "uploading", "processing", "ready", "failed", "gone"}]
        /\ key' \in [Rows -> Keys \cup {0}]
        /\ variants' \in [Rows -> SUBSET Names]
    BY <2>1, <2>2 DEF Insert
  <2>6. uncommitted' \in [Workers -> SUBSET Rows]
    <3>1. uncommitted' = uncommitted \/ uncommitted' = [uncommitted EXCEPT ![w] = @ \cup {r}]
      BY <2>1 DEF Insert
    <3> QED BY <3>1
  <2>4. CASE InsertCopy(w)
    <3>1. Uploaded(w)
      BY <2>4 DEF InsertCopy
    <3>2. /\ pc' \in [Workers -> Places]
          /\ target' \in [Workers -> Rows \cup {0}]
          /\ source' \in [Workers -> [key : Keys \cup {0}, variants : SUBSET Names]]
          /\ left' \in [Workers -> SUBSET (Names \cup {Original})]
      BY <3>1, FinishType
    <3>3. /\ spoilt' \subseteq Rows
          /\ UNCHANGED <<task, stored, importing, uploads, crashes, condemned, overtaken>>
      BY <2>4 DEF InsertCopy, transactions, counts
    <3> QED BY <2>3, <2>6, <3>2, <3>3
  <2>5. CASE InsertNew(w)
    <3>1. /\ target' \in [Workers -> Rows \cup {0}] /\ pc' \in [Workers -> Places]
          /\ UNCHANGED <<task, stored, source, left, importing, uploads, crashes, condemned, spoilt,
                         overtaken>>
      BY <2>5 DEF InsertNew, Goto, Places, transactions, counts, history
    <3> QED BY <2>3, <2>6, <3>1
  <2> QED BY <1>3, <2>4, <2>5
<1>4. CASE Enqueue(w)
  BY <1>4 DEF Enqueue, Goto, Places, rows, locals, transactions, counts, history
<1>5. CASE SaveAnnounced(w)
  <2>1. Uploaded(w)
    BY <1>5 DEF SaveAnnounced
  <2>2. target[w] \in Rows
    BY <1>5 DEF SaveAnnounced, Attending, Made
  <2>3. /\ status' \in [Rows -> {"none", "uploading", "processing", "ready", "failed", "gone"}]
        /\ overtaken' \subseteq Rows
        /\ UNCHANGED <<key, variants, task, stored, transactions, uploads, crashes, condemned, spoilt>>
    BY <1>5, <2>2 DEF SaveAnnounced, Saved, Existing, rows, counts, history
  <2> QED BY <2>1, <2>3, FinishType DEF transactions
<1>7. CASE UploadFails(w) \/ ImportFails(w)
  <2>1. RollBack(w) /\ UNCHANGED <<key, variants, task, stored, counts, history>>
    BY <1>7 DEF UploadFails, ImportFails
  <2> QED BY <2>1, RolledBack, FinishType DEF counts, history
<1>8. CASE BeginImport(w)
  BY <1>8 DEF BeginImport, Goto, Places, rows, locals, counts, history
<1>9. CASE Commit(w)
  <2>1. /\ Finish(w) /\ importing' \subseteq Workers /\ uncommitted' \in [Workers -> SUBSET Rows]
        /\ UNCHANGED <<rows, task, stored, counts, history>>
    BY <1>9 DEF Commit
  <2> QED BY <2>1, FinishType DEF rows, counts, history
<1>6. CASE UploadOriginal(w)
  <2>1. pc[w] \in Uploading
    BY <1>6 DEF UploadOriginal, Uploading
  <2>2. source[w].key \in 1..uploads /\ uploads \in 0..MaxUploads
    BY <2>1 DEF Attending
  <2>3. source[w].key \in Keys
    BY <1>1, <2>2 DEF Keys
  <2> QED BY <1>6, <2>3 DEF UploadOriginal, Goto, Places, rows, locals, transactions, counts, history
<1> QED BY <1>2, <1>3, <1>4, <1>5, <1>6, <1>7, <1>8, <1>9 DEF Import, Upload

LEMMA KeyOfMade ==
    ASSUME MediaInv, NEW r \in Made
    PROVE  r \in Rows /\ key[r] \in Keys
<1>1. key[r] \in 1..uploads /\ uploads \in 0..MaxUploads /\ MaxUploads \in Nat
  BY MediaAssumption DEF MediaInv, RowsInOrder, MediaTypeOK
<1>2. \A n \in Nat : \A m \in 0..n : \A k \in 1..m : k \in 1..n
  OBVIOUS
<1>3. key[r] \in 1..MaxUploads
  BY <1>1, <1>2
<1> QED BY <1>3 DEF Keys, Made

LEMMA ProcessType ==
    ASSUME MediaInv, NEW w \in Workers,
           Process(w) \/ \E r \in Rows : Deliver(w, r)
    PROVE  MediaTypeOK'
<1>0. MediaTypeOK /\ Attending(w)
  BY DEF MediaInv
<1> USE <1>0 DEF MediaTypeOK
<1>1. pc[w] \in Processing => target[w] \in Made /\ target[w] \in Rows
  BY DEF Attending, Made
<1>2. ASSUME NEW r \in Rows, Deliver(w, r)
      PROVE  MediaTypeOK'
  <2>1. CASE r \in Visible(w)
    BY <1>2, <2>1 DEF Deliver, Goto, Places, rows, transactions, counts
  <2>2. CASE r \notin Visible(w)
    BY <1>2, <2>2 DEF Deliver, rows, transactions, counts
  <2> QED BY <2>1, <2>2
<1>3. CASE MarkProcessing(w)
  <2>1. status' \in [Rows -> {"none", "uploading", "processing", "ready", "failed", "gone"}]
    BY <1>3 DEF MarkProcessing, Saved
  <2>2. CASE target[w] \in Existing
    BY <1>3, <2>1, <2>2 DEF MarkProcessing, Goto, Places, locals, transactions, counts, history
  <2>3. CASE target[w] \notin Existing
    <3>1. Finish(w) /\ UNCHANGED <<task, key, variants, stored, transactions, counts, history>>
      BY <1>3, <2>3 DEF MarkProcessing, AnswerTask
    <3> QED BY <2>1, <3>1, FinishType DEF transactions, counts, history
  <2> QED BY <2>2, <2>3
<1>4. CASE Download(w)
  BY <1>4 DEF Download, Goto, Places, rows, transactions, counts, history
<1>5. CASE UploadVariant(w)
  <2>1. PICK n \in left[w] : /\ stored' = stored \cup {<<key[target[w]], n>>}
                             /\ left' = [left EXCEPT ![w] = @ \ {n}]
    BY <1>5 DEF UploadVariant
  <2>2. target[w] \in Rows /\ key[target[w]] \in Keys
    BY <1>1, <1>5, KeyOfMade DEF UploadVariant, Processing
  <2>3. stored' \subseteq Keys \X (Names \cup {Original})
    BY <2>1, <2>2
  <2> QED BY <1>5, <2>1, <2>3 DEF UploadVariant, rows, transactions, counts, history
<1>6. CASE ProcessingFails(w)
  BY <1>6 DEF ProcessingFails, Goto, Places, rows, locals, transactions, counts, history
<1>7. CASE SaveReady(w) \/ SaveFailed(w)
  <2>1. Finish(w)
    BY <1>7 DEF SaveReady, SaveFailed, AnswerTask
  <2>2. status' \in [Rows -> {"none", "uploading", "processing", "ready", "failed", "gone"}]
    BY <1>7 DEF SaveReady, SaveFailed, Saved
  <2>3. variants' \in [Rows -> SUBSET Names]
    BY <1>7 DEF SaveReady, SaveFailed
  <2>4. task' \in [Rows -> {"none", "pending", "done"}]
    BY <1>7 DEF SaveReady, SaveFailed, AnswerTask
  <2>5. /\ overtaken' \subseteq Rows
        /\ UNCHANGED <<key, stored, importing, uncommitted, uploads, crashes, condemned, spoilt>>
    BY <1>7 DEF SaveReady, SaveFailed, transactions, counts
  <2> QED BY <2>1, <2>2, <2>3, <2>4, <2>5, FinishType
<1> QED BY <1>2, <1>3, <1>4, <1>5, <1>6, <1>7 DEF Process

LEMMA DeleteType ==
    ASSUME MediaInv, NEW w \in Workers,
           Delete(w) \/ Crash(w) \/ \E r \in Rows : BeginDelete(w, r)
    PROVE  MediaTypeOK'
<1>0. MediaTypeOK /\ Attending(w)
  BY DEF MediaInv
<1> USE <1>0 DEF MediaTypeOK
<1>1. PICK t : t = target[w]
  OBVIOUS
<1>2. pc[w] \in Processing \cup Deleting => t \in Rows
  BY <1>1 DEF Attending, Made
<1>3. ASSUME NEW r \in Rows, BeginDelete(w, r)
      PROVE  MediaTypeOK'
  <2>1. source' \in [Workers -> [key : Keys \cup {0}, variants : SUBSET Names]]
    BY <1>3, SourceTypes DEF BeginDelete, Sources
  <2> QED BY <1>3, <2>1 DEF BeginDelete, Goto, Places, rows, transactions, counts, history
<1>4. CASE CheckShared(w)
  <2>1. t \in Made /\ source[w].key = key[t]
    BY <1>1, <1>4 DEF CheckShared, Deleting, Attending
  <2>2. source[w].variants \in SUBSET Names
    BY SourceTypes
  <2>3. pc' \in [Workers -> Places] /\ left' \in [Workers -> SUBSET (Names \cup {Original})]
    <3>1. pc' \in [Workers -> Places]
      BY <1>4 DEF CheckShared, Goto, Places
    <3>2. left' = left \/ left' = [left EXCEPT ![w] = {Original} \cup source[w].variants]
      BY <1>4 DEF CheckShared
    <3> QED BY <2>2, <3>1, <3>2
  <2>4. source[w].key \in Keys
    BY <2>1, KeyOfMade
  <2>5. condemned' \subseteq Keys /\ spoilt' \subseteq Rows
    BY <1>4, <2>4 DEF CheckShared, Existing
  <2> QED BY <1>4, <2>3, <2>5 DEF CheckShared, rows, transactions, counts
<1>5. CASE RemoveObject(w)
  <2>1. stored' \subseteq Keys \X (Names \cup {Original})
    BY <1>5 DEF RemoveObject
  <2>2. left' \in [Workers -> SUBSET (Names \cup {Original})]
    BY <1>5 DEF RemoveObject
  <2> QED BY <1>5, <2>1, <2>2 DEF RemoveObject, rows, transactions, counts, history
<1>6. CASE DropRow(w)
  <2>1. Finish(w)
    BY <1>6 DEF DropRow
  <2>2. status' \in [Rows -> {"none", "uploading", "processing", "ready", "failed", "gone"}]
    BY <1>6 DEF DropRow, Saved
  <2> QED BY <1>6, <2>1, <2>2, FinishType DEF DropRow, transactions, counts, history
<1>7. CASE Crash(w)
  <2>1. RollBack(w) /\ MaxCrashes \in Nat
    BY <1>7, MediaAssumption DEF Crash
  <2>2. crashes' \in 0..MaxCrashes
    BY <1>7, <2>1 DEF Crash
  <2>3. spoilt' \subseteq Rows /\ overtaken' \subseteq Rows
    BY <1>1, <1>2, <1>7 DEF Crash, Deleting
  <2> QED BY <1>7, <2>1, <2>2, <2>3, RolledBack, FinishType DEF Crash
<1> QED BY <1>3, <1>4, <1>5, <1>6, <1>7 DEF Delete

LEMMA MediaTypeKept ==
    ASSUME MediaInv, [MediaNext]_mediaVars
    PROVE  MediaTypeOK'
<1> USE DEF MediaInv
<1>1. CASE \E r \in Rows : RepeatTask(r)
  BY <1>1 DEF RepeatTask, MediaTypeOK, rows, locals, transactions, counts, history
<1>2. CASE UNCHANGED mediaVars
  BY <1>2 DEF MediaTypeOK, mediaVars, rows, locals, transactions, counts, history
<1> QED BY <1>1, <1>2, UploadType, ProcessType, DeleteType DEF MediaNext, Work

-----------------------------------------------------------------------------
(* MediaAssets: what a step leaves alone *)

LEMMA FinishLocals ==
    ASSUME MediaTypeOK, NEW w \in Workers, Finish(w) \/ Uploaded(w)
    PROVE  /\ pc'[w] \in {"idle", "import"}
           /\ \A v \in Workers \ {w} : /\ pc'[v] = pc[v] /\ target'[v] = target[v]
                                       /\ source'[v] = source[v] /\ left'[v] = left[v]
  BY DEF Finish, Uploaded, Rest, Goto, MediaTypeOK

\* The request of another worker goes on where it was.
LEMMA OwnLocals ==
    ASSUME MediaTypeOK, NEW w \in Workers, Work(w), NEW v \in Workers, v # w
    PROVE  /\ pc'[v] = pc[v] /\ target'[v] = target[v]
           /\ source'[v] = source[v] /\ left'[v] = left[v]
<1>1. ASSUME Finish(w) \/ Uploaded(w)
      PROVE  /\ pc'[v] = pc[v] /\ target'[v] = target[v]
             /\ source'[v] = source[v] /\ left'[v] = left[v]
  BY <1>1, FinishLocals
<1> USE DEF MediaTypeOK, Goto
<1>2. CASE FindDuplicate(w) \/ UploadOriginal(w) \/ InsertNew(w) \/ Enqueue(w)
  BY <1>2 DEF FindDuplicate, UploadOriginal, InsertNew, Enqueue, locals
<1>3. CASE \/ InsertCopy(w) \/ UploadFails(w) \/ SaveAnnounced(w) \/ DropRow(w) \/ Crash(w)
           \/ Commit(w) \/ ImportFails(w)
  BY <1>1, <1>3 DEF InsertCopy, UploadFails, SaveAnnounced, DropRow, Crash, Commit, ImportFails, RollBack
<1>9. CASE BeginImport(w)
  BY <1>9 DEF BeginImport, locals
<1>4. CASE \E r \in Rows : Deliver(w, r) \/ BeginDelete(w, r)
  BY <1>4 DEF Deliver, BeginDelete
<1>5. CASE MarkProcessing(w)
  BY <1>1, <1>5 DEF MarkProcessing, AnswerTask, locals
<1>6. CASE SaveReady(w) \/ SaveFailed(w)
  BY <1>1, <1>6 DEF SaveReady, SaveFailed, AnswerTask
<1>7. CASE Download(w) \/ UploadVariant(w) \/ ProcessingFails(w)
  BY <1>7 DEF Download, UploadVariant, ProcessingFails, locals
<1>8. CASE CheckShared(w) \/ RemoveObject(w)
  BY <1>8 DEF CheckShared, RemoveObject
<1> QED BY <1>2, <1>3, <1>4, <1>5, <1>6, <1>7, <1>8, <1>9 DEF Work, Import, Upload, Process, Delete

\* A step that inserts no row changes the status of rows there are.
LEMMA SavedMade ==
    ASSUME MediaTypeOK, NEW r \in Made, NEW new, new # "none", Saved(r, new)
    PROVE  Made' = Made
  BY DEF MediaTypeOK, Made, Saved

LEMMA InsertedRow ==
    ASSUME MediaInv, NEW w \in Workers, NEW r \in Rows, NEW s, NEW vs, NEW new, new # "none",
           Insert(w, r, s, vs, new)
    PROVE  /\ r \notin Made /\ Made' = Made \cup {r}
           /\ \A x \in Made : /\ key'[x] = key[x] /\ status'[x] = status[x]
                              /\ variants'[x] = variants[x]
           /\ key'[r] = s /\ variants'[r] = vs /\ status'[r] = new
           /\ \A x \in 1..r : x \in Made'
<1>1. r \notin Made /\ \A x \in 1..r : x = r \/ x \in Made
  BY InsertedNext, MediaAssumption DEF Insert, MediaInv
<1>2. Made' = Made \cup {r}
  BY DEF MediaInv, MediaTypeOK, Insert, Made
<1> QED BY <1>1, <1>2 DEF MediaInv, MediaTypeOK, Insert, Made

Inserts(w, r) ==
    \/ InsertCopy(w) /\ Insert(w, r, source[w].key, source[w].variants, "ready")
    \/ InsertNew(w) /\ Insert(w, r, source[w].key, {}, "uploading")

\* Rows and keys stay, and objects that nobody has condemned.
LEMMA WorkKeeps ==
    ASSUME MediaInv, NEW w \in Workers, Work(w)
    PROVE  /\ \/ \E r \in Rows : Inserts(w, r)
              \/ Made' = Made /\ UNCHANGED key
           /\ uploads' = uploads \/ (FindDuplicate(w) /\ uploads' = uploads + 1)
           /\ condemned' = condemned \/ (CheckShared(w) /\ condemned' = condemned \cup {source[w].key})
           /\ \A k : k \notin condemned => \A n : <<k, n>> \in stored => <<k, n>> \in stored'
<1>1. MediaTypeOK /\ Attending(w)
  BY DEF MediaInv
<1>2. CASE FindDuplicate(w)
  BY <1>2 DEF FindDuplicate, Made, rows, history
<1>3. CASE InsertCopy(w) \/ InsertNew(w)
  BY <1>3 DEF InsertCopy, InsertNew, Inserts, transactions, counts, history
<1>4. CASE UploadOriginal(w) \/ Enqueue(w) \/ BeginImport(w) \/ Commit(w)
  BY <1>4 DEF UploadOriginal, Enqueue, BeginImport, Commit, Made, rows, counts, history
<1>13. ASSUME RollBack(w)
       PROVE  Made' = Made
  <2>1. uncommitted[w] \subseteq Made
    BY DEF MediaInv, RowsInOrder
  <2> QED BY <1>1, <1>13, <2>1, RolledBack DEF Made
<1>14. CASE UploadFails(w) \/ ImportFails(w)
  BY <1>13, <1>14 DEF UploadFails, ImportFails, counts, history
<1>5. CASE SaveAnnounced(w)
  <2>1. target[w] \in Made
    BY <1>1, <1>5 DEF SaveAnnounced, Attending
  <2>2. Made' = Made
    <3>1. CASE Saved(target[w], "processing")
      BY <1>1, <2>1, <3>1, SavedMade
    <3>2. CASE UNCHANGED status
      BY <3>2 DEF Made
    <3> QED BY <1>5, <3>1, <3>2 DEF SaveAnnounced
  <2> QED BY <1>5, <2>2 DEF SaveAnnounced, transactions, counts
<1>6. CASE \E r \in Rows : Deliver(w, r) \/ BeginDelete(w, r)
  BY <1>6 DEF Deliver, BeginDelete, Made, rows, transactions, counts, history
<1>7. CASE MarkProcessing(w) \/ SaveReady(w) \/ SaveFailed(w)
  <2>1. target[w] \in Made
    BY <1>1, <1>7 DEF MarkProcessing, SaveReady, SaveFailed, Attending, Processing
  <2>2. Made' = Made
    <3>1. ASSUME NEW new \in {"processing", "ready", "failed"}, Saved(target[w], new)
          PROVE  Made' = Made
      BY <1>1, <2>1, <3>1, SavedMade
    <3>2. CASE UNCHANGED status
      BY <3>2 DEF Made
    <3> QED BY <1>7, <3>1, <3>2 DEF MarkProcessing, SaveReady, SaveFailed
  <2> QED BY <1>7, <2>2 DEF MarkProcessing, SaveReady, SaveFailed, transactions, counts, history
<1>8. CASE Download(w) \/ UploadVariant(w) \/ ProcessingFails(w)
  BY <1>8 DEF Download, UploadVariant, ProcessingFails, Made, rows, transactions, counts, history
<1>9. CASE CheckShared(w)
  BY <1>9 DEF CheckShared, Made, rows, transactions, counts
<1>10. CASE RemoveObject(w)
  <2>1. source[w].key \in condemned
    BY <1>1, <1>10 DEF RemoveObject, Attending
  <2> QED BY <1>10, <2>1 DEF RemoveObject, Made, rows, transactions, counts, history
<1>11. CASE DropRow(w)
  <2>1. target[w] \in Made
    BY <1>1, <1>11 DEF DropRow, Attending, Deleting
  <2>2. Made' = Made
    BY <1>1, <1>11, <2>1, SavedMade DEF DropRow
  <2> QED BY <1>11, <2>2 DEF DropRow, transactions, counts, history
<1>12. CASE Crash(w)
  BY <1>12, <1>13 DEF Crash
<1> QED BY <1>2, <1>3, <1>4, <1>5, <1>6, <1>7, <1>8, <1>9, <1>10, <1>11, <1>12, <1>14
        DEF Work, Import, Upload, Process, Delete

\* A row is uncommitted from its insertion in an import to the end of that.
LEMMA UncommittedStep ==
    ASSUME MediaInv, NEW w \in Workers, Work(w), NEW v \in Workers, NEW r \in uncommitted'[v]
    PROVE  r \in Rows /\ (r \in uncommitted[v] \/ Inserts(w, r))
<1>1. MediaTypeOK /\ MediaTypeOK'
  BY MediaTypeKept DEF MediaInv, MediaNext
<1>2. r \in Rows
  BY <1>1 DEF MediaTypeOK
<1>3. CASE InsertCopy(w) \/ InsertNew(w)
  <2>1. PICK x \in Rows : Inserts(w, x)
    BY <1>3 DEF InsertCopy, InsertNew, Inserts
  <2>2. uncommitted' = uncommitted \/ uncommitted' = [uncommitted EXCEPT ![w] = @ \cup {x}]
    BY <2>1 DEF Inserts, Insert
  <2>3. uncommitted \in [Workers -> SUBSET Rows]
    BY <1>1 DEF MediaTypeOK
  <2>4. CASE r \notin uncommitted[v]
    <3>1. r = x
      BY <2>2, <2>3, <2>4
    <3> QED BY <1>2, <2>1, <3>1
  <2> QED BY <1>2, <2>4
<1>4. CASE UNCHANGED uncommitted
  BY <1>2, <1>4
<1>5. CASE UploadFails(w) \/ ImportFails(w) \/ Crash(w)
  BY <1>1, <1>2, <1>5, RolledBack DEF UploadFails, ImportFails, Crash
<1>6. CASE Commit(w)
  BY <1>1, <1>2, <1>6 DEF Commit, MediaTypeOK
<1> QED BY <1>3, <1>4, <1>5, <1>6
        DEF Work, Import, Upload, Process, Delete, BeginImport, FindDuplicate, UploadOriginal,
            Enqueue, SaveAnnounced, Deliver, BeginDelete, MarkProcessing, Download, UploadVariant,
            ProcessingFails, SaveReady, SaveFailed, CheckShared, RemoveObject, DropRow, transactions

\* A task is made for a row there is, by the upload that inserted it.
LEMMA TaskOfMade ==
    ASSUME MediaInv, NEW w \in Workers, Work(w), NEW r \in Rows, task'[r] # "none"
    PROVE  r \in Made
<1>1. MediaTypeOK /\ Attending(w) /\ (task[r] # "none" => r \in Made)
  BY DEF MediaInv, RowsInOrder
<1>2. ASSUME NEW new, task' = [task EXCEPT ![target[w]] = new], target[w] \in Made
      PROVE  r \in Made
  BY <1>1, <1>2 DEF MediaTypeOK
<1>3. CASE UNCHANGED task
  BY <1>1, <1>3
<1>4. CASE Enqueue(w)
  BY <1>1, <1>2, <1>4 DEF Enqueue, Attending
<1>5. CASE MarkProcessing(w) \/ SaveReady(w) \/ SaveFailed(w)
  <2>1. target[w] \in Made
    BY <1>1, <1>5 DEF MarkProcessing, SaveReady, SaveFailed, Attending, Processing
  <2>2. UNCHANGED task \/ task' = [task EXCEPT ![target[w]] = "done"]
    BY <1>5 DEF MarkProcessing, SaveReady, SaveFailed, AnswerTask
  <2> QED BY <1>2, <1>3, <2>1, <2>2
<1>6. CASE \E x \in Rows : Deliver(w, x)
  BY <1>1, <1>6 DEF Deliver, MediaTypeOK
<1> QED BY <1>3, <1>4, <1>5, <1>6
        DEF Work, Import, Upload, Process, Delete, BeginImport, Commit, ImportFails, FindDuplicate, InsertCopy, UploadOriginal, InsertNew,
            UploadFails, SaveAnnounced, Download, UploadVariant, ProcessingFails, BeginDelete,
            CheckShared, RemoveObject, DropRow, Crash

LEMMA OrderKept ==
    ASSUME MediaInv, NEW w \in Workers, Work(w)
    PROVE  RowsInOrder'
<1>1. MediaTypeOK /\ RowsInOrder /\ Attending(w)
  BY DEF MediaInv
<1>2. uploads \in Nat /\ uploads' \in {uploads, uploads + 1}
  BY <1>1, WorkKeeps, MediaAssumption DEF MediaTypeOK
<1>3. Made \subseteq Made' /\ \A r \in Made : key'[r] = key[r]
  BY WorkKeeps, InsertedRow DEF Inserts
<1>4. \A r \in Rows : task'[r] # "none" => r \in Made'
  BY <1>3, TaskOfMade
<1>5. condemned' \subseteq {key'[r] : r \in Made'}
  <2>1. condemned \subseteq {key'[r] : r \in Made'}
    BY <1>1, <1>3 DEF RowsInOrder
  <2>2. CASE CheckShared(w)
    <3>1. target[w] \in Made /\ source[w].key = key[target[w]]
      BY <1>1, <2>2 DEF CheckShared, Attending, Deleting
    <3>2. source[w].key \in {key'[r] : r \in Made'}
      BY <1>3, <3>1
    <3> QED BY <2>1, <3>2, WorkKeeps
  <2> QED BY <2>1, <2>2, WorkKeeps
<1>8. ASSUME NEW v \in Workers, NEW r \in uncommitted'[v]
      PROVE  r \in Made'
  BY <1>1, <1>3, <1>8, UncommittedStep, InsertedRow DEF RowsInOrder, Inserts
<1>6. CASE Made' = Made
  BY <1>1, <1>2, <1>3, <1>4, <1>5, <1>6, <1>8 DEF RowsInOrder
<1>7. ASSUME NEW r \in Rows, Inserts(w, r)
      PROVE  RowsInOrder'
  <2>1. /\ Made' = Made \cup {r} /\ key'[r] = source[w].key
        /\ \A x \in 1..r : x \in Made'
    BY <1>7, InsertedRow DEF Inserts
  <2>2. source[w].key \in 1..uploads
    BY <1>1, <1>7 DEF Inserts, InsertCopy, InsertNew, Attending, Uploading, RowsInOrder
  <2> QED BY <1>1, <1>2, <1>3, <1>4, <1>5, <1>8, <2>1, <2>2 DEF RowsInOrder
<1> QED BY <1>6, <1>7, WorkKeeps

\* An upload gets its key from FindDuplicate and keeps it.
LEMMA UploadingStep ==
    ASSUME MediaInv, NEW w \in Workers, Work(w), pc'[w] \in Uploading
    PROVE  \/ source'[w].key = uploads + 1 /\ uploads' = uploads + 1
           \/ pc[w] \in Uploading /\ source'[w] = source[w]
<1>1. MediaTypeOK
  BY DEF MediaInv
<1> USE <1>1 DEF Uploading, Goto
<1>2. ~Finish(w) /\ ~Uploaded(w)
  BY FinishLocals
<1>8. CASE BeginImport(w)
  BY <1>8 DEF BeginImport, MediaTypeOK
<1>3. CASE FindDuplicate(w)
  BY <1>3 DEF FindDuplicate, MediaTypeOK, NoSource
<1>4. CASE UploadOriginal(w)
  BY <1>4 DEF UploadOriginal, locals
<1>5. CASE InsertNew(w) \/ Enqueue(w) \/ \E r \in Rows : Deliver(w, r) \/ BeginDelete(w, r)
  BY <1>5 DEF InsertNew, Enqueue, Deliver, BeginDelete, MediaTypeOK
<1>6. CASE MarkProcessing(w) \/ Download(w) \/ UploadVariant(w) \/ ProcessingFails(w)
  BY <1>2, <1>6 DEF MarkProcessing, AnswerTask, Download, UploadVariant, ProcessingFails,
                    MediaTypeOK
<1>7. CASE CheckShared(w) \/ RemoveObject(w)
  BY <1>7 DEF CheckShared, RemoveObject, MediaTypeOK
<1> QED BY <1>2, <1>3, <1>4, <1>5, <1>6, <1>7, <1>8
        DEF Work, Import, Upload, Process, Delete, Commit, ImportFails, RollBack, InsertCopy,
            UploadFails, SaveAnnounced, SaveReady,
            SaveFailed, AnswerTask, DropRow, Crash

\* What a worker relies on stands whatever the others do.
LEMMA OthersAttend ==
    ASSUME MediaInv, NEW w \in Workers, Work(w), NEW v \in Workers, v # w
    PROVE  Attending(v)'
<1>1. MediaTypeOK /\ RowsInOrder /\ Attending(v) /\ Attending(w)
  BY DEF MediaInv
<1>2. \A u \in Workers \ {w} : /\ pc'[u] = pc[u] /\ target'[u] = target[u]
                               /\ source'[u] = source[u] /\ left'[u] = left[u]
  BY <1>1, OwnLocals
<1>3. Made \subseteq Made' /\ \A r \in Made : key'[r] = key[r]
  BY WorkKeeps, InsertedRow DEF Inserts
<1>4. /\ uploads \in Nat /\ uploads' \in {uploads, uploads + 1}
      /\ condemned \subseteq condemned'
      /\ \A k : k \notin condemned => \A n : <<k, n>> \in stored => <<k, n>> \in stored'
  BY <1>1, WorkKeeps, MediaAssumption DEF MediaTypeOK
<1>5. pc[v] \in {"enqueue", "announce"} \cup Processing \cup Deleting => target[v] \in Made'
  BY <1>1, <1>3 DEF Attending
<1>6. pc[v] \in Deleting => source[v].key = key'[target[v]]
  BY <1>1, <1>3 DEF Attending
<1>7. ASSUME pc[v] \in Uploading
      PROVE  /\ source[v].key \in 1..uploads'
             /\ \A r \in Made' : key'[r] # source[v].key
             /\ \A u \in Workers \ {v} : pc'[u] \in Uploading => source'[u].key # source[v].key
  <2>1. /\ source[v].key \in 1..uploads
        /\ \A r \in Made : key[r] # source[v].key
        /\ \A u \in Workers \ {v} : pc[u] \in Uploading => source[u].key # source[v].key
    BY <1>1, <1>7 DEF Attending
  <2>2. source[v].key \in 1..uploads' /\ source[v].key # uploads + 1
    BY <1>4, <2>1
  <2>3. ASSUME NEW r \in Made', r \notin Made
        PROVE  key'[r] # source[v].key
    <3>1. Made' # Made
      BY <2>3
    <3>2. PICK x \in Rows : Inserts(w, x)
      BY <3>1, WorkKeeps
    <3>3. r = x /\ key'[x] = source[w].key
      BY <2>3, <3>2, InsertedRow DEF Inserts
    <3>4. CASE InsertCopy(w)
      BY <1>1, <2>1, <3>3, <3>4 DEF InsertCopy, Attending
    <3>5. CASE InsertNew(w)
      BY <2>1, <3>3, <3>5 DEF InsertNew, Uploading
    <3> QED BY <3>2, <3>4, <3>5 DEF Inserts
  <2>4. ASSUME NEW u \in Workers \ {v}, pc'[u] \in Uploading
        PROVE  source'[u].key # source[v].key
    <3>1. CASE u = w
      BY <2>1, <2>2, <2>4, <3>1, UploadingStep
    <3>2. CASE u # w
      BY <1>2, <2>1, <2>4, <3>2
    <3> QED BY <3>1, <3>2
  <2> QED BY <1>3, <2>1, <2>2, <2>3, <2>4
<1>8. ASSUME pc[v] = "copy"
      PROVE  /\ \E r \in Made' : key'[r] = source[v].key
             /\ source[v].variants = Names
             /\ source[v].key \in condemned' \/ Intact(source[v].key)'
  <2>1. source[v].key \in condemned \/ Intact(source[v].key)
    BY <1>1, <1>8 DEF Attending
  <2>2. source[v].key \in condemned' \/ \A n \in Names : <<source[v].key, n>> \in stored'
    BY <1>4, <2>1 DEF Intact
  <2>3. source'[v] = source[v]
    BY <1>2
  <2> QED BY <1>1, <1>3, <1>8, <2>2, <2>3 DEF Attending, Intact
<1>9. ASSUME pc[v] = "variants"
      PROVE  \/ key'[target[v]] \in condemned'
             \/ \A n \in Names \ left[v] : <<key'[target[v]], n>> \in stored'
  BY <1>1, <1>3, <1>4, <1>9 DEF Attending, Processing
<1>10. pc[v] = "remove" => source[v].key \in condemned'
  BY <1>1, <1>4 DEF Attending
<1>11. /\ pc'[v] = pc[v] /\ target'[v] = target[v] /\ source'[v] = source[v] /\ left'[v] = left[v]
  BY <1>2
<1> QED BY <1>5, <1>6, <1>7, <1>8, <1>9, <1>10, <1>11
        DEF Attending, Processing, Deleting, Uploading, Intact

\* Each step of a request leaves the worker with what the next one relies on.
LEMMA UploadAttends ==
    ASSUME MediaInv, NEW w \in Workers, FindDuplicate(w) \/ Import(w) \/ Upload(w)
    PROVE  Attending(w)'
<1>1. MediaTypeOK /\ RowsInOrder /\ Attending(w) /\ ReadyIntact /\ Work(w)
  BY DEF MediaInv, Work
<1> USE DEF Processing, Deleting, Uploading
<1>2. CASE FindDuplicate(w) /\ Duplicates(w) = {}
  <2>1. pc'[w] = "upload" /\ source'[w].key = uploads + 1 /\ uploads' = uploads + 1
    BY <1>1, <1>2 DEF FindDuplicate, Goto, MediaTypeOK, NoSource
  <2>2. Made' = Made /\ UNCHANGED key /\ uploads \in Nat
    BY <1>1, <1>2, MediaAssumption DEF FindDuplicate, rows, Made, MediaTypeOK
  <2>3. \A r \in Made : key[r] # uploads + 1
    BY <1>1, <2>2 DEF RowsInOrder
  <2>4. ASSUME NEW v \in Workers \ {w}, pc'[v] \in Uploading
        PROVE  source'[v].key # uploads + 1
    <3>1. pc[v] \in Uploading /\ source'[v] = source[v]
      BY <1>1, <2>4, OwnLocals
    <3>2. source[v].key \in 1..uploads
      BY <3>1 DEF MediaInv, Attending
    <3> QED BY <2>2, <3>1, <3>2
  <2>5. uploads + 1 \in 1..uploads'
    BY <2>1, <2>2
  <2> QED BY <2>1, <2>2, <2>3, <2>4, <2>5 DEF Attending
<1>3. CASE FindDuplicate(w) /\ Duplicates(w) # {}
  <2> DEFINE r == Max(Duplicates(w))
  <2>1. r \in Rows /\ status[r] = "ready"
    BY <1>3, LatestDuplicate, MediaAssumption
  <2> HIDE DEF r
  <2>2. pc'[w] = "copy" /\ source'[w] = CopyOf(r)
    BY <1>1, <1>3 DEF FindDuplicate, Goto, MediaTypeOK, r
  <2>3. UNCHANGED <<status, key, variants, stored, condemned>>
    BY <1>3 DEF FindDuplicate, rows, history
  <2>4. r \in Made /\ variants[r] = Names /\ (key[r] \in condemned \/ Intact(key[r]))
    BY <1>1, <2>1 DEF ReadyIntact, Made
  <2>5. source'[w].key = key[r] /\ source'[w].variants = Names
    BY <2>2, <2>4 DEF CopyOf
  <2> QED BY <2>2, <2>3, <2>4, <2>5 DEF Attending, Intact, Made
<1>4. CASE InsertCopy(w) \/ UploadFails(w) \/ SaveAnnounced(w) \/ Import(w)
  <2>1. pc'[w] \in {"idle", "import"}
    BY <1>1, <1>4, FinishLocals
       DEF InsertCopy, UploadFails, SaveAnnounced, Import, BeginImport, Commit, ImportFails,
           RollBack, Goto, MediaTypeOK
  <2> QED BY <2>1 DEF Attending
<1>5. CASE UploadOriginal(w)
  <2>1. pc[w] = "upload" /\ pc'[w] = "insert" /\ UNCHANGED <<locals, rows, transactions, counts>>
    BY <1>1, <1>5 DEF UploadOriginal, Goto, MediaTypeOK
  <2>2. \A v \in Workers \ {w} : pc'[v] = pc[v]
    BY <1>1, OwnLocals
  <2> QED BY <1>1, <2>1, <2>2 DEF Attending, Made, rows, locals, transactions, counts
<1>6. CASE InsertNew(w)
  <2>1. PICK r \in Rows : /\ Insert(w, r, source[w].key, {}, "uploading")
                          /\ target' = [target EXCEPT ![w] = r]
    BY <1>6 DEF InsertNew
  <2>2. pc'[w] = "enqueue" /\ target'[w] = r /\ r \in Made'
    BY <1>1, <1>6, <2>1, InsertedRow DEF InsertNew, Goto, MediaTypeOK
  <2> QED BY <2>2 DEF Attending
<1>7. CASE Enqueue(w)
  <2>1. pc[w] = "enqueue" /\ pc'[w] = "announce" /\ UNCHANGED <<locals, rows>>
    BY <1>1, <1>7 DEF Enqueue, Goto, MediaTypeOK
  <2> QED BY <1>1, <2>1 DEF Attending, Made, rows, locals
<1> QED BY <1>2, <1>3, <1>4, <1>5, <1>6, <1>7 DEF Upload

LEMMA ProcessAttends ==
    ASSUME MediaInv, NEW w \in Workers, Process(w) \/ \E r \in Rows : Deliver(w, r)
    PROVE  Attending(w)'
<1>1. MediaTypeOK /\ Attending(w) /\ Work(w)
  BY DEF MediaInv, Work
<1> USE DEF Processing, Deleting, Uploading
<1>2. ASSUME NEW r \in Rows, Deliver(w, r)
      PROVE  Attending(w)'
  <2>1. CASE r \in Visible(w)
    <3>1. pc'[w] = "begin" /\ target'[w] = r /\ r \in Made'
      BY <1>1, <1>2, <2>1 DEF Deliver, Goto, MediaTypeOK, Visible, Existing, Made, rows
    <3> QED BY <3>1 DEF Attending
  <2>2. CASE r \notin Visible(w)
    <3>1. pc'[w] = "idle"
      BY <1>2, <2>2 DEF Deliver
    <3> QED BY <3>1 DEF Attending
  <2> QED BY <2>1, <2>2
<1>3. CASE Finish(w)
  <2>1. pc'[w] = "idle"
    BY <1>1, <1>3 DEF Finish, Rest, Goto, MediaTypeOK
  <2> QED BY <2>1 DEF Attending
<1>4. ASSUME ~Finish(w), Process(w)
      PROVE  target[w] \in Made' /\ target'[w] = target[w] /\ UNCHANGED <<key, condemned>>
  <2>1. target[w] \in Made
    BY <1>1, <1>4 DEF Process, MarkProcessing, Download, UploadVariant, ProcessingFails,
                      SaveReady, SaveFailed, AnswerTask, Attending
  <2>2. Made \subseteq Made'
    <3>1. CASE Made' = Made
      BY <3>1
    <3>2. ASSUME NEW x \in Rows, Inserts(w, x)
          PROVE  Made \subseteq Made'
      BY <3>2, InsertedRow DEF Inserts
    <3> QED BY <1>1, <3>1, <3>2, WorkKeeps
  <2> QED BY <1>4, <2>1, <2>2
        DEF Process, MarkProcessing, Download, UploadVariant, ProcessingFails, SaveReady,
            SaveFailed, AnswerTask, rows, locals, history
<1>5. CASE MarkProcessing(w) /\ ~Finish(w)
  <2>1. pc'[w] = "download"
    BY <1>1, <1>5 DEF MarkProcessing, AnswerTask, Goto, MediaTypeOK
  <2> QED BY <1>4, <1>5, <2>1 DEF Attending, Process
<1>6. CASE Download(w) /\ ~Finish(w)
  <2>1. pc'[w] = "variants" /\ left'[w] = Names
    BY <1>1, <1>6 DEF Download, Goto, MediaTypeOK
  <2> QED BY <1>4, <1>6, <2>1 DEF Attending, Process
<1>7. CASE UploadVariant(w) /\ ~Finish(w)
  <2>1. PICK n \in left[w] : /\ stored' = stored \cup {<<key[target[w]], n>>}
                             /\ left' = [left EXCEPT ![w] = @ \ {n}]
    BY <1>7 DEF UploadVariant
  <2>2. pc[w] = "variants" /\ UNCHANGED pc
    BY <1>7 DEF UploadVariant
  <2>3. left'[w] = left[w] \ {n}
    BY <1>1, <2>1 DEF MediaTypeOK
  <2> QED BY <1>1, <1>4, <1>7, <2>1, <2>2, <2>3 DEF Attending, Process
<1>8. CASE ProcessingFails(w) /\ ~Finish(w)
  <2>1. pc'[w] = "failing"
    BY <1>1, <1>8 DEF ProcessingFails, Goto, MediaTypeOK
  <2> QED BY <1>4, <1>8, <2>1 DEF Attending, Process
<1> QED BY <1>2, <1>3, <1>5, <1>6, <1>7, <1>8 DEF Process, SaveReady, SaveFailed, AnswerTask

LEMMA DeleteAttends ==
    ASSUME MediaInv, NEW w \in Workers, Delete(w) \/ Crash(w) \/ \E r \in Rows : BeginDelete(w, r)
    PROVE  Attending(w)'
<1>1. MediaTypeOK /\ Attending(w)
  BY DEF MediaInv
<1> USE DEF Processing, Deleting, Uploading
<1>2. ASSUME NEW r \in Rows, BeginDelete(w, r)
      PROVE  Attending(w)'
  <2>1. /\ pc'[w] = "shared" /\ target'[w] = r /\ source'[w] = CopyOf(r)
        /\ r \in Made' /\ UNCHANGED key
    BY <1>1, <1>2 DEF BeginDelete, Goto, MediaTypeOK, Visible, Existing, Made, rows
  <2> QED BY <2>1 DEF Attending, CopyOf
<1>3. CASE CheckShared(w)
  <2>1. /\ pc[w] = "shared" /\ UNCHANGED <<target, source, key, status>>
        /\ pc'[w] = "drop" \/ (pc'[w] = "remove" /\ source[w].key \in condemned')
    BY <1>1, <1>3 DEF CheckShared, Goto, MediaTypeOK, rows
  <2> QED BY <1>1, <2>1 DEF Attending, Made
<1>4. CASE RemoveObject(w)
  <2>1. pc[w] = "remove" /\ UNCHANGED <<pc, target, source, key, status, condemned>>
    BY <1>4 DEF RemoveObject, rows, history
  <2> QED BY <1>1, <2>1 DEF Attending, Made
<1>5. CASE DropRow(w) \/ Crash(w)
  <2>1. pc'[w] \in {"idle", "import"}
    BY <1>1, <1>5, FinishLocals DEF DropRow, Crash, RollBack
  <2> QED BY <2>1 DEF Attending
<1> QED BY <1>2, <1>3, <1>4, <1>5 DEF Delete

\* How a row comes to be ready.
LEMMA ReadyStep ==
    ASSUME MediaInv, NEW w \in Workers, Work(w), NEW r \in Rows, status'[r] = "ready"
    PROVE  \/ SaveReady(w) /\ r = target[w]
           \/ InsertCopy(w) /\ Inserts(w, r)
           \/ r \in Made /\ status[r] = "ready" /\ variants'[r] = variants[r] /\ key'[r] = key[r]
<1>1. MediaTypeOK
  BY DEF MediaInv
<1>2. CASE InsertCopy(w) \/ InsertNew(w)
  <2>1. PICK x \in Rows : Inserts(w, x)
    BY <1>2 DEF InsertCopy, InsertNew, Inserts
  <2>2. CASE r = x
    BY <2>1, <2>2, InsertedRow DEF Inserts
  <2>3. CASE r # x
    BY <1>1, <2>1, <2>3 DEF Inserts, Insert, Made, MediaTypeOK
  <2> QED BY <2>2, <2>3
<1>3. CASE SaveReady(w)
  BY <1>1, <1>3 DEF SaveReady, Saved, Made, MediaTypeOK
<1>4. CASE UNCHANGED rows
  BY <1>4 DEF rows, Made
<1>5. CASE /\ UNCHANGED <<key, variants>>
           /\ \E new \in {"processing", "failed", "gone"} : Saved(target[w], new)
  BY <1>1, <1>5 DEF Saved, Made, MediaTypeOK
<1>6. CASE RollBack(w) /\ UNCHANGED <<key, variants>>
  BY <1>1, <1>6, RolledBack DEF Made
<1> QED BY <1>2, <1>3, <1>4, <1>5, <1>6
        DEF Work, Import, Upload, Process, Delete, BeginImport, Commit, ImportFails, FindDuplicate,
            UploadOriginal, Enqueue, UploadFails, SaveAnnounced, Deliver, BeginDelete, MarkProcessing, Download, UploadVariant,
            ProcessingFails, SaveFailed, CheckShared, RemoveObject, DropRow, Crash, rows

\* A row that becomes ready has its variants in the bucket, if the key is not
\* condemned; one that was ready keeps them.
LEMMA ReadyKept ==
    ASSUME MediaInv, NEW w \in Workers, Work(w), NEW r \in Rows, status'[r] = "ready"
    PROVE  /\ variants'[r] = Names
           /\ key'[r] \in condemned' \/ \A n \in Names : <<key'[r], n>> \in stored'
<1>1. MediaTypeOK /\ Attending(w) /\ ReadyIntact
  BY DEF MediaInv
<1>2. /\ condemned \subseteq condemned'
      /\ \A k : k \notin condemned => \A n : <<k, n>> \in stored => <<k, n>> \in stored'
  BY WorkKeeps
<1>3. CASE SaveReady(w) /\ r = target[w]
  <2>1. /\ pc[w] = "variants" /\ left[w] = {} /\ UNCHANGED <<key, stored>>
        /\ variants'[r] = Names
    BY <1>1, <1>3 DEF SaveReady, MediaTypeOK
  <2>2. key[r] \in condemned \/ \A n \in Names : <<key[r], n>> \in stored
    BY <1>1, <1>3, <2>1 DEF Attending
  <2> QED BY <1>2, <2>1, <2>2
<1>4. CASE InsertCopy(w) /\ Inserts(w, r)
  <2>1. pc[w] = "copy" /\ Insert(w, r, source[w].key, source[w].variants, "ready")
    BY <1>4 DEF InsertCopy, InsertNew, Inserts
  <2>2. key'[r] = source[w].key /\ variants'[r] = source[w].variants
    BY <2>1, InsertedRow
  <2>3. /\ source[w].variants = Names
        /\ source[w].key \in condemned \/ \A n \in Names : <<source[w].key, n>> \in stored
    BY <1>1, <2>1 DEF Attending, Intact
  <2> QED BY <1>2, <2>2, <2>3
<1>5. CASE status[r] = "ready" /\ variants'[r] = variants[r] /\ key'[r] = key[r]
  <2>1. variants[r] = Names /\ (key[r] \in condemned \/ \A n \in Names : <<key[r], n>> \in stored)
    BY <1>1, <1>5 DEF ReadyIntact, Intact
  <2> QED BY <1>2, <1>5, <2>1
<1> QED BY <1>3, <1>4, <1>5, ReadyStep

\* A row that is gone stays so, unless it is the one inserted.
LEMMA ExistingStep ==
    ASSUME MediaInv, NEW w \in Workers, Work(w), NEW r \in Existing'
    PROVE  r \in Existing \/ Inserts(w, r)
<1>1. MediaTypeOK
  BY DEF MediaInv
<1>2. CASE InsertCopy(w) \/ InsertNew(w)
  <2>1. PICK x \in Rows : Inserts(w, x)
    BY <1>2 DEF InsertCopy, InsertNew, Inserts
  <2>2. r # x => status'[r] = status[r]
    BY <1>1, <2>1 DEF Inserts, Insert, MediaTypeOK, Existing
  <2> QED BY <2>1, <2>2 DEF Existing
<1>3. CASE UNCHANGED status
  BY <1>3 DEF Existing
<1>4. CASE target[w] \in Existing /\ \E new : Saved(target[w], new)
  BY <1>1, <1>4 DEF Existing, Saved, MediaTypeOK
<1>5. CASE Saved(target[w], "gone")
  BY <1>1, <1>5 DEF Existing, Saved, MediaTypeOK
<1>6. CASE RollBack(w)
  BY <1>1, <1>6, RolledBack DEF Existing
<1> QED BY <1>2, <1>3, <1>4, <1>5, <1>6
        DEF Work, Import, Upload, Process, Delete, BeginImport, Commit, ImportFails, FindDuplicate,
            UploadOriginal, Enqueue, UploadFails, SaveAnnounced, Deliver, BeginDelete, MarkProcessing, Download, UploadVariant,
            ProcessingFails, SaveReady, SaveFailed, CheckShared, RemoveObject, DropRow, Crash, rows

LEMMA SpoiltGrows ==
    ASSUME NEW w \in Workers, Work(w)
    PROVE  spoilt \subseteq spoilt'
  BY DEF Work, Import, Upload, Process, Delete, BeginImport, Commit, ImportFails, FindDuplicate, InsertCopy, UploadOriginal, InsertNew,
         Enqueue, UploadFails, SaveAnnounced, Deliver, BeginDelete, MarkProcessing, Download,
         UploadVariant, ProcessingFails, SaveReady, SaveFailed, CheckShared, RemoveObject,
         DropRow, Crash, history

\* A worker that removes the objects of a row does so until the row is gone,
\* or dies and leaves it spoilt.
LEMMA RemovalGoesOn ==
    ASSUME MediaInv, NEW w \in Workers, Work(w), pc[w] = "remove"
    PROVE  \/ pc'[w] = "remove" /\ target'[w] = target[w]
           \/ target[w] \notin Existing'
           \/ target[w] \in spoilt'
<1>1. MediaTypeOK
  BY DEF MediaInv
<1>2. RemoveObject(w) \/ DropRow(w) \/ Crash(w)
  BY DEF Work, Import, Upload, Process, Delete, BeginImport, Commit, ImportFails, FindDuplicate, InsertCopy, UploadOriginal, InsertNew,
         Enqueue, UploadFails, SaveAnnounced, Deliver, BeginDelete, MarkProcessing, Download,
         UploadVariant, ProcessingFails, SaveReady, SaveFailed, CheckShared
<1>3. CASE RemoveObject(w)
  BY <1>3 DEF RemoveObject
<1>4. CASE DropRow(w)
  BY <1>1, <1>4 DEF DropRow, Saved, Existing, MediaTypeOK
<1>5. CASE Crash(w)
  BY <1>5 DEF Crash
<1> QED BY <1>2, <1>3, <1>4, <1>5

LEMMA CondemnedKept ==
    ASSUME MediaInv, NEW w \in Workers, Work(w), NEW r \in Existing', key'[r] \in condemned'
    PROVE  r \in spoilt' \/ \E u \in Workers : target'[u] = r /\ pc'[u] = "remove"
<1>1. MediaTypeOK /\ RowsInOrder /\ Attending(w) /\ ReadyIntact /\ r \in Rows
  BY DEF MediaInv, Existing
<1>2. ASSUME Inserts(w, r)
      PROVE  r \in spoilt'
  <2>1. key'[r] = source[w].key
    BY <1>1, <1>2, InsertedRow DEF Inserts
  <2>2. condemned' = condemned
    BY <1>2 DEF Inserts, InsertCopy, InsertNew, history
  <2>3. CASE InsertNew(w)
    <3>1. source[w].key \notin condemned
      BY <1>1, <2>3 DEF InsertNew, Attending, Uploading, RowsInOrder
    <3> QED BY <2>1, <2>2, <3>1
  <2>4. CASE InsertCopy(w)
    <3>1. PICK x \in Rows :
            /\ Insert(w, x, source[w].key, source[w].variants, "ready")
            /\ spoilt' = IF source[w].key \in condemned THEN spoilt \cup {x} ELSE spoilt
      BY <2>4 DEF InsertCopy
    <3>2. x = 1 + Cardinality({y \in Rows : status[y] # "none"})
      BY <3>1 DEF Insert
    <3>3. r = 1 + Cardinality({y \in Rows : status[y] # "none"})
      BY <1>2 DEF Inserts, Insert
    <3> QED BY <2>1, <2>2, <3>1, <3>2, <3>3
  <2> QED BY <1>2, <2>3, <2>4 DEF Inserts
<1>3. ASSUME r \in Existing, ~Inserts(w, r)
      PROVE  r \in spoilt' \/ \E u \in Workers : target'[u] = r /\ pc'[u] = "remove"
  <2>1. r \in Made
    BY <1>3 DEF Existing, Made
  <2>2. key'[r] = key[r]
    BY <2>1, WorkKeeps, InsertedRow DEF Inserts
  <2>3. CASE key[r] \in condemned
    <3>1. r \in spoilt \/ \E u \in Workers : target[u] = r /\ pc[u] = "remove"
      BY <1>1, <1>3, <2>3 DEF ReadyIntact, BeingRemoved
    <3>2. ASSUME NEW u \in Workers, target[u] = r, pc[u] = "remove"
          PROVE  r \in spoilt' \/ (target'[u] = r /\ pc'[u] = "remove")
      <4>1. CASE u = w
        BY <3>2, <4>1, RemovalGoesOn
      <4>2. CASE u # w
        BY <1>1, <3>2, <4>2, OwnLocals
      <4> QED BY <4>1, <4>2
    <3> QED BY <3>1, <3>2, SpoiltGrows
  <2>4. CASE key[r] \notin condemned
    <3>1. CheckShared(w) /\ key[r] = source[w].key
      BY <2>2, <2>4, WorkKeeps
    <3>2. pc[w] = "shared" /\ source[w].key = key[target[w]]
      BY <1>1, <3>1 DEF CheckShared, Attending, Deleting
    <3>3. condemned' # condemned
      BY <2>2, <2>4
    <3>4. ~Shared(w, target[w]) /\ pc'[w] = "remove" /\ target' = target
      BY <1>1, <3>1, <3>3 DEF CheckShared, Goto, MediaTypeOK
    <3>5. r = target[w] \/ r \notin Visible(w)
      BY <1>3, <3>1, <3>2, <3>4 DEF Shared
    <3>6. spoilt' = spoilt \cup {x \in Existing \ Visible(w) : key[x] = source[w].key}
      BY <3>1, <3>4 DEF CheckShared
    <3> QED BY <1>3, <3>1, <3>4, <3>5, <3>6
  <2> QED BY <2>3, <2>4
<1> QED BY <1>2, <1>3, ExistingStep

-----------------------------------------------------------------------------
(* MediaAssets: answered tasks *)

Attended(r) == \E w \in Workers : target[w] = r /\ pc[w] \in Processing
Settled(r) == status[r] \in {"ready", "failed", "gone"}

LEMMA AnsweredMeans ==
    AnsweredIsSettled <=>
        \A r \in Rows : r \notin overtaken /\ task[r] = "done" /\ ~Attended(r) => Settled(r)
  BY DEF AnsweredIsSettled, Attended, Settled

\* What a step does to a row that its worker is not at.
LEMMA ElsewhereSettled ==
    ASSUME MediaInv, NEW w \in Workers, Work(w), NEW r \in Rows, r # target[w],
           r \notin overtaken', task'[r] = "done", ~Attended(r)'
    PROVE  Settled(r)'
<1>1. MediaTypeOK /\ RowsInOrder /\ AnsweredIsSettled
  BY DEF MediaInv
<1>2. ~Attended(r)
  BY <1>1, OwnLocals DEF Attended
<1>3. ASSUME r \notin overtaken, task[r] = "done"
      PROVE  Settled(r)
  BY <1>1, <1>2, <1>3, AnsweredMeans
<1>4. ASSUME NEW x \in Rows, Deliver(w, x)
      PROVE  Settled(r)'
  <2>1. CASE task[r] = "done"
    BY <1>3, <1>4, <2>1 DEF Deliver, history, rows, Settled
  <2>2. CASE task[r] # "done"
    <3>1. r = x /\ r \notin Existing /\ task[r] = "pending"
      BY <1>1, <1>4, <2>2 DEF Deliver, MediaTypeOK, Visible
    <3>2. r \in Made
      BY <1>1, <3>1 DEF RowsInOrder
    <3> QED BY <1>4, <3>1, <3>2 DEF Deliver, Existing, Made, Settled, rows
  <2> QED BY <2>1, <2>2
<1>5. CASE InsertCopy(w) \/ InsertNew(w)
  <2>1. PICK x \in Rows : Inserts(w, x)
    BY <1>5 DEF InsertCopy, InsertNew, Inserts
  <2>2. task[r] = "done" /\ r \notin overtaken
    BY <1>5 DEF InsertCopy, InsertNew, history
  <2>3. r \in Made
    BY <1>1, <2>2 DEF RowsInOrder
  <2>4. status'[r] = status[r]
    BY <2>1, <2>3, InsertedRow DEF Inserts
  <2> QED BY <1>3, <2>2, <2>4 DEF Settled
<1>6. ASSUME \/ UNCHANGED status
             \/ \E new : Saved(target[w], new),
             \/ UNCHANGED task
             \/ \E new : task' = [task EXCEPT ![target[w]] = new],
             overtaken \subseteq overtaken' \cup {target[w]}
      PROVE  Settled(r)'
  <2>1. status'[r] = status[r] /\ task'[r] = task[r]
    BY <1>1, <1>6 DEF Saved, MediaTypeOK
  <2>2. r \notin overtaken
    BY <1>6
  <2> QED BY <1>3, <2>1, <2>2 DEF Settled
<1>7. CASE FindDuplicate(w) \/ UploadOriginal(w) \/ Enqueue(w) \/ BeginImport(w) \/ Commit(w)
  BY <1>6, <1>7 DEF FindDuplicate, UploadOriginal, Enqueue, BeginImport, Commit, rows, history
<1>8. CASE SaveAnnounced(w) \/ DropRow(w)
  BY <1>6, <1>8 DEF SaveAnnounced, DropRow, rows, history
<1>12. CASE UploadFails(w) \/ ImportFails(w) \/ Crash(w)
  <2>1. RollBack(w) /\ UNCHANGED task /\ overtaken \subseteq overtaken'
    BY <1>12 DEF UploadFails, ImportFails, Crash, history
  <2>2. status'[r] = status[r] \/ status'[r] = "gone"
    BY <1>1, <2>1, RolledBack
  <2> QED BY <1>3, <2>1, <2>2 DEF Settled
<1>9. CASE MarkProcessing(w) \/ SaveReady(w) \/ SaveFailed(w)
  BY <1>6, <1>9 DEF MarkProcessing, SaveReady, SaveFailed, AnswerTask, history
<1>10. CASE Download(w) \/ UploadVariant(w) \/ ProcessingFails(w)
  BY <1>6, <1>10 DEF Download, UploadVariant, ProcessingFails, rows, history
<1>11. CASE CheckShared(w) \/ RemoveObject(w) \/ \E x \in Rows : BeginDelete(w, x)
  BY <1>6, <1>11 DEF CheckShared, RemoveObject, BeginDelete, rows, history
<1> QED BY <1>4, <1>5, <1>7, <1>8, <1>9, <1>10, <1>11, <1>12 DEF Work, Import, Upload, Process, Delete

\* And to the row it is at.
LEMMA HereSettled ==
    ASSUME MediaInv, NEW w \in Workers, Work(w), NEW r \in Rows, r = target[w],
           r \notin overtaken', task'[r] = "done", ~Attended(r)'
    PROVE  Settled(r)'
<1>1. MediaTypeOK /\ Attending(w) /\ AnsweredIsSettled
  BY DEF MediaInv
<1>2. ASSUME pc[w] \notin Processing, r \notin overtaken, task[r] = "done"
      PROVE  Settled(r)
  <2>1. ~Attended(r)
    BY <1>1, <1>2, OwnLocals DEF Attended
  <2> QED BY <1>1, <1>2, <2>1, AnsweredMeans
<1>4. CASE SaveAnnounced(w)
  BY <1>4 DEF SaveAnnounced
<1>5. CASE MarkProcessing(w)
  <2>1. r \in Made
    BY <1>1, <1>5 DEF MarkProcessing, Attending, Processing
  <2>2. CASE r \in Existing
    <3>1. pc'[w] = "download" /\ target'[w] = r
      BY <1>1, <1>5, <2>2 DEF MarkProcessing, Goto, MediaTypeOK, locals
    <3> QED BY <3>1 DEF Attended, Processing
  <2>3. CASE r \notin Existing
    BY <1>5, <2>1, <2>3 DEF MarkProcessing, Existing, Made, Settled
  <2> QED BY <2>2, <2>3
<1>6. CASE Download(w) \/ UploadVariant(w) \/ ProcessingFails(w)
  <2>1. pc'[w] \in Processing /\ target'[w] = r
    BY <1>1, <1>6 DEF Download, UploadVariant, ProcessingFails, Goto, MediaTypeOK, Processing, locals
  <2> QED BY <2>1 DEF Attended
<1>7. CASE SaveReady(w)
  BY <1>1, <1>7 DEF SaveReady, Saved, MediaTypeOK, Settled
<1>8. CASE SaveFailed(w)
  <2>1. r \in Made
    BY <1>1, <1>8 DEF SaveFailed, Attending, Processing
  <2> QED BY <1>1, <1>8, <2>1 DEF SaveFailed, Saved, MediaTypeOK, Existing, Made, Settled
<1>9. CASE DropRow(w)
  BY <1>1, <1>9 DEF DropRow, Saved, MediaTypeOK, Settled
<1>10. CASE Crash(w)
  <2>1. pc[w] \notin Processing /\ r \notin overtaken /\ task[r] = "done" /\ RollBack(w)
    BY <1>10 DEF Crash
  <2>2. status'[r] = status[r] \/ status'[r] = "gone"
    BY <1>1, <2>1, RolledBack
  <2> QED BY <1>2, <2>1, <2>2 DEF Settled
<1>11. CASE Enqueue(w)
  BY <1>1, <1>11 DEF Enqueue, MediaTypeOK
<1>12. ASSUME NEW x \in Rows, Deliver(w, x)
       PROVE  Settled(r)'
  <2>1. pc[w] = "idle" /\ UNCHANGED status /\ overtaken \subseteq overtaken'
    BY <1>12 DEF Deliver, rows
  <2>2. CASE task[r] = "done"
    BY <1>2, <2>1, <2>2 DEF Processing, Settled
  <2>3. CASE task[r] # "done"
    <3>1. r = x /\ r \notin Existing /\ task[r] = "pending"
      BY <1>1, <1>12, <2>3 DEF Deliver, MediaTypeOK, Visible
    <3>2. r \in Made
      BY <3>1 DEF MediaInv, RowsInOrder
    <3> QED BY <2>1, <3>1, <3>2 DEF Existing, Made, Settled
  <2> QED BY <2>2, <2>3
<1>13. CASE InsertCopy(w) \/ InsertNew(w)
  <2>1. PICK x \in Rows : Inserts(w, x)
    BY <1>13 DEF InsertCopy, InsertNew, Inserts
  <2>2. pc[w] \notin Processing /\ task[r] = "done" /\ r \notin overtaken
    BY <1>13 DEF InsertCopy, InsertNew, history, Processing
  <2>3. r \in Made
    BY <2>2 DEF MediaInv, RowsInOrder
  <2>4. status'[r] = status[r]
    BY <2>1, <2>3, InsertedRow DEF Inserts
  <2> QED BY <1>2, <2>2, <2>4 DEF Settled
<1>15. CASE UploadFails(w) \/ ImportFails(w)
  <2>1. pc[w] \notin Processing /\ RollBack(w) /\ UNCHANGED <<task, overtaken>>
    BY <1>15 DEF UploadFails, ImportFails, history, Processing
  <2>2. status'[r] = status[r] \/ status'[r] = "gone"
    BY <1>1, <2>1, RolledBack
  <2> QED BY <1>2, <2>1, <2>2 DEF Settled
<1>14. CASE \/ FindDuplicate(w) \/ UploadOriginal(w) \/ BeginImport(w) \/ Commit(w)
            \/ CheckShared(w) \/ RemoveObject(w) \/ \E x \in Rows : BeginDelete(w, x)
  <2>1. pc[w] \notin Processing /\ UNCHANGED <<status, task, overtaken>>
    BY <1>14 DEF FindDuplicate, UploadOriginal, BeginImport, Commit, CheckShared, RemoveObject,
                 BeginDelete, rows, history, Processing
  <2> QED BY <1>2, <2>1 DEF Settled
<1> QED BY <1>4, <1>5, <1>6, <1>7, <1>8, <1>9, <1>10, <1>11, <1>12, <1>13, <1>14, <1>15
        DEF Work, Import, Upload, Process, Delete

LEMMA AnsweredKept ==
    ASSUME MediaInv, NEW w \in Workers, Work(w)
    PROVE  AnsweredIsSettled'
<1>1. ASSUME NEW r \in Rows, r \notin overtaken', task'[r] = "done", ~Attended(r)'
      PROVE  Settled(r)'
  BY <1>1, HereSettled, ElsewhereSettled
<1> QED BY <1>1 DEF AnsweredIsSettled, Attended, Settled

\* A task that is delivered once more changes nothing else.
LEMMA RepeatKeeps ==
    ASSUME MediaInv, NEW r \in Rows, RepeatTask(r)
    PROVE  MediaInv'
<1>1. MediaTypeOK /\ RowsInOrder /\ ReadyIntact /\ \A w \in Workers : Attending(w)
  BY DEF MediaInv
<1>2. /\ UNCHANGED <<status, key, variants, stored, pc, target, source, left, uploads>>
      /\ UNCHANGED <<condemned, spoilt, overtaken, importing, uncommitted>>
  BY DEF RepeatTask, rows, locals, transactions, counts, history
<1>3. \A x \in Rows : x # r => task'[x] = task[x]
  BY <1>1 DEF RepeatTask, MediaTypeOK
<1>4. task'[r] = "pending" /\ task[r] = "done"
  BY <1>1 DEF RepeatTask, MediaTypeOK
<1>5. MediaTypeOK'
  BY MediaTypeKept DEF MediaNext
<1>6. RowsInOrder'
  <2>1. Made' = Made
    BY <1>2 DEF Made
  <2> QED BY <1>1, <1>2, <1>3, <1>4, <2>1 DEF RowsInOrder
<1>7. ReadyIntact'
  BY <1>1, <1>2 DEF ReadyIntact, Intact, Existing, BeingRemoved
<1>8. ASSUME NEW w \in Workers
      PROVE  Attending(w)'
  BY <1>1, <1>2 DEF Attending, Made, Intact
<1>9. AnsweredIsSettled'
  <2>1. ASSUME NEW x \in Rows, x \notin overtaken', task'[x] = "done", ~Attended(x)'
        PROVE  Settled(x)'
    <3>1. task[x] = "done" /\ x \notin overtaken /\ ~Attended(x)
      BY <1>2, <1>3, <1>4, <2>1 DEF Attended
    <3> QED BY <1>2, <3>1, AnsweredMeans DEF MediaInv, Settled
  <2> QED BY <2>1 DEF AnsweredIsSettled, Attended, Settled
<1> QED BY <1>5, <1>6, <1>7, <1>8, <1>9 DEF MediaInv

LEMMA MediaInvKept ==
    ASSUME MediaInv, [MediaNext]_mediaVars
    PROVE  MediaInv'
<1>1. ASSUME NEW w \in Workers, Work(w)
      PROVE  MediaInv'
  <2>1. MediaTypeOK'
    BY MediaTypeKept
  <2>2. RowsInOrder'
    BY <1>1, OrderKept
  <2>3. ReadyIntact'
    <3>1. ASSUME NEW r \in Rows, status'[r] = "ready"
          PROVE  /\ variants'[r] = Names
                 /\ key'[r] \in condemned' \/ \A n \in Names : <<key'[r], n>> \in stored'
      BY <1>1, <3>1, ReadyKept
    <3>2. ASSUME NEW r \in Existing', key'[r] \in condemned'
          PROVE  r \in spoilt' \/ \E u \in Workers : target'[u] = r /\ pc'[u] = "remove"
      BY <1>1, <3>2, CondemnedKept
    <3> QED BY <3>1, <3>2 DEF ReadyIntact, Intact, BeingRemoved
  <2>4. AnsweredIsSettled'
    BY <1>1, AnsweredKept
  <2>5. Attending(w)'
    <3>1. CASE FindDuplicate(w) \/ Import(w) \/ Upload(w)
      BY <1>1, <3>1, UploadAttends
    <3>2. CASE Process(w) \/ \E r \in Rows : Deliver(w, r)
      BY <1>1, <3>2, ProcessAttends
    <3>3. CASE Delete(w) \/ Crash(w) \/ \E r \in Rows : BeginDelete(w, r)
      BY <1>1, <3>3, DeleteAttends
    <3> QED BY <1>1, <3>1, <3>2, <3>3 DEF Work
  <2>6. \A v \in Workers : Attending(v)'
    BY <1>1, <2>5, OthersAttend
  <2> QED BY <2>1, <2>2, <2>3, <2>4, <2>6 DEF MediaInv
<1>2. CASE \E r \in Rows : RepeatTask(r)
  BY <1>2, RepeatKeeps
<1>3. CASE UNCHANGED mediaVars
  BY <1>3 DEF MediaInv, MediaTypeOK, RowsInOrder, ReadyIntact, AnsweredIsSettled, Attending,
              Made, Existing, Intact, BeingRemoved, mediaVars, rows, locals, transactions, counts, history
<1> QED BY <1>1, <1>2, <1>3 DEF MediaNext

LEMMA MediaInvInit == MediaInit => MediaInv
<1> SUFFICES ASSUME MediaInit PROVE MediaInv
  OBVIOUS
<1> USE DEF MediaInit
<1>1. MediaTypeOK
  BY MediaAssumption DEF MediaTypeOK, NoSource, Places
<1>2. Made = {} /\ Existing = {}
  BY DEF Made, Existing
<1>3. RowsInOrder /\ ReadyIntact /\ AnsweredIsSettled
  BY <1>2 DEF RowsInOrder, ReadyIntact, AnsweredIsSettled
<1>4. ASSUME NEW w \in Workers
      PROVE  Attending(w)
  BY DEF Attending, Processing, Deleting, Uploading
<1> QED BY <1>1, <1>3, <1>4 DEF MediaInv

\* Rows come in order with keys of their own, requests are about rows there are,
\* and an object whose deletion has begun belongs to no row but the one being
\* deleted and those spoilt: at every step of the upload, the task and the
\* deletion of media_library, for any number of server threads.
THEOREM MediaInvHolds == MediaSpec => []MediaInv
  BY MediaInvInit, MediaInvKept, PTL DEF MediaSpec

\* A ready row has all its variants in the bucket, although rows that share its
\* objects are deleted (delete_media_asset) and processed again meanwhile.
THEOREM ReadyIsShownHolds == MediaSpec => []ReadyIsShown
<1>1. MediaInv => ReadyIsShown
  <2> SUFFICES ASSUME MediaInv, NEW r \in Rows, status[r] = "ready", r \notin spoilt, ~BeingRemoved(r)
               PROVE  variants[r] = Names /\ \A n \in Names : <<key[r], n>> \in stored
    BY DEF ReadyIsShown
  <2>1. r \in Existing
    BY DEF Existing
  <2> QED BY <2>1 DEF MediaInv, ReadyIntact, Intact
<1> QED BY <1>1, MediaInvHolds, PTL

\* A task that was answered leaves its row ready, failed or deleted, unless the
\* upload's own last save came after the answer (process_media_asset).
THEOREM AnsweredIsSettledHolds == MediaSpec => []AnsweredIsSettled
<1>1. MediaInv => AnsweredIsSettled
  BY DEF MediaInv
<1> QED BY <1>1, MediaInvHolds, PTL
=============================================================================
