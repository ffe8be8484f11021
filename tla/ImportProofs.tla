---------------------------- MODULE ImportProofs -----------------------------
(***************************************************************************)
(* Theorems about a bulk import, for any rows, handlers and requests.      *)
(*                                                                         *)
(* ImportRun: types whatever the runs do, and, when no run outlives its    *)
(* claim, one run at a time, one question of each row, and none left       *)
(* behind by a rollback, each save by an accident of that row.             *)
(*                                                                         *)
(* ImportSearch: types, and that a search that completes is of the        *)
(* current subject, that a superseded one writes no more than CheckEvery   *)
(* rows, and that no two of a generation run at once when none outlives    *)
(* its claim.                                                              *)
(***************************************************************************)
EXTENDS ImportRun, ImportSearch, TLAPS
-----------------------------------------------------------------------------
(* ImportRun: types *)

LEMMA InitType == Init => TypeOK
<1> SUFFICES ASSUME Init PROVE TypeOK
  OBVIOUS
<1>1. row \in [Rows -> Row]
  BY DEF Init, Row, RowStatus, Actions
<1>2. /\ importer \in [Importers -> Run \cup {NoRun}]
      /\ clerk \in [Clerks -> [Rows -> Row] \cup {NoCopy}]
      /\ made \in [Rows -> Int] /\ accidents \in [Rows -> Nat]
  BY DEF Init
<1> QED BY <1>1, <1>2 DEF Init, TypeOK

LEMMA BefallsType ==
  ASSUME TypeOK, NEW S, Befalls(S)
  PROVE  /\ accidents' \in [Rows -> Nat]
         /\ \A r \in Rows : accidents'[r] = accidents[r] + IF r \in S THEN 1 ELSE 0
  BY DEF TypeOK, Befalls

LEMMA StatusType ==
  ASSUME TypeOK, NEW r \in Rows, NEW s \in RowStatus
  PROVE  [row EXCEPT ![r].status = s] \in [Rows -> Row]
  BY DEF TypeOK, Row

LEMMA RunType ==
  ASSUME TypeOK, NEW w \in Importers, Busy(w)
  PROVE  /\ importer[w] \in Run
         /\ \A r \in Rows :
              /\ [importer EXCEPT ![w].todo = @ \ {r}] \in [Importers -> Run \cup {NoRun}]
              /\ [importer EXCEPT ![w].halfway = r] \in [Importers -> Run \cup {NoRun}]
              /\ [importer EXCEPT ![w].todo = @ \ {r}, ![w].halfway = NoRow]
                    \in [Importers -> Run \cup {NoRun}]
<1>1. importer[w] \in Run
  BY DEF TypeOK, Busy
<1>2. ASSUME NEW r \in Rows
      PROVE  /\ [importer[w] EXCEPT !.todo = @ \ {r}] \in Run
             /\ [importer[w] EXCEPT !.halfway = r] \in Run
             /\ [importer[w] EXCEPT !.todo = @ \ {r}, !.halfway = NoRow] \in Run
  BY <1>1 DEF Run
<1> QED BY <1>1, <1>2 DEF TypeOK

LEMMA RowworkType ==
  ASSUME TypeOK, NEW r \in Rows, Rowwork(r)
  PROVE  TypeOK'
<1>1. CASE \E action \in Actions \ {"none"} : Decide(r, action)
  <2>1. PICK action \in Actions : Decide(r, action)
    BY <1>1
  <2>2. row' \in [Rows -> Row]
    BY <2>1 DEF Decide, TypeOK, Row
  <2> QED BY <2>1, <2>2 DEF Decide, TypeOK, delivery
<1>2. ASSUME NEW s \in RowStatus, Overwrite(r, s) PROVE TypeOK'
  <2>1. row' \in [Rows -> Row] /\ accidents' \in [Rows -> Nat]
    BY <1>2, StatusType, BefallsType DEF Overwrite
  <2> QED BY <1>2, <2>1 DEF Overwrite, TypeOK, delivery
<1>3. CASE RemoveRow(r)
  <2>1. row' \in [Rows -> Row]
    BY <1>3, StatusType DEF RemoveRow, RowStatus
  <2> QED BY <1>3, <2>1 DEF RemoveRow, TypeOK, delivery
<1> QED BY <1>1, <1>2, <1>3 DEF Rowwork, EditRow, LateVerdict, RowStatus

LEMMA RunningType ==
  ASSUME TypeOK, NEW w \in Importers, Running(w)
  PROVE  TypeOK'
<1>1. CASE StartRun(w)
  <2>1. [todo |-> OpenRows, read |-> row, halfway |-> NoRow] \in Run
    BY DEF TypeOK, OpenRows, Run
  <2> QED BY <1>1, <2>1 DEF StartRun, TypeOK
<1>2. CASE FinishRun(w)
  BY <1>2 DEF FinishRun, TypeOK
<1>3. ASSUME NEW r \in Rows, SkipRow(w, r) PROVE TypeOK'
  <2>1. row' \in [Rows -> Row]
    BY <1>3, StatusType DEF SkipRow, RowStatus
  <2> QED BY <1>3, <2>1, RunType DEF SkipRow, AtRow, TypeOK, delivery
<1>4. ASSUME NEW r \in Rows, CreateQuestion(w, r) PROVE TypeOK'
  <2>1. importer' \in [Importers -> Run \cup {NoRun}]
    BY <1>4, RunType DEF CreateQuestion, AtRow
  <2>2. made' \in [Rows -> Int] /\ gone' \subseteq Rows
    BY <1>4 DEF CreateQuestion, TypeOK
  <2> QED BY <1>4, <2>1, <2>2 DEF CreateQuestion, TypeOK, delivery
<1>5. ASSUME NEW r \in Rows, SaveRow(w, r) PROVE TypeOK'
  <2>1. [row[r] EXCEPT !.status = "imported", !.created = TRUE] \in Row
    BY DEF TypeOK, Row, RowStatus
  <2>2. row' = [row EXCEPT ![r] = [row[r] EXCEPT !.status = "imported", !.created = TRUE]]
    BY <1>5 DEF SaveRow
  <2>3. row' \in [Rows -> Row]
    BY <2>1, <2>2 DEF TypeOK
  <2>4. importer' \in [Importers -> Run \cup {NoRun}]
    BY <1>5, RunType DEF SaveRow, AtRow
  <2> QED BY <1>5, <2>3, <2>4 DEF SaveRow, TypeOK, delivery
<1>6. ASSUME NEW r \in Rows, RowFails(w, r) PROVE TypeOK'
  <2>1. row' \in [Rows -> Row] /\ accidents' \in [Rows -> Nat]
    BY <1>6, StatusType, BefallsType DEF RowFails, RowStatus
  <2>2. importer' \in [Importers -> Run \cup {NoRun}]
    BY <1>6, RunType DEF RowFails, AtRow
  <2>3. crashes' \in Nat /\ UNCHANGED <<status, claim, task, clerk, made, gone, edits>>
    BY <1>6 DEF RowFails, TypeOK, delivery
  <2> QED BY <2>1, <2>2, <2>3 DEF TypeOK
<1>7. ASSUME NEW s \in {"failed", status}, BreakRun(w, s) PROVE TypeOK'
  <2>1. accidents' \in [Rows -> Nat]
    BY <1>7, BefallsType DEF BreakRun
  <2> QED BY <1>7, <2>1 DEF BreakRun, TypeOK
<1> QED BY <1>1, <1>2, <1>3, <1>4, <1>5, <1>6, <1>7 DEF Running

LEMMA ClerkType ==
  ASSUME TypeOK, NEW c \in Clerks, BeginDirect(c) \/ CommitDirect(c) \/ FailDirect(c)
  PROVE  TypeOK'
<1>1. CASE BeginDirect(c)
  BY <1>1 DEF BeginDirect, TypeOK, delivery
<1>2. CASE CommitDirect(c)
  <2>0. ASSUME NEW r \in Rows
        PROVE  /\ [row[r] EXCEPT !.status = "skipped"] \in Row
               /\ [row[r] EXCEPT !.status = "imported", !.created = TRUE] \in Row
               /\ row[r] \in Row
    BY DEF TypeOK, Row, RowStatus
  <2>1. row' \in [Rows -> Row]
    BY <1>2, <2>0 DEF CommitDirect
  <2>2. accidents' \in [Rows -> Nat] /\ made' \in [Rows -> Int]
    <3>1. made' \in [Rows -> Int]
      <4>1. \A r \in Rows : made[r] + (IF r \in Taken(c) THEN 1 ELSE 0) \in Int
        BY DEF TypeOK
      <4>2. made' = [r \in Rows |-> made[r] + IF r \in Taken(c) THEN 1 ELSE 0]
        BY <1>2 DEF CommitDirect
      <4> QED BY <4>1, <4>2
    <3> QED BY <1>2, <3>1, BefallsType DEF CommitDirect
  <2>3. gone' \subseteq Rows
    BY <1>2 DEF CommitDirect, TypeOK, Taken
  <2> QED BY <1>2, <2>1, <2>2, <2>3 DEF CommitDirect, TypeOK, delivery
<1>3. CASE FailDirect(c)
  <2>1. row' \in [Rows -> Row]
    <3>1. CASE UNCHANGED row
      BY <3>1 DEF TypeOK
    <3>2. CASE \E r \in Taken(c) : row' = [row EXCEPT ![r].status = "error"]
      <4>1. PICK r \in Rows : row' = [row EXCEPT ![r].status = "error"]
        BY <3>2 DEF Taken
      <4> QED BY <4>1, StatusType DEF RowStatus
    <3> QED BY <1>3, <3>1, <3>2 DEF FailDirect
  <2>2. accidents' \in [Rows -> Nat]
    BY <1>3, BefallsType DEF FailDirect
  <2> QED BY <1>3, <2>1, <2>2 DEF FailDirect, TypeOK, delivery
<1> QED BY <1>1, <1>2, <1>3

LEMMA NextType == TypeOK /\ [Next]_vars => TypeOK'
<1> SUFFICES ASSUME TypeOK, [Next]_vars PROVE TypeOK'
  OBVIOUS
<1>1. ASSUME NEW r \in Rows, Rowwork(r) PROVE TypeOK'
  BY <1>1, RowworkType
<1>2. CASE Confirm \/ TaskForgotten \/ TaskRepeats \/ DropTask \/ ClaimAges
  BY <1>2 DEF Confirm, TaskForgotten, TaskRepeats, DropTask, ClaimAges, TypeOK
<1>3. ASSUME NEW w \in Importers, Running(w) PROVE TypeOK'
  BY <1>3, RunningType
<1>4. ASSUME NEW c \in Clerks, BeginDirect(c) \/ CommitDirect(c) \/ FailDirect(c)
      PROVE  TypeOK'
  BY <1>4, ClerkType
<1>5. CASE Rollback
  <2>1. row' \in [Rows -> Row]
    BY <1>5 DEF Rollback, TypeOK, Row
  <2>2. made' \in [Rows -> Int]
    BY <1>5 DEF Rollback, TypeOK
  <2> QED BY <1>5, <2>1, <2>2 DEF Rollback, TypeOK, delivery
<1>6. CASE UNCHANGED vars
  BY <1>6 DEF vars, delivery, TypeOK
<1> QED BY <1>1, <1>2, <1>3, <1>4, <1>5, <1>6 DEF Next

\* Every reachable state is well-typed, also when runs outlive their claims.
THEOREM TypeCorrect == Spec => []TypeOK
  BY InitType, NextType, PTL DEF Spec
-----------------------------------------------------------------------------
(* The runs.  A claim keeps them apart, so at most one is busy, and what is *)
(* in a run and halfway is what that one run says.                          *)

LEMMA NoRowNoRow == NoRow \notin Rows
  BY ImportAssumption DEF ImportAssumption

LEMMA OnlyRun ==
  ASSUME IInv, ~LongRuns, NEW w \in Importers, Busy(w)
  PROVE  /\ importer[w] \in Run
         /\ claim = "fresh" /\ status # "ready"
         /\ importer[w].halfway \in importer[w].todo \cup {NoRow}
         /\ \A v \in Importers : Busy(v) => v = w
         /\ \A r \in Rows : /\ r \in InRun <=> r \in importer[w].todo
                            /\ Halfway(r) <=> importer[w].halfway = r
  BY DEF IInv, TypeOK, OneRun, RunsClaimed, Busy, InRun, Halfway

LEMMA NoRuns ==
  ASSUME \A w \in Importers : ~Busy(w)
  PROVE  \A r \in Rows : r \notin InRun /\ ~Halfway(r)
  BY DEF InRun, Halfway

LEMMA InRunRows == InRun \subseteq Rows /\ InRun' \subseteq Rows
  BY DEF InRun

\* A row the run is halfway through is one it has left.
LEMMA HalfwayInRun ==
  ASSUME IInv, NEW r \in Rows, Halfway(r)
  PROVE  r \in InRun
  BY ImportAssumption DEF IInv, RunsClaimed, Halfway, InRun, ImportAssumption

LEMMA NextRun ==
  ASSUME TypeOK, NEW w \in Importers, NEW run,
         \A v \in Importers : Busy(v) => v = w,
         importer' = [importer EXCEPT ![w] = run]
  PROVE  /\ \A v \in Importers : Busy(v)' <=> v = w /\ run # NoRun
         /\ importer'[w] = run
         /\ \A r \in Rows : /\ (r \in InRun)' <=> run # NoRun /\ r \in run.todo
                            /\ Halfway(r)' <=> run # NoRun /\ run.halfway = r
<1>1. importer'[w] = run /\ \A v \in Importers : v # w => importer'[v] = importer[v]
  BY DEF TypeOK
<1> QED BY <1>1 DEF Busy, InRun, Halfway

LEMMA SameRuns ==
  ASSUME UNCHANGED importer
  PROVE  /\ \A v \in Importers : Busy(v)' <=> Busy(v)
         /\ \A r \in Rows : ((r \in InRun)' <=> r \in InRun) /\ (Halfway(r)' <=> Halfway(r))
  BY DEF Busy, InRun, Halfway

-----------------------------------------------------------------------------
(* The invariant is kept: what happens to the rows from outside *)

\* What IInv adds to the types, to be shown of the next state.
Kept == OneRun /\ RunsClaimed /\ NotYetMade /\ Overtaken /\ OneQuestionPerRow /\ RollbackLeavesNone

LEMMA RowworkKept ==
  ASSUME IInv, NEW r \in Rows, Rowwork(r)
  PROVE  Kept'
<1> USE DEF delivery
<1>t. TypeOK /\ OneRun /\ RunsClaimed /\ NotYetMade /\ Overtaken /\ OneQuestionPerRow /\ RollbackLeavesNone
  BY DEF IInv
<1>1. UNCHANGED <<status, claim, importer, made>>
  BY DEF Rowwork, Decide, EditRow, LateVerdict, Overwrite, RemoveRow
<1>2. OneRun' /\ RunsClaimed'
  BY <1>1, <1>t DEF OneRun, RunsClaimed, Busy
<1>3. /\ \A q \in Rows : ((q \in InRun)' <=> q \in InRun) /\ (Halfway(q)' <=> Halfway(q))
      /\ status = "ready" => \A q \in Rows : q \notin InRun /\ ~Halfway(q)
  BY <1>1, <1>t, SameRuns, NoRuns DEF RunsClaimed
<1>4. CASE \E action \in Actions \ {"none"} : Decide(r, action)
  <2>1. UNCHANGED accidents
    BY <1>4 DEF Decide
  <2>2. \A q \in Rows : row'[q].status = row[q].status /\ row'[q].created = row[q].created
    BY <1>4, <1>t DEF Decide, TypeOK, Row
  <2>3. NotYetMade' /\ OneQuestionPerRow' /\ RollbackLeavesNone'
    BY <1>1, <1>3, <2>1, <2>2, <1>t DEF NotYetMade, OneQuestionPerRow, RollbackLeavesNone
  <2>4. Overtaken'
    <3>1. \A q \in Rows : (q \in Linked)' <=> q \in Linked
      BY <2>2 DEF Linked
    <3> QED BY <1>1, <1>3, <2>1, <2>2, <3>1, <1>t DEF Overtaken, InRun
  <2> QED BY <1>2, <2>3, <2>4 DEF Kept
<1>5. ASSUME NEW s \in {"valid", "error", "duplicate"}, Overwrite(r, s) PROVE Kept'
  <2>1. accidents'[r] = accidents[r] + 1 /\ \A q \in Rows : q # r => accidents'[q] = accidents[q]
    BY <1>5, <1>t, BefallsType DEF Overwrite, TypeOK
  <2>2. row'[r].status = s /\ \A q \in Rows : q # r => row'[q] = row[q]
    BY <1>5, <1>t DEF Overwrite, TypeOK, Row
  <2>3. NotYetMade' /\ OneQuestionPerRow' /\ RollbackLeavesNone'
    BY <1>1, <1>3, <2>1, <2>2, <1>t DEF NotYetMade, OneQuestionPerRow, RollbackLeavesNone, TypeOK
  <2>4. Overtaken'
    <3>1. r \notin Linked' /\ \A q \in Rows : q # r => ((q \in Linked)' <=> q \in Linked)
      BY <2>2 DEF Linked
    <3> QED BY <1>1, <1>3, <2>1, <2>2, <3>1, <1>t DEF Overtaken, InRun, TypeOK
  <2> QED BY <1>2, <2>3, <2>4 DEF Kept
<1>6. CASE RemoveRow(r)
  <2>1. UNCHANGED accidents
    BY <1>6 DEF RemoveRow
  <2>2. row'[r].status = "removed" /\ \A q \in Rows : q # r => row'[q] = row[q]
    BY <1>6, <1>t DEF RemoveRow, TypeOK, Row
  <2>3. status = "ready" \/ row[r].status # "imported"
    BY <1>6 DEF RemoveRow
  <2>4. NotYetMade' /\ OneQuestionPerRow' /\ RollbackLeavesNone'
    BY <1>1, <1>3, <2>1, <2>2, <2>3, <1>t
       DEF NotYetMade, OneQuestionPerRow, RollbackLeavesNone, TypeOK
  <2>5. Overtaken'
    <3>1. /\ r \notin Linked' /\ (status = "ready" \/ r \notin Linked)
          /\ \A q \in Rows : q # r => ((q \in Linked)' <=> q \in Linked)
      BY <2>2, <2>3 DEF Linked
    <3> QED BY <1>1, <1>3, <2>1, <2>2, <3>1, <1>t DEF Overtaken, InRun, TypeOK
  <2> QED BY <1>2, <2>4, <2>5 DEF Kept
<1> QED BY <1>4, <1>5, <1>6 DEF Rowwork, EditRow, LateVerdict
-----------------------------------------------------------------------------
(* ... the run *)

LEMMA StartKept ==
  ASSUME IInv, ~LongRuns, NEW w \in Importers, StartRun(w)
  PROVE  Kept'
<1>t. TypeOK /\ OneRun /\ RunsClaimed /\ NotYetMade /\ Overtaken /\ OneQuestionPerRow /\ RollbackLeavesNone
  BY DEF IInv
<1>1. \A v \in Importers : ~Busy(v)
  BY <1>t DEF StartRun, ClaimFree, RunsClaimed
<1>2. \A r \in Rows : ~Halfway(r)
  BY <1>1, NoRuns
<1> DEFINE run == [todo |-> OpenRows, read |-> row, halfway |-> NoRow]
<1>3. run # NoRun
  <2>1. run \in Run
    BY <1>t DEF TypeOK, OpenRows, Run
  <2> QED BY <2>1, IdleAssumption
<1>3a. run.todo = OpenRows /\ run.halfway = NoRow /\ importer' = [importer EXCEPT ![w] = run]
  BY DEF StartRun
<1> HIDE DEF run
<1>4. /\ \A v \in Importers : Busy(v)' <=> v = w
      /\ importer'[w] = run
      /\ \A r \in Rows : ((r \in InRun)' <=> r \in OpenRows) /\ ~Halfway(r)'
  BY <1>1, <1>3, <1>3a, <1>t, NextRun, NoRowNoRow
<1>5. OneRun' /\ RunsClaimed'
  BY <1>3a, <1>4 DEF OneRun, RunsClaimed, StartRun
<1>6. NotYetMade' /\ OneQuestionPerRow' /\ RollbackLeavesNone'
  BY <1>2, <1>4, <1>t DEF NotYetMade, OneQuestionPerRow, RollbackLeavesNone, StartRun, OpenRows, Settled
<1>7. Overtaken'
  BY <1>4, InRunRows DEF Overtaken, StartRun, OpenRows, Settled
<1> QED BY <1>5, <1>6, <1>7 DEF Kept

LEMMA SkipKept ==
  ASSUME IInv, ~LongRuns, NEW w \in Importers, NEW r \in Rows, SkipRow(w, r)
  PROVE  Kept'
<1> USE DEF delivery
<1>t. TypeOK /\ OneRun /\ RunsClaimed /\ NotYetMade /\ Overtaken /\ OneQuestionPerRow /\ RollbackLeavesNone
  BY DEF IInv
<1>1. Busy(w) /\ r \in importer[w].todo /\ importer[w].halfway = NoRow
  BY DEF SkipRow, AtRow
<1>2. /\ importer[w] \in Run /\ claim = "fresh" /\ status # "ready"
      /\ \A v \in Importers : Busy(v) => v = w
      /\ \A q \in Rows : (q \in InRun <=> q \in importer[w].todo) /\ ~Halfway(q)
  BY <1>1, OnlyRun, NoRowNoRow
<1> DEFINE run == [importer[w] EXCEPT !.todo = @ \ {r}]
<1>3. importer' = [importer EXCEPT ![w] = run] /\ run.todo = importer[w].todo \ {r} /\ run.halfway = NoRow
  BY <1>1, <1>2, <1>t DEF SkipRow, TypeOK, Run
<1> HIDE DEF run
<1>4. /\ \A v \in Importers : Busy(v)' => v = w
      /\ importer'[w] = run
      /\ \A q \in Rows : ((q \in InRun)' => q \in InRun \ {r}) /\ ~Halfway(q)'
  <2>1. TypeOK /\ importer' = [importer EXCEPT ![w] = run]
    BY <1>3, <1>t
  <2>2. /\ \A v \in Importers : Busy(v)' => v = w
        /\ importer'[w] = run
        /\ \A q \in Rows : ((q \in InRun)' => q \in run.todo) /\ (Halfway(q)' => run.halfway = q)
    BY <1>2, <2>1, NextRun
  <2> QED BY <1>2, <1>3, <2>2, NoRowNoRow
<1>5. row'[r].status = "skipped" /\ \A q \in Rows : q # r => row'[q] = row[q]
  BY <1>t DEF SkipRow, TypeOK, Row
<1>6. OneRun' /\ RunsClaimed'
  BY <1>2, <1>3, <1>4 DEF OneRun, RunsClaimed, SkipRow
<1>7. NotYetMade' /\ OneQuestionPerRow' /\ RollbackLeavesNone'
  BY <1>1, <1>2, <1>4, <1>5, <1>t DEF NotYetMade, OneQuestionPerRow, RollbackLeavesNone, SkipRow
<1>8. Overtaken'
  <2>1. r \notin Linked' /\ \A q \in Rows : q # r => ((q \in Linked)' <=> q \in Linked)
    BY <1>5 DEF Linked
  <2> QED BY <1>2, <1>4, <1>5, <2>1, <1>t, InRunRows DEF Overtaken, SkipRow
<1> QED BY <1>6, <1>7, <1>8 DEF Kept

LEMMA CreateKept ==
  ASSUME IInv, ~LongRuns, NEW w \in Importers, NEW r \in Rows, CreateQuestion(w, r)
  PROVE  Kept'
<1> USE DEF delivery
<1>t. TypeOK /\ OneRun /\ RunsClaimed /\ NotYetMade /\ Overtaken /\ OneQuestionPerRow /\ RollbackLeavesNone
  BY DEF IInv
<1>1. Busy(w) /\ r \in importer[w].todo /\ importer[w].halfway = NoRow
  BY DEF CreateQuestion, AtRow
<1>2. /\ importer[w] \in Run /\ claim = "fresh" /\ status # "ready"
      /\ \A v \in Importers : Busy(v) => v = w
      /\ \A q \in Rows : (q \in InRun <=> q \in importer[w].todo) /\ ~Halfway(q)
  BY <1>1, OnlyRun, NoRowNoRow
<1> DEFINE run == [importer[w] EXCEPT !.halfway = r]
<1>3. importer' = [importer EXCEPT ![w] = run] /\ run \in Run
      /\ run.todo = importer[w].todo /\ run.halfway = r
  BY <1>1, <1>2, <1>t DEF CreateQuestion, TypeOK, Run
<1>4. /\ \A v \in Importers : Busy(v)' <=> v = w
      /\ importer'[w] = run
      /\ \A q \in Rows : ((q \in InRun)' <=> q \in InRun) /\ (Halfway(q)' <=> q = r)
  <2>1. TypeOK /\ importer' = [importer EXCEPT ![w] = run] /\ run # NoRun
    BY <1>3, <1>t, IdleAssumption
  <2>2. /\ \A v \in Importers : Busy(v)' <=> v = w
        /\ importer'[w] = run
        /\ \A q \in Rows : ((q \in InRun)' <=> q \in run.todo) /\ (Halfway(q)' <=> run.halfway = q)
    <3>1. importer'[w] = run /\ \A v \in Importers : v # w => importer'[v] = importer[v]
      BY <2>1 DEF TypeOK
    <3> QED BY <1>2, <2>1, <3>1 DEF Busy, InRun, Halfway
  <2> QED BY <1>2, <1>3, <2>2
<1>5. made'[r] = made[r] + 1 /\ \A q \in Rows : q # r => made'[q] = made[q]
  BY <1>t DEF CreateQuestion, TypeOK
<1>6. UNCHANGED <<status, row, claim, accidents>>
  BY DEF CreateQuestion
<1>7. OneRun' /\ RunsClaimed'
  BY <1>1, <1>2, <1>3, <1>4, <1>6 DEF OneRun, RunsClaimed
<1>8. made[r] <= accidents[r] /\ made[r] \in Int /\ accidents[r] \in Nat
  BY <1>1, <1>2, <1>t DEF NotYetMade, TypeOK
<1>9. /\ status = "importing" => row[r].status # "imported"
      /\ status = "rolled_back" => r \notin Linked
      /\ status # "importing" => made[r] + 1 <= accidents[r] + (IF r \in Linked THEN 1 ELSE 0)
  BY <1>1, <1>2, <1>t DEF Overtaken
<1>10. /\ row[r].status = "imported" /\ ~row[r].created => made[r] + 1 <= accidents[r]
       /\ status = "rolled_back" => made[r] + 1 <= accidents[r]
  BY <1>8, <1>9 DEF Linked
<1>11. NotYetMade'
  BY <1>2, <1>4, <1>5, <1>6, <1>8, <1>10, <1>t DEF NotYetMade
<1>12. OneQuestionPerRow' /\ RollbackLeavesNone'
  BY <1>5, <1>6, <1>8, <1>10, <1>t DEF OneQuestionPerRow, RollbackLeavesNone
<1>13. Overtaken'
  <2>1. UNCHANGED Linked
    BY <1>6 DEF Linked
  <2>2. \A q \in Rows : q \in InRun' <=> q \in InRun
    BY <1>4
  <2>3. status # "importing" => made'[r] <= accidents[r] + (IF r \in Linked THEN 1 ELSE 0)
    BY <1>5, <1>9
  <2>4. \A q \in Rows : q # r =>
           made'[q] = made[q] /\ (Halfway(q)' <=> Halfway(q))
    BY <1>2, <1>4, <1>5
  <2>5. \A q \in InRun : status # "importing" =>
           made'[q] + (IF Halfway(q)' THEN 0 ELSE 1) <= accidents[q] + (IF q \in Linked THEN 1 ELSE 0)
    <3>1. CASE status = "importing"
      BY <3>1
    <3>2. Halfway(r)'
      BY <1>4
    <3>3. ASSUME NEW q \in InRun, status # "importing", q # r
          PROVE  made'[q] + (IF Halfway(q)' THEN 0 ELSE 1) <= accidents[q] + (IF q \in Linked THEN 1 ELSE 0)
      BY <2>4, <3>3, <1>t, InRunRows DEF Overtaken
    <3> QED BY <3>1, <3>2, <3>3, <2>3, <1>5, <1>8
  <2> QED BY <1>6, <2>1, <2>2, <2>5, <1>t, InRunRows DEF Overtaken
<1> QED BY <1>7, <1>11, <1>12, <1>13 DEF Kept
\* The run takes the row it is at off its list and is halfway no more.
LEMMA RowDone ==
  ASSUME IInv, ~LongRuns, NEW w \in Importers, NEW r \in Rows, AtRow(w, r),
         importer' = [importer EXCEPT ![w].todo = @ \ {r}, ![w].halfway = NoRow]
  PROVE  /\ \A v \in Importers : Busy(v)' => v = w
         /\ importer'[w].halfway = NoRow
         /\ \A q \in Rows : ((q \in InRun)' => q \in InRun \ {r}) /\ ~Halfway(q)'
<1>1. Busy(w) /\ TypeOK
  BY DEF AtRow, IInv
<1>2. /\ importer[w] \in Run
      /\ \A v \in Importers : Busy(v) => v = w
      /\ \A q \in Rows : q \in InRun <=> q \in importer[w].todo
  BY <1>1, OnlyRun
<1> DEFINE run == [importer[w] EXCEPT !.todo = @ \ {r}, !.halfway = NoRow]
<1>3. importer' = [importer EXCEPT ![w] = run] /\ run.todo = importer[w].todo \ {r} /\ run.halfway = NoRow
  BY <1>1, <1>2 DEF TypeOK, Run
<1> HIDE DEF run
<1>4. /\ \A v \in Importers : Busy(v)' => v = w
      /\ importer'[w] = run
      /\ \A q \in Rows : ((q \in InRun)' => q \in run.todo) /\ (Halfway(q)' => run.halfway = q)
  BY <1>1, <1>2, <1>3, NextRun
<1> QED BY <1>2, <1>3, <1>4, NoRowNoRow

LEMMA SaveKept ==
  ASSUME IInv, ~LongRuns, NEW w \in Importers, NEW r \in Rows, SaveRow(w, r)
  PROVE  Kept'
<1> USE DEF delivery
<1>t. TypeOK /\ OneRun /\ RunsClaimed /\ NotYetMade /\ Overtaken /\ OneQuestionPerRow /\ RollbackLeavesNone
  BY DEF IInv
<1>1. Busy(w) /\ AtRow(w, r) /\ importer[w].halfway = r
  BY DEF SaveRow, AtRow
<1>2. /\ claim = "fresh" /\ status # "ready"
      /\ \A q \in Rows : Halfway(q) <=> q = r
  BY <1>1, OnlyRun
<1>3. /\ \A v \in Importers : Busy(v)' => v = w
      /\ importer'[w].halfway = NoRow
      /\ \A q \in Rows : ((q \in InRun)' => q \in InRun \ {r}) /\ ~Halfway(q)'
  BY <1>1, RowDone DEF SaveRow
<1>4. row'[r].status = "imported" /\ row'[r].created /\ \A q \in Rows : q # r => row'[q] = row[q]
  BY <1>t DEF SaveRow, TypeOK, Row
<1>5. UNCHANGED <<status, claim, made, accidents>>
  BY DEF SaveRow
<1>6. OneRun' /\ RunsClaimed'
  BY <1>2, <1>3, <1>5 DEF OneRun, RunsClaimed
<1>7. NotYetMade' /\ OneQuestionPerRow' /\ RollbackLeavesNone'
  BY <1>2, <1>3, <1>4, <1>5, <1>t DEF NotYetMade, OneQuestionPerRow, RollbackLeavesNone
<1>8. Overtaken'
  <2>1. \A q \in Rows : q # r => ((q \in Linked)' <=> q \in Linked)
    BY <1>4 DEF Linked
  <2> QED BY <1>2, <1>3, <1>4, <1>5, <2>1, <1>t, InRunRows DEF Overtaken
<1> QED BY <1>6, <1>7, <1>8 DEF Kept

LEMMA FailsKept ==
  ASSUME IInv, ~LongRuns, NEW w \in Importers, NEW r \in Rows, RowFails(w, r)
  PROVE  Kept'
<1> USE DEF delivery
<1>t. TypeOK /\ OneRun /\ RunsClaimed /\ NotYetMade /\ Overtaken /\ OneQuestionPerRow /\ RollbackLeavesNone
  BY DEF IInv
<1>1. Busy(w) /\ AtRow(w, r) /\ r \in importer[w].todo
  BY DEF RowFails, AtRow
<1>2. /\ claim = "fresh" /\ status # "ready" /\ r \in InRun
      /\ \A q \in Rows : Halfway(q) <=> importer[w].halfway = q
  BY <1>1, OnlyRun
<1>3. /\ \A v \in Importers : Busy(v)' => v = w
      /\ importer'[w].halfway = NoRow
      /\ \A q \in Rows : ((q \in InRun)' => q \in InRun \ {r}) /\ ~Halfway(q)'
  BY <1>1, RowDone DEF RowFails
<1>4. row'[r].status = "error" /\ \A q \in Rows : q # r => row'[q] = row[q]
  BY <1>t DEF RowFails, TypeOK, Row
<1>5. UNCHANGED <<status, claim, made>>
  BY DEF RowFails
<1>6. \A q \in Rows : accidents'[q] = accidents[q] + IF Halfway(q) THEN 1 ELSE 0
  BY <1>2, <1>t, BefallsType DEF RowFails
<1>7. OneRun' /\ RunsClaimed'
  BY <1>2, <1>3, <1>5 DEF OneRun, RunsClaimed
<1>8. \A q \in Rows : made[q] \in Int /\ accidents[q] \in Nat
  BY <1>t DEF TypeOK
<1>9. NotYetMade' /\ OneQuestionPerRow' /\ RollbackLeavesNone'
  BY <1>2, <1>3, <1>4, <1>5, <1>6, <1>8, <1>t DEF NotYetMade, OneQuestionPerRow, RollbackLeavesNone
<1>10. Overtaken'
  <2>1. \A q \in Rows : q # r => ((q \in Linked)' <=> q \in Linked)
    BY <1>4 DEF Linked
  <2> QED BY <1>2, <1>3, <1>4, <1>5, <1>6, <1>8, <2>1, <1>t, InRunRows DEF Overtaken
<1> QED BY <1>7, <1>9, <1>10 DEF Kept

LEMMA EndKept ==
  ASSUME IInv, ~LongRuns, NEW w \in Importers,
         FinishRun(w) \/ \E s \in {"failed", status} : BreakRun(w, s)
  PROVE  Kept'
<1> USE DEF delivery
<1>t. TypeOK /\ OneRun /\ RunsClaimed /\ NotYetMade /\ Overtaken /\ OneQuestionPerRow /\ RollbackLeavesNone
  BY DEF IInv
<1>1. Busy(w)
  BY DEF FinishRun, BreakRun
<1>2. /\ status # "ready"
      /\ importer[w].halfway \in importer[w].todo \cup {NoRow}
      /\ \A v \in Importers : Busy(v) => v = w
      /\ \A q \in Rows : Halfway(q) <=> importer[w].halfway = q
  BY <1>1, OnlyRun
<1>3. importer' = [importer EXCEPT ![w] = NoRun] /\ UNCHANGED <<row, claim, made>>
  BY DEF FinishRun, BreakRun
<1>4. \A v \in Importers : ~Busy(v)'
  BY <1>2, <1>3, <1>t DEF Busy, TypeOK
<1>5. \A q \in Rows : (q \notin InRun)' /\ ~Halfway(q)'
  BY <1>4 DEF InRun, Halfway
<1>6. OneRun' /\ RunsClaimed'
  BY <1>4 DEF OneRun, RunsClaimed
<1>7. Overtaken'
  BY <1>5, InRunRows DEF Overtaken
<1>8. \A q \in Rows : accidents'[q] = accidents[q] + IF Halfway(q) THEN 1 ELSE 0
  <2>1. CASE FinishRun(w)
    BY <2>1, <1>2, <1>t, NoRowNoRow DEF FinishRun, TypeOK
  <2>2. CASE \E s \in {"failed", status} : BreakRun(w, s)
    <3>1. Befalls({importer[w].halfway})
      BY <2>2 DEF BreakRun
    <3> QED BY <3>1, <1>2, <1>t, BefallsType
  <2> QED BY <2>1, <2>2
<1>9. status' # "ready" /\ (status' = "rolled_back" => status = "rolled_back")
  BY <1>2 DEF FinishRun, BreakRun
<1>10. \A q \in Rows : made[q] \in Int /\ accidents[q] \in Nat
  BY <1>t DEF TypeOK
<1>11. NotYetMade' /\ OneQuestionPerRow' /\ RollbackLeavesNone'
  BY <1>3, <1>5, <1>8, <1>9, <1>10, <1>t DEF NotYetMade, OneQuestionPerRow, RollbackLeavesNone
<1> QED BY <1>6, <1>7, <1>11 DEF Kept

LEMMA RunningKept ==
  ASSUME IInv, ~LongRuns, NEW w \in Importers, Running(w)
  PROVE  Kept'
  BY StartKept, SkipKept, CreateKept, SaveKept, FailsKept, EndKept DEF Running
-----------------------------------------------------------------------------
(* ... and the requests *)

\* A row that a direct request takes without contest has no question yet.
LEMMA Uncontested ==
  ASSUME IInv, NEW c \in Clerks, NEW r \in Rows, r \notin Contested(c)
  PROVE  /\ r \notin InRun /\ ~Halfway(r) /\ row[r] = clerk[c][r]
         /\ r \in Taken(c) => row[r].status # "imported"
         /\ r \in Skipped(c) => row[r].status = "duplicate"
  BY HalfwayInRun DEF Contested, Taken, Skipped, Skips, Settled

LEMMA CommitKept ==
  ASSUME IInv, NEW c \in Clerks, CommitDirect(c)
  PROVE  Kept'
<1> USE DEF delivery
<1>t. TypeOK /\ OneRun /\ RunsClaimed /\ NotYetMade /\ Overtaken /\ OneQuestionPerRow /\ RollbackLeavesNone
  BY DEF IInv
<1>1. UNCHANGED <<claim, importer>> /\ status' = "completed"
  BY DEF CommitDirect
<1>2. /\ \A v \in Importers : Busy(v)' <=> Busy(v)
      /\ \A q \in Rows : ((q \in InRun)' <=> q \in InRun) /\ (Halfway(q)' <=> Halfway(q))
  BY <1>1, SameRuns
<1>3. OneRun' /\ RunsClaimed'
  BY <1>1, <1>2, <1>t DEF OneRun, RunsClaimed
<1>4. \A q \in Rows :
        /\ made[q] \in Int /\ accidents[q] \in Nat
        /\ made'[q] = made[q] + IF q \in Taken(c) THEN 1 ELSE 0
        /\ accidents'[q] = accidents[q] + IF q \in Contested(c) THEN 1 ELSE 0
  BY <1>t, BefallsType DEF CommitDirect, TypeOK
<1>5. \A q \in Rows :
        /\ q \in Taken(c) => row'[q].status = "imported" /\ row'[q].created
        /\ q \notin Taken(c) /\ q \notin Skipped(c) => row'[q] = row[q]
        /\ q \in Skipped(c) => q \notin Taken(c) /\ row'[q].status = "skipped"
  <2>1. \A q \in Rows : row[q] \in Row
    BY <1>t DEF TypeOK
  <2>2. \A q \in Skipped(c) : q \notin Taken(c)
    BY DEF Taken
  <2> QED BY <2>1, <2>2 DEF CommitDirect, Row
<1>6. ASSUME NEW q \in Rows
      PROVE  /\ made'[q] <= 1 + accidents'[q]
             /\ q \in InRun /\ ~Halfway(q) => made'[q] <= accidents'[q]
             /\ row'[q].status # "imported" /\ ~Halfway(q) => made'[q] <= accidents'[q]
             /\ row'[q].status = "imported" /\ ~row'[q].created => made'[q] <= accidents'[q]
             /\ q \in InRun =>
                  made'[q] + (IF Halfway(q) THEN 0 ELSE 1)
                    <= accidents'[q] + (IF q \in Taken(c) THEN 1 ELSE 0)
  <2>1. CASE q \in Contested(c)
    <3>1. /\ made[q] <= 1 + accidents[q] /\ accidents'[q] = accidents[q] + 1
          /\ q \in InRun /\ ~Halfway(q) => made[q] <= accidents[q]
      BY <1>4, <1>t, <2>1 DEF OneQuestionPerRow, NotYetMade
    <3>2. CASE q \in Taken(c)
      BY <1>4, <1>5, <3>1, <3>2
    <3>3. CASE q \notin Taken(c)
      BY <1>4, <3>1, <3>3
    <3> QED BY <3>2, <3>3
  <2>2. CASE q \notin Contested(c)
    <3>1. /\ q \notin InRun /\ ~Halfway(q) /\ accidents'[q] = accidents[q]
          /\ q \in Taken(c) \cup Skipped(c) => row[q].status # "imported"
      BY <1>4, <2>2, Uncontested
    <3>2. /\ q \in Taken(c) \cup Skipped(c) => made[q] <= accidents[q]
          /\ row[q].status # "imported" => made[q] <= accidents[q]
          /\ row[q].status = "imported" /\ ~row[q].created => made[q] <= accidents[q]
          /\ made[q] <= 1 + accidents[q]
      BY <3>1, <1>t DEF NotYetMade, OneQuestionPerRow
    <3> QED BY <1>4, <1>5, <3>1, <3>2
  <2> QED BY <2>1, <2>2
<1>7. NotYetMade' /\ OneQuestionPerRow' /\ RollbackLeavesNone'
  BY <1>1, <1>2, <1>6 DEF NotYetMade, OneQuestionPerRow, RollbackLeavesNone
<1>8. Overtaken'
  <2>1. \A q \in Taken(c) : q \in Rows => (q \in Linked)'
    BY <1>5 DEF Linked
  <2>2. \A q \in InRun :
          made'[q] + (IF Halfway(q) THEN 0 ELSE 1)
            <= accidents'[q] + (IF (q \in Linked)' THEN 1 ELSE 0)
    <3> SUFFICES ASSUME NEW q \in InRun
                 PROVE  made'[q] + (IF Halfway(q) THEN 0 ELSE 1)
                          <= accidents'[q] + (IF (q \in Linked)' THEN 1 ELSE 0)
      OBVIOUS
    <3>1. q \in Rows /\ made'[q] \in Int /\ accidents'[q] \in Int
      BY <1>4, InRunRows
    <3> QED BY <1>6, <2>1, <3>1
  <2> QED BY <1>1, <1>2, <2>2, InRunRows DEF Overtaken
<1> QED BY <1>3, <1>7, <1>8 DEF Kept

LEMMA FailKept ==
  ASSUME IInv, NEW c \in Clerks, FailDirect(c)
  PROVE  Kept'
<1> USE DEF delivery
<1>t. TypeOK /\ OneRun /\ RunsClaimed /\ NotYetMade /\ Overtaken /\ OneQuestionPerRow /\ RollbackLeavesNone
  BY DEF IInv
<1>1. UNCHANGED <<claim, importer, made>> /\ status' = "failed"
  BY DEF FailDirect
<1>2. /\ \A v \in Importers : Busy(v)' <=> Busy(v)
      /\ \A q \in Rows : ((q \in InRun)' <=> q \in InRun) /\ (Halfway(q)' <=> Halfway(q))
  BY <1>1, SameRuns
<1>3. OneRun' /\ RunsClaimed'
  BY <1>1, <1>2, <1>t DEF OneRun, RunsClaimed
<1>4. \A q \in Rows :
        /\ made[q] \in Int /\ accidents[q] \in Nat
        /\ accidents'[q] = accidents[q] + IF q \in Contested(c) THEN 1 ELSE 0
  BY <1>t, BefallsType DEF FailDirect, TypeOK
<1>5. \A q \in Rows : row'[q] = row[q] \/ (q \in Taken(c) /\ row'[q].status = "error")
  BY <1>t DEF FailDirect, TypeOK, Row, Taken
<1>6. ASSUME NEW q \in Rows
      PROVE  /\ made[q] <= 1 + accidents'[q]
             /\ q \in InRun /\ ~Halfway(q) => made[q] <= accidents'[q]
             /\ row'[q].status # "imported" /\ ~Halfway(q) => made[q] <= accidents'[q]
             /\ row'[q].status = "imported" /\ ~row'[q].created => made[q] <= accidents'[q]
             /\ q \in InRun => made[q] + (IF Halfway(q) THEN 0 ELSE 1) <= accidents'[q]
  <2>1. CASE q \in Contested(c)
    BY <1>4, <1>t, <2>1 DEF OneQuestionPerRow, NotYetMade
  <2>2. CASE q \notin Contested(c)
    <3>1. q \notin InRun /\ (q \in Taken(c) => row[q].status # "imported")
      BY <2>2, Uncontested
    <3> QED BY <1>4, <1>5, <3>1, <2>2, <1>t DEF NotYetMade, OneQuestionPerRow
  <2> QED BY <2>1, <2>2
<1>7. NotYetMade' /\ OneQuestionPerRow' /\ RollbackLeavesNone'
  BY <1>1, <1>2, <1>6 DEF NotYetMade, OneQuestionPerRow, RollbackLeavesNone
<1>8. Overtaken'
  <2>1. \A q \in InRun :
          made'[q] + (IF Halfway(q) THEN 0 ELSE 1)
            <= accidents'[q] + (IF (q \in Linked)' THEN 1 ELSE 0)
    BY <1>1, <1>4, <1>6, InRunRows
  <2> QED BY <1>1, <1>2, <2>1, InRunRows DEF Overtaken
<1> QED BY <1>3, <1>7, <1>8 DEF Kept

LEMMA RollbackKept ==
  ASSUME IInv, Rollback
  PROVE  Kept'
<1> USE DEF delivery
<1>t. TypeOK /\ OneRun /\ RunsClaimed /\ NotYetMade /\ Overtaken /\ OneQuestionPerRow /\ RollbackLeavesNone
  BY DEF IInv
<1>1. UNCHANGED <<claim, importer, accidents>> /\ status = "completed" /\ status' = "rolled_back"
  BY DEF Rollback
<1>2. /\ \A v \in Importers : Busy(v)' <=> Busy(v)
      /\ \A q \in Rows : ((q \in InRun)' <=> q \in InRun) /\ (Halfway(q)' <=> Halfway(q))
  BY <1>1, SameRuns
<1>3. OneRun' /\ RunsClaimed'
  BY <1>1, <1>2, <1>t DEF OneRun, RunsClaimed
<1>4. \A q \in Rows :
        /\ made[q] \in Int /\ accidents[q] \in Nat
        /\ made'[q] = made[q] - IF q \in Linked THEN 1 ELSE 0
  BY <1>t DEF Rollback, TypeOK
<1>5. \A q \in Rows : (q \notin Linked)'
  <2>1. \A q \in Rows : row'[q].status = row[q].status
                       /\ row'[q].created = (row[q].created /\ q \notin Linked)
    BY <1>t DEF Rollback, TypeOK, Row
  <2> QED BY <2>1 DEF Linked
<1>6. \A q \in Rows : made'[q] <= accidents[q]
  <2> SUFFICES ASSUME NEW q \in Rows PROVE made'[q] <= accidents[q]
    OBVIOUS
  <2>1. CASE q \in Linked
    BY <1>4, <1>t, <2>1 DEF OneQuestionPerRow
  <2>2. CASE q \notin Linked /\ Halfway(q)
    <3>1. q \in InRun
      BY <2>2, HalfwayInRun
    <3> QED BY <1>1, <1>4, <1>t, <2>2, <3>1 DEF Overtaken
  <2>3. CASE q \notin Linked /\ ~Halfway(q)
    BY <1>4, <1>t, <2>3 DEF NotYetMade, Linked
  <2> QED BY <2>1, <2>2, <2>3
<1>7. NotYetMade' /\ OneQuestionPerRow' /\ RollbackLeavesNone'
  <2>1. \A q \in Rows : made'[q] <= 1 + accidents'[q]
    BY <1>1, <1>4, <1>6
  <2> QED BY <1>1, <1>6, <2>1 DEF NotYetMade, OneQuestionPerRow, RollbackLeavesNone
<1>8. Overtaken'
  <2>1. \A q \in InRun : made'[q] + (IF Halfway(q) THEN 0 ELSE 1) <= accidents[q]
    BY <1>1, <1>4, <1>t, InRunRows DEF Overtaken
  <2>2. Linked' \subseteq Rows
    BY DEF Linked
  <2> QED BY <1>1, <1>2, <1>4, <1>5, <2>1, <2>2, InRunRows DEF Overtaken
<1> QED BY <1>3, <1>7, <1>8 DEF Kept

-----------------------------------------------------------------------------
(* Every step keeps the invariant. *)

LEMMA InitInvariant == Init => IInv
<1> SUFFICES ASSUME Init PROVE IInv
  OBVIOUS
<1>1. TypeOK
  BY InitType
<1>2. \A w \in Importers : ~Busy(w)
  BY DEF Init, Busy
<1>3. \A r \in Rows : r \notin InRun /\ made[r] = 0 /\ accidents[r] = 0
  BY <1>2, NoRuns DEF Init
<1>4. OneRun /\ RunsClaimed
  BY <1>2 DEF OneRun, RunsClaimed
<1>5. NotYetMade /\ Overtaken /\ OneQuestionPerRow /\ RollbackLeavesNone
  BY <1>3, InRunRows DEF Init, NotYetMade, Overtaken, OneQuestionPerRow, RollbackLeavesNone
<1> QED BY <1>1, <1>4, <1>5 DEF IInv

LEMMA IdleKept ==
  ASSUME IInv, UNCHANGED <<status, row, claim, importer, made, accidents>>
  PROVE  Kept'
<1>1. UNCHANGED <<InRun, Linked>> /\ \A q \in Rows : Halfway(q)' <=> Halfway(q)
  BY DEF InRun, Linked, Halfway, Busy
<1>2. OneRun' /\ RunsClaimed'
  BY DEF IInv, OneRun, RunsClaimed, Busy
<1>3. NotYetMade' /\ Overtaken'
  BY <1>1, InRunRows DEF IInv, NotYetMade, Overtaken
<1> QED BY <1>2, <1>3 DEF IInv, Kept, OneQuestionPerRow, RollbackLeavesNone

LEMMA ClaimAgesKept ==
  ASSUME IInv, ~LongRuns, ClaimAges
  PROVE  Kept'
<1>1. \A w \in Importers : ~Busy(w) /\ ~Busy(w)'
  BY DEF ClaimAges, Busy
<1>2. UNCHANGED <<InRun, Linked>> /\ \A q \in Rows : Halfway(q)' <=> Halfway(q)
  BY DEF ClaimAges, InRun, Linked, Halfway, Busy
<1>3. OneRun' /\ RunsClaimed'
  BY <1>1 DEF OneRun, RunsClaimed
<1>4. NotYetMade' /\ Overtaken'
  BY <1>2, InRunRows DEF ClaimAges, IInv, NotYetMade, Overtaken
<1> QED BY <1>3, <1>4 DEF ClaimAges, IInv, Kept, OneQuestionPerRow, RollbackLeavesNone

LEMMA StepInvariant ==
  ASSUME ~LongRuns, IInv, [Next]_vars
  PROVE  IInv'
<1>1. TypeOK'
  BY NextType DEF IInv
<1>2. ASSUME NEW r \in Rows, Rowwork(r) PROVE Kept'
  BY <1>2, RowworkKept
<1>3. ASSUME Confirm \/ TaskForgotten \/ TaskRepeats \/ DropTask PROVE Kept'
  BY <1>3, IdleKept DEF Confirm, TaskForgotten, TaskRepeats, DropTask, delivery
<1>4. ASSUME ClaimAges PROVE Kept'
  BY <1>4, ClaimAgesKept
<1>5. ASSUME NEW w \in Importers, Running(w) PROVE Kept'
  BY <1>5, RunningKept
<1>6. ASSUME NEW c \in Clerks, BeginDirect(c) PROVE Kept'
  BY <1>6, IdleKept DEF BeginDirect, delivery
<1>7. ASSUME NEW c \in Clerks, CommitDirect(c) \/ FailDirect(c) PROVE Kept'
  BY <1>7, CommitKept, FailKept
<1>8. ASSUME Rollback PROVE Kept'
  BY <1>8, RollbackKept
<1>9. ASSUME UNCHANGED vars PROVE Kept'
  BY <1>9, IdleKept DEF vars, delivery
<1>10. Kept'
  BY <1>2, <1>3, <1>4, <1>5, <1>6, <1>7, <1>8, <1>9 DEF Next
<1> QED BY <1>1, <1>10 DEF IInv, Kept

\* When no run outlives its claim, the invariant holds in every state.
THEOREM InvariantHolds == ASSUME ~LongRuns PROVE Spec => []IInv
<1>1. Init => IInv
  BY InitInvariant
<1>2. IInv /\ [Next]_vars => IInv'
  BY StepInvariant
<1> QED BY <1>1, <1>2, PTL DEF Spec

\* The claim keeps two runs of one batch apart (_claim_batch).
THEOREM OneRunHolds == ASSUME ~LongRuns PROVE Spec => []OneRun
<1>1. IInv => OneRun
  BY DEF IInv
<1> QED BY <1>1, InvariantHolds, PTL

\* A row becomes a second question only by an accident of that row, however
\* often the run is delivered, breaks off and resumes (run_import).
THEOREM OneQuestionPerRowHolds == ASSUME ~LongRuns PROVE Spec => []OneQuestionPerRow
<1>1. IInv => OneQuestionPerRow
  BY DEF IInv
<1> QED BY <1>1, InvariantHolds, PTL

\* A rolled-back batch has no question left but by an accident
\* (ImportRollbackView).
THEOREM RollbackLeavesNoneHolds == ASSUME ~LongRuns PROVE Spec => []RollbackLeavesNone
<1>1. IInv => RollbackLeavesNone
  BY DEF IInv
<1> QED BY <1>1, InvariantHolds, PTL
-----------------------------------------------------------------------------
(* ImportSearch: remainders *)

LEMMA QuotientAndRest ==
  ASSUME NEW c \in Nat, c > 0, NEW n \in Nat
  PROVE  n = c * (n \div c) + (n % c) /\ n % c \in 0 .. (c - 1) /\ n \div c \in Int
<1>1. n = c * (n \div c) + (n % c)
  OBVIOUS
<1>2. n \div c \in Int /\ n % c \in 0 .. (c - 1)
  OBVIOUS
<1> QED BY <1>1, <1>2

LEMMA SmallMultiple ==
  ASSUME NEW c \in Nat, c > 0, NEW q \in Int, c * q < c, c * q > -c
  PROVE  c * q = 0
<1>1. CASE q >= 1
  <2>1. c * q >= c
    BY <1>1
  <2> QED BY <2>1
<1>2. CASE q <= -1
  <2>1. c * q <= -c
    BY <1>2
  <2> QED BY <2>1
<1>3. CASE q = 0
  BY <1>3
<1> QED BY <1>1, <1>2, <1>3

LEMMA NoRest == ASSUME NEW c \in Nat, c > 0 PROVE 0 % c = 0
<1> DEFINE q == 0 \div c
           m == 0 % c
<1>1. 0 = c * q + m /\ m \in 0 .. (c - 1) /\ q \in Int
  BY QuotientAndRest
<1> HIDE DEF q, m
<1>2. c * q = -m
  BY <1>1
<1>3. c * q = 0
  BY <1>1, <1>2, SmallMultiple
<1> QED BY <1>1, <1>3 DEF m

LEMMA NextMultiple ==
  ASSUME NEW c \in Nat, c > 0, NEW n \in Nat, n % c = 0
  PROVE  (n + c) % c = 0
<1> DEFINE d == n \div c
           e == (n + c) \div c
           m == (n + c) % c
<1>1. n = c * d /\ d \in Int
  BY QuotientAndRest
<1>2. n + c = c * e + m /\ m \in 0 .. (c - 1) /\ e \in Int
  BY QuotientAndRest
<1> HIDE DEF d, e, m
<1>3. c * (d + 1 - e) = m
  <2>1. c * (d + 1 - e) = c * d + c - c * e
    BY <1>1, <1>2
  <2> QED BY <1>1, <1>2, <2>1
<1>4. m = 0
  BY <1>1, <1>2, <1>3, SmallMultiple
<1> QED BY <1>4 DEF m

-----------------------------------------------------------------------------
(* ImportSearch: types *)

LEMMA SearchInitType == SearchInit => SearchTypeOK
<1> SUFFICES ASSUME SearchInit PROVE SearchTypeOK
  OBVIOUS
<1>1. flag \in [Rows -> Flags]
  BY DEF SearchInit, Flags
<1>2. /\ patch \in [Patchers -> Request \cup {NoPatch}]
      /\ search \in [Searchers -> Search \cup {NoSearch}]
  BY DEF SearchInit
<1>3. given \subseteq Nat /\ begun \in Nat /\ crashes \in Nat /\ edits \in Nat
  BY DEF SearchInit
<1> QED BY <1>1, <1>2, <1>3 DEF SearchInit, SearchTypeOK

\* A search keeps its type when its next row is cleared, and when it passes the row.
LEMMA SearchCleared ==
  ASSUME NEW s \in Search
  PROVE  [s EXCEPT !.cleared = TRUE] \in Search
  BY Zenon DEF Search

LEMMA SearchMoved ==
  ASSUME NEW s \in Search, NEW r, NEW n \in Nat
  PROVE  [s EXCEPT !.todo = @ \ {r}, !.passed = @ + 1, !.cleared = FALSE, !.late = n]
           \in Search
<1>1. ASSUME NEW rest \in SUBSET Rows, NEW passed \in Nat
      PROVE  [s EXCEPT !.todo = rest, !.passed = passed, !.cleared = FALSE, !.late = n]
               \in Search
  BY Zenon DEF Search
<1>2. s.todo \ {r} \in SUBSET Rows /\ s.passed + 1 \in Nat
  BY DEF Search
<1> QED BY <1>1, <1>2

LEMMA SearchOvertaken ==
  ASSUME NEW s \in Search
  PROVE  [s EXCEPT !.overtaken = TRUE] \in Search
  BY Zenon DEF Search

LEMMA RequestSteps ==
  ASSUME NEW q \in Request, NEW step \in {"saved", "numbered"}
  PROVE  [q EXCEPT !.step = step] \in Request
  BY Zenon DEF Request

LEMMA PatchingType ==
  ASSUME SearchTypeOK, NEW p \in Patchers, Patching(p)
  PROVE  SearchTypeOK'
<1> DEFINE Typed == patch' \in [Patchers -> Request \cup {NoPatch}]
<1>1. ASSUME patch[p] # NoPatch PROVE patch[p] \in Request
  BY <1>1 DEF SearchTypeOK
<1>2. CASE \E s \in Subjects \cup {NoSubject} : ReadBatch(p, s)
  <2>1. PICK s \in Subjects \cup {NoSubject} : ReadBatch(p, s)
    BY <1>2
  <2> DEFINE q == [step |-> IF s = subject THEN "kept" ELSE "asked", to |-> s,
                   gen |-> generation]
  <2>2. q \in Request
    BY DEF SearchTypeOK, Request
  <2>3. patch' = [patch EXCEPT ![p] = q] /\ begun' \in Nat
    BY <2>1 DEF ReadBatch, SearchTypeOK
  <2> HIDE DEF q
  <2>4. Typed
    BY <2>2, <2>3 DEF SearchTypeOK
  <2> QED BY <2>1, <2>3, <2>4 DEF ReadBatch, SearchTypeOK, batch, queue, searches, rows
<1>3. CASE SaveSubject(p)
  <2>1. patch[p] \in Request
    BY <1>1, <1>3 DEF SaveSubject, At
  <2>2. subject' \in Subjects \cup {NoSubject} /\ unannounced' \in BOOLEAN
    BY <1>3, <2>1 DEF SaveSubject, Request
  <2>3. [patch[p] EXCEPT !.step = "saved"] \in Request
    BY <2>1, RequestSteps
  <2>4. Typed
    BY <1>3, <2>3 DEF SaveSubject, SearchTypeOK
  <2> QED BY <1>3, <2>2, <2>4 DEF SaveSubject, SearchTypeOK, queue, searches, rows
<1>4. CASE SaveGeneration(p)
  <2>1. patch[p] \in Request
    BY <1>1, <1>4 DEF SaveGeneration, At
  <2>2. patch[p].gen + 1 \in Nat
    BY <2>1 DEF Request
  <2>3. /\ generation' \in Nat /\ given' \subseteq Nat /\ doubled' \subseteq Nat
        /\ unannounced' \in BOOLEAN
    BY <1>4, <2>2 DEF SaveGeneration, SearchTypeOK
  <2>4. [patch[p] EXCEPT !.step = "numbered"] \in Request
    BY <2>1, RequestSteps
  <2>5. Typed
    BY <1>4, <2>4 DEF SaveGeneration, SearchTypeOK
  <2>6. search' \in [Searchers -> Search \cup {NoSearch}]
    <3>1. ASSUME NEW w \in Searchers, AtWork(w)
          PROVE  [search[w] EXCEPT !.overtaken = TRUE] \in Search
      BY <3>1, SearchOvertaken DEF AtWork, SearchTypeOK
    <3> QED BY <1>4, <3>1 DEF SaveGeneration, SearchTypeOK
  <2> QED BY <1>4, <2>3, <2>5, <2>6 DEF SaveGeneration, SearchTypeOK, queue, rows
<1>5. CASE SendTask(p)
  <2>1. patch[p] \in Request
    BY <1>1, <1>5 DEF SendTask, At
  <2>2. patch[p].gen + 1 \in Nat
    BY <2>1 DEF Request
  <2>3. tasks' \subseteq Nat /\ Typed
    BY <1>5, <2>2 DEF SendTask, SearchTypeOK
  <2> QED BY <1>5, <2>3 DEF SendTask, SearchTypeOK, batch, searches, rows
<1>6. CASE BreakRequest(p)
  <2>1. patch[p] \in Request
    BY <1>1, <1>6 DEF BreakRequest, At
  <2>2. patch[p].gen + 1 \in Nat
    BY <2>1 DEF Request
  <2>3. unsent' \subseteq Nat
    BY <1>6, <2>2 DEF BreakRequest, SearchTypeOK
  <2>4. Typed /\ crashes' \in Nat
    BY <1>6 DEF BreakRequest, SearchTypeOK
  <2> QED BY <1>6, <2>3, <2>4 DEF BreakRequest, SearchTypeOK, batch, queue, searches, rows
<1> QED BY <1>2, <1>3, <1>4, <1>5, <1>6 DEF Patching

LEMMA ClaimType ==
  ASSUME SearchTypeOK, NEW w \in Searchers, NEW g \in tasks, ClaimSearch(w, g)
  PROVE  SearchTypeOK'
<1> DEFINE new == [gen |-> g, of |-> subject,
              todo |-> IF subject = NoSubject THEN {}
                       ELSE {r \in Rows : flag[r] \notin {"error", "removed"}},
              flagged |-> {r \in Rows : flag[r] = "duplicate"},
              passed |-> 0, cleared |-> FALSE, overtaken |-> FALSE, late |-> 0]
<1>1. new \in Search
  BY DEF SearchTypeOK, Search
<1>2. search' = [search EXCEPT ![w] = new]
  BY DEF ClaimSearch
<1> HIDE DEF new
<1>3. search' \in [Searchers -> Search \cup {NoSearch}]
  BY <1>1, <1>2 DEF SearchTypeOK
<1> QED BY <1>3 DEF ClaimSearch, SearchTypeOK, queue, requests, rows

LEMMA SearchingType ==
  ASSUME SearchTypeOK, NEW w \in Searchers, Searching(w)
  PROVE  SearchTypeOK'
<1> DEFINE Typed == search' \in [Searchers -> Search \cup {NoSearch}]
<1>1. ASSUME AtWork(w) PROVE search[w] \in Search
  BY <1>1 DEF AtWork, SearchTypeOK
<1>2. CASE \E g \in tasks : ClaimSearch(w, g)
  BY <1>2, ClaimType
<1>3. CASE ClearRow(w)
  <2>1. Typed
    BY <1>1, <1>3, SearchCleared DEF ClearRow, SearchTypeOK
  <2> QED BY <2>1, <1>3 DEF ClearRow, SearchTypeOK, batch, queue, requests, rows
<1>4. CASE StopSearch(w)
  <2>1. Typed
    BY <1>4 DEF StopSearch, EndSearch, SearchTypeOK
  <2> QED BY <2>1, <1>4
        DEF StopSearch, EndSearch, SearchTypeOK, batch, requests, rows
<1>5. CASE SearchRow(w)
  <2> DEFINE r == First(search[w].todo)
             n == IF search[w].overtaken THEN search[w].late + 1 ELSE search[w].late
  <2>1. n \in Nat
    BY <1>1, <1>5 DEF SearchRow, Search
  <2> DEFINE new == [search[w] EXCEPT !.todo = @ \ {r}, !.passed = @ + 1,
                       !.cleared = FALSE, !.late = n]
  <2>2. search' = [search EXCEPT ![w] = new]
    BY <1>5 DEF SearchRow
  <2>3. flag' \in [Rows -> Flags] /\ decided' \subseteq Rows
    BY <1>5 DEF SearchRow, SearchTypeOK, Flags
  <2> HIDE DEF r, n
  <2>4. new \in Search
    BY <1>1, <1>5, <2>1, SearchMoved DEF SearchRow
  <2> HIDE DEF new
  <2>5. Typed
    BY <2>2, <2>4 DEF SearchTypeOK
  <2> QED BY <2>3, <2>5, <1>5 DEF SearchRow, SearchTypeOK, batch, queue, requests
<1>6. CASE FinishSearch(w)
  <2>1. Typed
    BY <1>6 DEF FinishSearch, EndSearch, SearchTypeOK
  <2>2. searchedFor' \in Subjects \cup {NoSubject}
    BY <1>1, <1>6 DEF FinishSearch, SearchTypeOK, Search
  <2> QED BY <2>1, <2>2, <1>6 DEF FinishSearch, EndSearch, SearchTypeOK, requests, rows
<1>7. CASE Crash(w) \/ RowIsGone(w)
  <2>1. Break(w) /\ crashes' \in Nat
    BY <1>7 DEF Crash, RowIsGone, SearchTypeOK
  <2>2. Typed
    BY <2>1 DEF Break, SearchTypeOK
  <2>3. broken' \subseteq Nat
    BY <1>1, <2>1 DEF Break, SearchTypeOK, Search
  <2> QED BY <2>1, <2>2, <2>3 DEF Break, SearchTypeOK, batch, queue, requests, rows
<1> QED BY <1>2, <1>3, <1>4, <1>5, <1>6, <1>7 DEF Searching

LEMMA AdminType ==
  ASSUME SearchTypeOK,
         \/ \E r \in Rows : \/ SetAction(r) \/ DeleteRow(r)
                            \/ \E valid \in BOOLEAN : PatchRow(r, valid)
         \/ Import
  PROVE  SearchTypeOK'
<1>1. CASE \E r \in Rows : SetAction(r)
  BY <1>1 DEF SetAction, OpenDuplicates, SearchTypeOK, batch, queue, requests, searches
<1>2. CASE \E r \in Rows : DeleteRow(r) \/ \E valid \in BOOLEAN : PatchRow(r, valid)
  <2>1. /\ flag' \in [Rows -> Flags] /\ edits' \in Nat
        /\ UNCHANGED <<batch, queue, requests, searches, decided, crashes>>
    BY <1>2 DEF DeleteRow, PatchRow, SearchTypeOK, Flags
  <2> QED BY <2>1 DEF SearchTypeOK, batch, queue, requests, searches
<1>3. CASE Import
  BY <1>3 DEF Import, SearchTypeOK, Flags, queue, requests, searches
<1> QED BY <1>1, <1>2, <1>3

LEMMA SearchNextType ==
  SearchTypeOK /\ [SearchNext]_searchVars => SearchTypeOK'
<1> SUFFICES ASSUME SearchTypeOK, [SearchNext]_searchVars
             PROVE  SearchTypeOK'
  OBVIOUS
<1>1. CASE \E g \in tasks : DropSearch(g)
  BY <1>1 DEF DropSearch, SearchTypeOK, batch, requests, searches, rows
<1>2. CASE SearchClaimAges
  BY <1>2 DEF SearchClaimAges, SearchTypeOK, queue, requests, searches, rows
<1>3. CASE \E g \in 1..MaxRequests : ForgetName(g)
  BY <1>3 DEF ForgetName, SearchTypeOK, batch, requests, searches, rows
<1>4. CASE UNCHANGED searchVars
  BY <1>4 DEF SearchTypeOK, searchVars, batch, queue, requests, searches, rows
<1> QED BY <1>1, <1>2, <1>3, <1>4, PatchingType, SearchingType, AdminType DEF SearchNext

\* Types of the search for duplicates.
THEOREM SearchTypeCorrect == SearchSpec => []SearchTypeOK
  BY SearchInitType, SearchNextType, PTL DEF SearchSpec

-----------------------------------------------------------------------------
(* ImportSearch: the steps as the invariant sees them *)

\* A step of a search w leaves the other ones alone, and w itself is either a
\* new search of the current generation, or over, or still of its own.
LEMMA SearchStep ==
  ASSUME SearchTypeOK, NEW w \in Searchers, Searching(w)
  PROVE  /\ UNCHANGED <<generation, subject, given, doubled, unannounced>>
         /\ \A v \in Searchers \ {w} : search'[v] = search[v]
         /\ search'[w] # NoSearch =>
              \/ \E g \in tasks : /\ ClaimSearch(w, g)
                                   /\ search'[w].gen = generation /\ search'[w].of = subject
              \/ /\ ClearRow(w) \/ SearchRow(w)
                 /\ search[w] # NoSearch
                 /\ search'[w].gen = search[w].gen /\ search'[w].of = search[w].of
<1>1. ASSUME AtWork(w)
      PROVE  /\ [search[w] EXCEPT !.cleared = TRUE].gen = search[w].gen
             /\ [search[w] EXCEPT !.cleared = TRUE].of = search[w].of
             /\ \A rest, passed, late :
                  LET s == [search[w] EXCEPT !.todo = rest, !.passed = passed,
                                             !.cleared = FALSE, !.late = late]
                  IN  s.gen = search[w].gen /\ s.of = search[w].of
  <2>1. search[w] \in Search
    BY <1>1 DEF AtWork, SearchTypeOK
  <2> QED BY <2>1 DEF Search
<1>2. CASE \E g \in tasks : ClaimSearch(w, g)
  <2>1. PICK g \in tasks : ClaimSearch(w, g)
    BY <1>2
  <2>2. search'[w].gen = g /\ g = generation /\ search'[w].of = subject
    BY <2>1 DEF ClaimSearch, Claimable, SearchTypeOK
  <2> QED BY <2>1, <2>2 DEF ClaimSearch, SearchTypeOK, requests
<1>3. CASE ClearRow(w)
  BY <1>1, <1>3 DEF ClearRow, AtWork, SearchTypeOK, batch, requests
<1>4. CASE SearchRow(w)
  BY <1>1, <1>4 DEF SearchRow, AtWork, SearchTypeOK, batch, requests
<1>5. CASE StopSearch(w) \/ FinishSearch(w)
  BY <1>5 DEF StopSearch, FinishSearch, EndSearch, SearchTypeOK, batch, requests
<1>6. CASE Crash(w) \/ RowIsGone(w)
  BY <1>6 DEF Crash, RowIsGone, Break, SearchTypeOK, batch, requests
<1> QED BY <1>2, <1>3, <1>4, <1>5, <1>6 DEF Searching

\* Whatever else happens leaves the searches, the generation and its state; a
\* change of the subject is noted.
LEMMA OtherSteps ==
  ASSUME [SearchNext]_searchVars
  PROVE  \/ \E w \in Searchers : Searching(w)
         \/ \E p \in Patchers : SaveGeneration(p)
         \/ /\ UNCHANGED <<generation, dedup, search, given, doubled, searchedFor>>
            /\ dedupClaim' = dedupClaim \/ SearchClaimAges
            /\ unannounced' \/ (~unannounced /\ subject' = subject)
<1>1. CASE \E p \in Patchers : \/ \E s \in Subjects \cup {NoSubject} : ReadBatch(p, s)
                               \/ SendTask(p) \/ BreakRequest(p)
  <2>1. UNCHANGED <<batch, given, doubled, unannounced, searches>>
    BY <1>1 DEF ReadBatch, SendTask, BreakRequest
  <2> QED BY <2>1 DEF batch, searches
<1>2. CASE \E p \in Patchers : SaveSubject(p)
  BY <1>2 DEF SaveSubject, searches
<1>3. CASE (\E g \in tasks : DropSearch(g)) \/ \E g \in 1..MaxRequests : ForgetName(g)
  BY <1>3 DEF DropSearch, ForgetName, batch, requests, searches
<1>4. CASE SearchClaimAges
  BY <1>4 DEF SearchClaimAges, requests, searches
<1>5. CASE \E r \in Rows : \/ SetAction(r) \/ DeleteRow(r)
                           \/ \E valid \in BOOLEAN : PatchRow(r, valid)
  BY <1>5 DEF SetAction, DeleteRow, PatchRow, batch, requests, searches
<1>6. CASE Import
  BY <1>6 DEF Import, requests, searches
<1>7. CASE UNCHANGED searchVars
  BY <1>7 DEF searchVars, batch, requests, searches
<1> QED BY <1>1, <1>2, <1>3, <1>4, <1>5, <1>6, <1>7 DEF SearchNext, Patching

\* Saving a generation supersedes every search, but for one of the generation
\* saved, which two requests have saved then.
LEMMA SavedGeneration ==
  ASSUME SearchTypeOK, GenerationsGiven, NEW p \in Patchers, SaveGeneration(p)
  PROVE  /\ dedup' = "pending" /\ generation' \in given' /\ given \subseteq given'
         /\ doubled \subseteq doubled'
         /\ \A w \in Searchers :
              /\ AtWork(w)' => AtWork(w)
              /\ AtWork(w) =>
                   /\ search'[w] = [search[w] EXCEPT !.overtaken = TRUE]
                   /\ search[w] \in Search
                   /\ search'[w].gen = search[w].gen /\ search'[w].overtaken
                   /\ search[w].gen = generation' => search[w].gen \in doubled'
<1> DEFINE g == patch[p].gen + 1
<1>1. /\ generation' = g /\ given' = given \cup {g}
      /\ doubled' = IF g \in given THEN doubled \cup {g} ELSE doubled
      /\ dedup' = "pending"
      /\ search' = [w \in Searchers |->
           IF AtWork(w) THEN [search[w] EXCEPT !.overtaken = TRUE] ELSE search[w]]
  BY DEF SaveGeneration
<1> HIDE DEF g
<1>2. ASSUME NEW w \in Searchers, AtWork(w)
      PROVE  /\ search'[w] = [search[w] EXCEPT !.overtaken = TRUE]
             /\ search[w] \in Search
             /\ search'[w].gen = search[w].gen /\ search'[w].overtaken
             /\ search[w].gen = generation' => search[w].gen \in doubled'
  <2>1. search[w] \in Search
    BY <1>2 DEF AtWork, SearchTypeOK
  <2>2. search'[w] = [search[w] EXCEPT !.overtaken = TRUE]
    BY <1>1, <1>2
  <2>3. search'[w].gen = search[w].gen /\ search'[w].overtaken
    BY <2>1, <2>2 DEF Search
  <2>4. search[w].gen \in given
    BY <1>2 DEF GenerationsGiven
  <2> QED BY <1>1, <2>1, <2>2, <2>3, <2>4
<1>3. ASSUME NEW w \in Searchers, AtWork(w)' PROVE AtWork(w)
  BY <1>1, <1>3 DEF AtWork
<1> QED BY <1>1, <1>2, <1>3

-----------------------------------------------------------------------------
(* ImportSearch: the invariant *)

LEMMA GenerationsKept ==
  ASSUME SearchInv, [SearchNext]_searchVars
  PROVE  GenerationsGiven'
<1> USE DEF SearchInv
<1>1. ASSUME NEW w \in Searchers, Searching(w)
      PROVE  GenerationsGiven'
  <2>1. UNCHANGED <<generation, given>>
    BY <1>1, SearchStep
  <2>2. ASSUME NEW v \in Searchers, search'[v] # NoSearch
        PROVE  \/ search'[v].gen = generation
               \/ search[v] # NoSearch /\ search'[v].gen = search[v].gen
    <3>1. CASE v = w
      <4>1. search'[w] # NoSearch /\ SearchTypeOK
        BY <2>2, <3>1
      <4> QED BY <1>1, <3>1, <4>1, SearchStep
    <3>2. CASE v # w
      <4>1. search'[v] = search[v]
        BY <1>1, <3>2, SearchStep
      <4> QED BY <2>2, <4>1
    <3> QED BY <3>1, <3>2
  <2> QED BY <2>1, <2>2 DEF GenerationsGiven, AtWork
<1>2. ASSUME NEW p \in Patchers, SaveGeneration(p)
      PROVE  GenerationsGiven'
  BY <1>2, SavedGeneration DEF GenerationsGiven, AtWork
<1>3. CASE UNCHANGED <<generation, search, given>>
  BY <1>3 DEF GenerationsGiven, AtWork
<1> QED BY <1>1, <1>2, <1>3, OtherSteps

LEMMA CurrentKept ==
  ASSUME SearchInv, [SearchNext]_searchVars
  PROVE  SearchesCurrent'
<1> USE DEF SearchInv, SearchesCurrent, Superseded
<1>1. ASSUME NEW w \in Searchers, Searching(w)
      PROVE  SearchesCurrent'
  <2>1. UNCHANGED <<generation, subject, unannounced, doubled>>
    BY <1>1, SearchStep
  <2>2. ASSUME NEW v \in Searchers, search'[v] # NoSearch
        PROVE  \/ search'[v].of = subject
               \/ /\ search[v] # NoSearch /\ search'[v].gen = search[v].gen
                  /\ search'[v].of = search[v].of
    <3>1. CASE v = w
      BY <1>1, <2>2, <3>1, SearchStep
    <3>2. CASE v # w
      <4>1. search'[v] = search[v]
        BY <1>1, <3>2, SearchStep
      <4> QED BY <2>2, <4>1
    <3> QED BY <3>1, <3>2
  <2> QED BY <2>1, <2>2 DEF AtWork
<1>2. ASSUME NEW p \in Patchers, SaveGeneration(p)
      PROVE  SearchesCurrent'
  BY <1>2, SavedGeneration DEF AtWork
<1>3. CASE /\ UNCHANGED <<generation, search, doubled>>
           /\ unannounced' \/ (~unannounced /\ subject' = subject)
  BY <1>3 DEF AtWork
<1> QED BY <1>1, <1>2, <1>3, OtherSteps

LEMMA CompletedKept ==
  ASSUME SearchInv, [SearchNext]_searchVars
  PROVE  CompletedByCurrent'
<1> USE DEF SearchInv, CompletedByCurrent
<1>1. ASSUME NEW w \in Searchers, Searching(w)
      PROVE  CompletedByCurrent'
  <2>1. CASE \E g \in tasks : ClaimSearch(w, g)
    BY <2>1 DEF ClaimSearch
  <2>2. CASE FinishSearch(w)
    BY <2>2 DEF FinishSearch, Completes, SearchesCurrent, requests
  <2>3. CASE UNCHANGED <<batch, searchedFor, doubled, unannounced>>
    BY <2>3 DEF batch
  <2> QED BY <1>1, <2>1, <2>2, <2>3
        DEF Searching, ClearRow, StopSearch, SearchRow, Crash,
            RowIsGone, Break, requests
<1>2. ASSUME NEW p \in Patchers, SaveGeneration(p)
      PROVE  CompletedByCurrent'
  BY <1>2 DEF SaveGeneration
<1>3. CASE /\ UNCHANGED <<generation, dedup, doubled, searchedFor>>
           /\ unannounced' \/ (~unannounced /\ subject' = subject)
  BY <1>3
<1> QED BY <1>1, <1>2, <1>3, OtherSteps

\* What LooksOften says of a search s, that is, or is not, overtaken.
Window(s, overtaken) ==
    /\ \E look \in 0..s.passed :
         /\ look % CheckEvery = 0
         /\ look + s.late <= s.passed
         /\ s.passed <= look + CheckEvery
         /\ s.cleared => s.passed < look + CheckEvery
    /\ ~overtaken => s.late = 0

\* A search looks before a row, or is not due to; and it passes the row.
LEMMA WindowCleared ==
  ASSUME NEW c \in Nat, c > 0, c = CheckEvery, NEW s \in Search, NEW overtaken \in BOOLEAN,
         Window(s, overtaken), ~(s.passed % c = 0 /\ overtaken)
  PROVE  Window([s EXCEPT !.cleared = TRUE], overtaken)
<1> DEFINE t == [s EXCEPT !.cleared = TRUE]
<1>1. t.passed = s.passed /\ t.late = s.late /\ s.passed \in Nat /\ s.late \in Nat
  BY DEF Search
<1> HIDE DEF t
<1>2. CASE s.passed % c = 0
  <2>1. s.passed \in 0..t.passed /\ s.late = 0
    BY <1>1, <1>2 DEF Window
  <2>2. /\ s.passed + t.late <= t.passed /\ t.passed <= s.passed + c
        /\ t.passed < s.passed + c /\ t.late = 0
    BY <1>1, <2>1
  <2> QED BY <1>2, <2>1, <2>2 DEF Window, t
<1>3. CASE s.passed % c # 0
  <2>1. PICK look \in 0..s.passed :
          look % c = 0 /\ look + s.late <= s.passed /\ s.passed <= look + c
    BY DEF Window
  <2>2. (look + c) % c = 0
    <3>1. look \in Nat
      BY <1>1
    <3> QED BY <2>1, <3>1, NextMultiple
  <2>3. s.passed < look + c
    BY <1>1, <1>3, <2>1, <2>2
  <2>4. look \in 0..t.passed
    BY <1>1, <2>1
  <2> QED BY <1>1, <2>1, <2>3, <2>4 DEF Window, t
<1> QED BY <1>2, <1>3

LEMMA WindowPassed ==
  ASSUME NEW c \in Nat, c > 0, c = CheckEvery, NEW s \in Search, NEW overtaken \in BOOLEAN,
         Window(s, overtaken), s.cleared, NEW r, NEW n \in Nat,
         n = IF overtaken THEN s.late + 1 ELSE s.late
  PROVE  Window([s EXCEPT !.todo = @ \ {r}, !.passed = @ + 1, !.cleared = FALSE, !.late = n],
                overtaken)
<1> DEFINE t == [s EXCEPT !.todo = @ \ {r}, !.passed = @ + 1, !.cleared = FALSE, !.late = n]
<1>1. t.passed = s.passed + 1 /\ t.late = n /\ t.cleared = FALSE /\ s.passed \in Nat
  BY DEF Search
<1>2. s.late \in Nat
  BY DEF Search
<1> HIDE DEF t
<1>3. PICK look \in 0..s.passed :
        look % c = 0 /\ look + s.late <= s.passed /\ s.passed < look + c
  BY DEF Window
<1>4. look \in 0..t.passed /\ look + t.late <= t.passed /\ t.passed <= look + c
  BY <1>1, <1>2, <1>3
<1>5. ~overtaken => t.late = 0
  BY <1>1 DEF Window
<1> QED BY <1>1, <1>3, <1>4, <1>5 DEF Window, t

LEMMA LooksKept ==
  ASSUME SearchInv, [SearchNext]_searchVars
  PROVE  LooksOften'
<1> DEFINE Fine(v) ==
      search[v] # NoSearch /\ search[v].gen \notin doubled =>
          /\ Window(search[v], search[v].overtaken)
          /\ search[v].overtaken => generation # search[v].gen
<1>1. CheckEvery \in Nat /\ CheckEvery > 0
  BY SearchAssumption
<1>2. \A v \in Searchers : Fine(v)
  BY DEF SearchInv, LooksOften, Looked, AtWork, Superseded, Window
<1>3. SearchTypeOK /\ GenerationsGiven
  BY DEF SearchInv
<1>4. ASSUME NEW w \in Searchers, Searching(w), NEW v \in Searchers
      PROVE  Fine(v)'
  <2>1. CASE search'[v] = search[v] /\ UNCHANGED <<generation, doubled>>
    BY <1>2, <2>1 DEF Window
  <2>2. CASE \E g \in tasks : ClaimSearch(v, g)
    <3>1. /\ search'[v].passed = 0 /\ search'[v].late = 0
          /\ ~search'[v].cleared /\ ~search'[v].overtaken
      BY <1>3, <2>2 DEF ClaimSearch, SearchTypeOK
    <3>2. 0 % CheckEvery = 0 /\ 0 \in 0..0
      BY <1>1, NoRest
    <3> QED BY <1>1, <3>1, <3>2 DEF Window
  <2>3. CASE /\ search[v].gen \notin doubled /\ UNCHANGED <<generation, doubled>>
             /\ ClearRow(v) \/ SearchRow(v)
    <3> DEFINE s == search[v]
               overtaken == search[v].overtaken
    <3>1. s \in Search /\ s # NoSearch /\ overtaken \in BOOLEAN
      <4>1. s \in Search /\ s # NoSearch
        BY <1>3, <2>3 DEF ClearRow, SearchRow, AtWork, SearchTypeOK
      <4> QED BY <4>1 DEF Search
    <3>2. Window(s, overtaken) /\ (overtaken => generation # s.gen)
      BY <1>2, <2>3, <3>1
    <3>3. CASE ClearRow(v)
      <4>1. search'[v] = [s EXCEPT !.cleared = TRUE]
        BY <1>3, <3>3 DEF ClearRow, SearchTypeOK
      <4>2. ~(s.passed % CheckEvery = 0 /\ overtaken)
        BY <3>2, <3>3 DEF ClearRow, ChecksNow, Superseded
      <4>3. search'[v].gen = s.gen /\ search'[v].overtaken = overtaken
        BY <3>1, <4>1 DEF Search
      <4> HIDE DEF s
      <4>4. Window([s EXCEPT !.cleared = TRUE], overtaken)
        BY <1>1, <3>1, <3>2, <4>2, WindowCleared DEF s
      <4> QED BY <2>3, <3>2, <4>1, <4>3, <4>4 DEF Window, s
    <3>4. CASE SearchRow(v)
      <4> DEFINE n == IF overtaken THEN s.late + 1 ELSE s.late
                 r == First(s.todo)
                 new == [s EXCEPT !.todo = @ \ {r}, !.passed = @ + 1, !.cleared = FALSE,
                                  !.late = n]
      <4>1. search'[v] = new /\ s.cleared
        BY <1>3, <3>4 DEF SearchRow, SearchTypeOK
      <4>2. n \in Nat /\ new.gen = s.gen /\ new.overtaken = overtaken
        BY <3>1 DEF Search
      <4>3. n = IF overtaken THEN s.late + 1 ELSE s.late
        OBVIOUS
      <4>4. Window(s, overtaken) /\ s.cleared /\ n \in Nat
        BY <3>2, <4>1, <4>2
      <4>5. Window(new, overtaken)
        <5>1. s \in Search /\ overtaken \in BOOLEAN
          BY <3>1
        <5> HIDE DEF r, n, s, overtaken
        <5> QED BY <1>1, <4>3, <4>4, <5>1, WindowPassed, Zenon
      <4> HIDE DEF new, n, r
      <4> QED BY <2>3, <3>2, <4>1, <4>2, <4>5
    <3> QED BY <2>3, <3>3, <3>4
  <2> QED BY <1>3, <1>4, <2>1, <2>2, <2>3, SearchStep DEF Window
<1>5. ASSUME NEW p \in Patchers, SaveGeneration(p), NEW v \in Searchers
      PROVE  Fine(v)'
  <2> SUFFICES ASSUME AtWork(v), search[v].gen \notin doubled', Fine(v)
               PROVE  /\ Window(search'[v], search'[v].overtaken)
                      /\ generation' # search'[v].gen
    BY <1>2, <1>3, <1>5, SavedGeneration DEF AtWork, Window
  <2>1. /\ search'[v] = [search[v] EXCEPT !.overtaken = TRUE] /\ search[v] \in Search
        /\ search'[v].gen = search[v].gen /\ search'[v].overtaken
        /\ generation' # search[v].gen /\ search[v].gen \notin doubled
    BY <1>3, <1>5, SavedGeneration
  <2>2. /\ search'[v].passed = search[v].passed /\ search'[v].late = search[v].late
        /\ search'[v].cleared = search[v].cleared
    BY <2>1 DEF Search
  <2>3. Window(search[v], search[v].overtaken)
    BY <2>1 DEF AtWork
  <2> QED BY <2>1, <2>2, <2>3 DEF Window
<1>6. ASSUME UNCHANGED <<generation, search, doubled>>, NEW v \in Searchers
      PROVE  Fine(v)'
  BY <1>2, <1>6 DEF Window
<1>7. (\A v \in Searchers : Fine(v)') => LooksOften'
  BY DEF LooksOften, Looked, AtWork, Superseded, Window
<1> QED BY <1>4, <1>5, <1>6, <1>7, OtherSteps

LEMMA HeldKept ==
  ASSUME ~LongSearches, SearchInv, [SearchNext]_searchVars
  PROVE  ClaimHeld' /\ OneSearch'
<1>1. SearchTypeOK /\ GenerationsGiven /\ ClaimHeld
  BY DEF SearchInv
<1>2. \A v, w \in Searchers :
        /\ search[v] # NoSearch /\ search[w] # NoSearch /\ search[v].gen = search[w].gen
        /\ search[v].gen \notin doubled
        => v = w
  BY DEF SearchInv, OneSearch, AtWork
<1>3. \A v \in Searchers :
        search[v] # NoSearch /\ search[v].gen = generation /\ generation \notin doubled =>
        dedup = "processing" /\ dedupClaim = "fresh"
  BY <1>1 DEF ClaimHeld, AtWork, Superseded
<1> DEFINE Held == \A v \in Searchers :
                     search[v] # NoSearch /\ search[v].gen = generation
                       /\ generation \notin doubled =>
                     dedup = "processing" /\ dedupClaim = "fresh"
           One == \A v, w \in Searchers :
                    search[v] # NoSearch /\ search[w] # NoSearch
                      /\ search[v].gen = search[w].gen /\ search[v].gen \notin doubled
                    => v = w
<1>4. ASSUME NEW w \in Searchers, Searching(w)
      PROVE  Held' /\ One'
  <2>1. /\ UNCHANGED <<generation, doubled>>
        /\ \A v \in Searchers \ {w} : search'[v] = search[v]
    BY <1>1, <1>4, SearchStep
  <2>2. ASSUME NEW g \in tasks, ClaimSearch(w, g)
        PROVE  Held' /\ One'
    <3>1. generation = g /\ ~(dedup = "processing" /\ dedupClaim = "fresh")
      BY <2>2 DEF ClaimSearch, Claimable
    <3>2. \A v \in Searchers : search[v] # NoSearch =>
                               search[v].gen # generation \/ generation \in doubled
      BY <1>3, <3>1
    <3>3. search'[w].gen = generation /\ dedup' = "processing" /\ dedupClaim' = "fresh"
      BY <1>1, <2>2, <3>1 DEF ClaimSearch, SearchTypeOK
    <3> QED BY <1>2, <2>1, <3>2, <3>3
  <2>3. CASE ClearRow(w) \/ SearchRow(w)
    <3>1. search[w] # NoSearch /\ UNCHANGED <<dedup, dedupClaim>>
      BY <2>3 DEF ClearRow, SearchRow, AtWork, batch
    <3>2. search'[w] # NoSearch => search'[w].gen = search[w].gen
      <4>1. search[w] \in Search
        BY <1>1, <3>1 DEF SearchTypeOK
      <4>2. ASSUME NEW rest, NEW passed, NEW late
            PROVE  /\ [search[w] EXCEPT !.cleared = TRUE].gen = search[w].gen
                   /\ [search[w] EXCEPT !.todo = rest, !.passed = passed, !.cleared = FALSE,
                                        !.late = late].gen = search[w].gen
        BY <4>1 DEF Search
      <4>3. CASE ClearRow(w)
        BY <1>1, <4>2, <4>3 DEF ClearRow, SearchTypeOK
      <4>4. CASE SearchRow(w)
        BY <1>1, <4>2, <4>4 DEF SearchRow, SearchTypeOK
      <4> QED BY <2>3, <4>3, <4>4
    <3> QED BY <1>2, <1>3, <2>1, <3>1, <3>2
  <2>4. CASE StopSearch(w) \/ Crash(w) \/ RowIsGone(w)
    <3>1. search'[w] = NoSearch /\ UNCHANGED <<dedup, dedupClaim>>
      BY <1>1, <2>4 DEF StopSearch, Crash, RowIsGone, Break,
                        EndSearch, SearchTypeOK, batch
    <3> QED BY <1>2, <1>3, <2>1, <3>1
  <2>5. CASE FinishSearch(w)
    <3>1. /\ search[w] # NoSearch /\ search'[w] = NoSearch /\ dedupClaim' = dedupClaim
          /\ search[w].gen # generation => dedup' = dedup
      BY <1>1, <2>5 DEF FinishSearch, EndSearch, Completes,
                        Superseded, AtWork, SearchTypeOK
    <3>2. One'
      BY <1>2, <2>1, <3>1
    <3>3. CASE search[w].gen = generation
      BY <1>2, <2>1, <3>1, <3>2, <3>3
    <3>4. CASE search[w].gen # generation
      BY <1>3, <2>1, <3>1, <3>2, <3>4
    <3> QED BY <3>3, <3>4
  <2> QED BY <1>4, <2>2, <2>3, <2>4, <2>5 DEF Searching
<1>5. ASSUME NEW p \in Patchers, SaveGeneration(p)
      PROVE  Held' /\ One'
  <2>1. ASSUME NEW v \in Searchers, search'[v] # NoSearch
        PROVE  /\ search[v] # NoSearch /\ search'[v].gen = search[v].gen
               /\ search[v].gen = generation' => search[v].gen \in doubled'
    BY <1>1, <1>5, <2>1, SavedGeneration DEF AtWork
  <2>2. doubled \subseteq doubled'
    BY <1>1, <1>5, SavedGeneration
  <2>3. Held'
    BY <2>1
  <2>4. One'
    BY <1>2, <2>1, <2>2
  <2> QED BY <2>3, <2>4
<1>6. ASSUME UNCHANGED <<generation, dedup, search, doubled>>,
             dedupClaim' = dedupClaim \/ SearchClaimAges
      PROVE  Held' /\ One'
  <2>1. CASE dedupClaim' = dedupClaim
    BY <1>2, <1>3, <1>6, <2>1
  <2>2. CASE SearchClaimAges
    <3>1. \A v \in Searchers : search[v] # NoSearch => search[v].gen # generation
      BY <2>2 DEF SearchClaimAges, AtWork, Superseded
    <3> QED BY <1>2, <1>6, <3>1
  <2> QED BY <1>6, <2>1, <2>2
<1>7. Held' => ClaimHeld'
  BY DEF ClaimHeld, AtWork, Superseded
<1>8. One' => OneSearch'
  BY DEF OneSearch, AtWork
<1> QED BY <1>4, <1>5, <1>6, <1>7, <1>8, OtherSteps

\* The invariant of the search for duplicates: batch and searches are of
\* generations the batch has had, an overtaken search has looked within the last
\* CheckEvery rows, a search of the current generation is for the current
\* subject and, unless searches outlive their claims, holds a fresh claim alone;
\* each but for the exceptions the definitions name.
THEOREM SearchInvHolds == SearchSpec => []SearchInv
<1>1. SearchInit => SearchInv
  <2> SUFFICES ASSUME SearchInit PROVE SearchInv
    OBVIOUS
  <2>1. \A w \in Searchers : ~AtWork(w)
    BY DEF SearchInit, AtWork
  <2> QED BY <2>1, SearchInitType
        DEF SearchInit, SearchInv, GenerationsGiven, LooksOften, SearchesCurrent,
            CompletedByCurrent, ClaimHeld, OneSearch
<1>2. SearchInv /\ [SearchNext]_searchVars => SearchInv'
  <2> SUFFICES ASSUME SearchInv, [SearchNext]_searchVars PROVE SearchInv'
    OBVIOUS
  <2>1. SearchTypeOK'
    BY SearchNextType DEF SearchInv
  <2> QED BY <2>1, GenerationsKept, CurrentKept, CompletedKept, LooksKept, HeldKept DEF SearchInv
<1> QED BY <1>1, <1>2, PTL DEF SearchSpec

\* A batch that counts as searched has been searched for its current subject,
\* unless that was saved without a generation since, or two requests saved the
\* generation (run_dedup_task, ImportBatchTaxonomyView).
THEOREM CompletedByCurrentHolds ==
  SearchSpec => []CompletedByCurrent
<1>1. SearchInv => CompletedByCurrent
  BY DEF SearchInv
<1> QED BY <1>1, SearchInvHolds, PTL

\* A search passes at most CheckEvery rows after another generation was saved,
\* unless two requests saved its own (_run_dedup).
THEOREM StaleWindowHolds ==
  SearchSpec => []StaleWindow
<1>1. SearchInv => StaleWindow
  <2> SUFFICES ASSUME SearchInv, NEW w \in Searchers, AtWork(w),
                      search[w].gen \notin doubled
               PROVE  search[w].late <= CheckEvery
    BY DEF StaleWindow
  <2>1. PICK look \in 0..search[w].passed :
          /\ look + search[w].late <= search[w].passed
          /\ search[w].passed <= look + CheckEvery
    BY DEF SearchInv, LooksOften, Looked
  <2>2. search[w].passed \in Nat /\ search[w].late \in Nat
    BY DEF SearchInv, SearchTypeOK, AtWork, Search
  <2>3. look \in Nat /\ CheckEvery \in Nat
    BY <2>2, SearchAssumption
  <2> QED BY <2>1, <2>2, <2>3
<1> QED BY <1>1, SearchInvHolds, PTL

\* However often its task is delivered, one search of a generation that one
\* request saved runs at a time, if none outlives its claim (_claim_dedup).
THEOREM OneSearchHolds ==
  SearchSpec => []OneSearch
<1>1. SearchInv => OneSearch
  BY DEF SearchInv, OneSearch
<1> QED BY <1>1, SearchInvHolds, PTL
=============================================================================
