--------------------------- MODULE StudentProofs ----------------------------
(***************************************************************************)
(* Theorems about what students are given.  StudentAccess, for any tests,  *)
(* questions, policies and threads: the allowance is never overdrawn and   *)
(* what is opened beyond it is bounded by the threads, an item whose       *)
(* requests do not overlap is charged once, a start on the quota that      *)
(* overlaps nothing is counted once, and the button of a card is honoured  *)
(* by the gate.  ExamRelease, for any students, attempts and sessions:     *)
(* solutions and answers exclude each other in every window, and an        *)
(* adoption takes nothing from anybody.                                    *)
(***************************************************************************)
EXTENDS StudentAccess, ExamRelease, FiniteSetTheorems, TLAPS

Act(w) == Start(w) \/ Answer(w) \/ Crash(w)

LEMMA ResourceType ==
  ASSUME NEW i \in Items
  PROVE  Resource(i) \in Resources /\ (i \in Questions => Resource(i) = "qbank")
  BY AccessAssumption DEF Items, Resource, Resources, AccessAssumption

-----------------------------------------------------------------------------
(* Types *)

LEMMA InitType == Init => TypeOK /\ RequestsOK
<1> SUFFICES ASSUME Init PROVE TypeOK /\ RequestsOK
  OBVIOUS
<1>1. /\ quotaUsed \in Nat /\ paidStarts \in Nat /\ raced \in BOOLEAN
      /\ crashes \in Nat /\ changes \in Nat
  BY DEF Init
<1>2. phase \in [Timed -> {"draft", "before", "open", "closed"}] /\ enrolled \subseteq Courses
  BY DEF Init
<1>3. bought \in [Products -> {"never", "active", "over"}]
  BY DEF Init
<1> QED BY <1>1, <1>2, <1>3 DEF Init, TypeOK, RequestsOK

LEMMA FinishType ==
  ASSUME TypeOK, NEW w \in Workers, Finish(w)
  PROVE  /\ pc' \in [Workers -> {"idle", "start", "charge", "quota", "record"}]
         /\ item' \in [Workers -> Items \cup {NoItem}]
         /\ charge' \in [Workers -> {"none", "starter", "quota"}]
         /\ seen' \in [Workers -> Nat]
  BY DEF TypeOK, Finish

LEMMA ProvisionType ==
  ASSUME TypeOK, ProvisionRows \/ UNCHANGED rows
  PROVE  rows' \subseteq Resources /\ lapsed \subseteq rows'
  BY AccessAssumption DEF TypeOK, ProvisionRows, AccessAssumption

LEMMA ActType ==
  ASSUME TypeOK, RequestsOK, NEW w \in Workers, Act(w)
  PROVE  TypeOK'
<1> USE DEF student, starter, quota, records, request
<1>1. ASSUME NEW t \in Tests, RequestStart(w, t) PROVE TypeOK'
  BY <1>1, ProvisionType DEF RequestStart, Begin, TypeOK, Items
<1>2. CASE Resume(w) \/ RefuseStart(w) \/ NoLock(w)
  BY <1>2, FinishType DEF Resume, RefuseStart, NoLock, TypeOK
<1>3. CASE CreateAttempt(w)
  <2>1. /\ pc' \in [Workers -> {"idle", "start", "charge", "quota", "record"}]
        /\ item' \in [Workers -> Items \cup {NoItem}]
        /\ charge' \in [Workers -> {"none", "starter", "quota"}]
        /\ seen' \in [Workers -> Nat]
    <3>1. CASE charge[w] = "none"
      BY <1>3, <3>1, FinishType DEF CreateAttempt
    <3>2. CASE charge[w] # "none"
      BY <1>3, <3>2 DEF CreateAttempt, TypeOK
    <3> QED BY <3>1, <3>2
  <2>0. item[w] \in Tests
    BY <1>3 DEF CreateAttempt, RequestsOK
  <2>2. attempts' \in [Tests -> Nat] /\ live' \in [Tests -> BOOLEAN]
    BY <1>3, <2>0 DEF CreateAttempt, TypeOK
  <2>3. opened' \in [Resources -> Nat]
    <3>1. opened' = opened \/ opened' = [opened EXCEPT ![Resource(item[w])] = @ + 1]
      BY <1>3 DEF CreateAttempt
    <3> QED BY <3>1 DEF TypeOK
  <2>4. paidStarts' \in Nat
    BY <1>3 DEF CreateAttempt, TypeOK
  <2> QED BY <1>3, <2>1, <2>2, <2>3, <2>4 DEF CreateAttempt, TypeOK
<1>4. CASE ChargeStarter(w)
  <2>1. /\ pc' \in [Workers -> {"idle", "start", "charge", "quota", "record"}]
        /\ item' \in [Workers -> Items \cup {NoItem}]
        /\ charge' \in [Workers -> {"none", "starter", "quota"}]
        /\ seen' \in [Workers -> Nat]
    <3>1. CASE item[w] \in Tests
      BY <1>4, <3>1, FinishType DEF ChargeStarter
    <3>2. CASE item[w] \notin Tests
      BY <1>4, <3>2 DEF ChargeStarter, TypeOK
    <3> QED BY <3>1, <3>2
  <2>2. used' \in [Resources -> Nat] /\ charged' \in [Items -> Nat]
    BY <1>4 DEF ChargeStarter, TypeOK
  <2>3. rows' \subseteq Resources /\ lapsed \subseteq rows'
    BY <1>4, ProvisionType DEF ChargeStarter
  <2> QED BY <1>4, <2>1, <2>2, <2>3 DEF ChargeStarter, TypeOK
<1>5. CASE ReadQuota(w)
  <2>1. CASE QuotaLeft
    BY <1>5, <2>1 DEF ReadQuota, TypeOK
  <2>2. CASE ~QuotaLeft
    BY <1>5, <2>2, FinishType DEF ReadQuota, TypeOK
  <2> QED BY <2>1, <2>2
<1>6. CASE WriteQuota(w)
  BY <1>6, FinishType DEF WriteQuota, TypeOK
<1>7. ASSUME NEW q \in Questions, RequestAnswer(w, q) PROVE TypeOK'
  BY <1>7, ProvisionType DEF RequestAnswer, Begin, TypeOK, Items
<1>8. CASE RecordAnswer(w) \/ RefuseOption(w)
  <2>1. item[w] \in Questions
    BY <1>8 DEF RecordAnswer, RefuseOption, RequestsOK
  <2>2. opened' \in [Resources -> Nat]
    BY <1>8 DEF RecordAnswer, RefuseOption, TypeOK
  <2> QED BY <1>8, <2>1, <2>2, FinishType DEF RecordAnswer, RefuseOption, TypeOK, Items
<1>9. CASE Crash(w)
  <2>1. doubled' \subseteq Items
    BY <1>9 DEF Crash, Busy, TypeOK, RequestsOK
  <2> QED BY <1>9, <2>1, FinishType DEF Crash, TypeOK
<1> QED BY <1>1, <1>2, <1>3, <1>4, <1>5, <1>6, <1>7, <1>8, <1>9 DEF Act, Start, Answer

\* A request that ends, and one that begins, leave the others alone.
LEMMA FinishRequests ==
  ASSUME TypeOK, RequestsOK, NEW w \in Workers, Finish(w)
  PROVE  RequestsOK'
  BY DEF TypeOK, RequestsOK, Finish

LEMMA ActRequests ==
  ASSUME TypeOK, RequestsOK, NEW w \in Workers, Act(w)
  PROVE  RequestsOK'
<1> USE DEF student, starter, quota, records, request
<1>1. ASSUME NEW t \in Tests, RequestStart(w, t) PROVE RequestsOK'
  BY <1>1 DEF RequestStart, Begin, TypeOK, RequestsOK, Items
<1>2. CASE Resume(w) \/ RefuseStart(w) \/ NoLock(w) \/ WriteQuota(w) \/ RecordAnswer(w) \/ RefuseOption(w) \/ Crash(w)
  BY <1>2, FinishRequests DEF Resume, RefuseStart, NoLock, WriteQuota, RecordAnswer, RefuseOption, Crash
<1>3. CASE CreateAttempt(w)
  BY <1>3, FinishRequests DEF CreateAttempt, TypeOK, RequestsOK
<1>4. CASE ChargeStarter(w)
  <2>1. item[w] \in Items /\ charge[w] = "starter"
    BY <1>4 DEF ChargeStarter, RequestsOK
  <2>2. CASE item[w] \in Tests
    BY <1>4, <2>2, FinishRequests DEF ChargeStarter
  <2>3. CASE item[w] \in Questions
    <3>1. pc' = [pc EXCEPT ![w] = "record"] /\ UNCHANGED <<item, charge, seen>>
      BY <1>4, <2>3, AccessAssumption DEF ChargeStarter, AccessAssumption
    <3> QED BY <2>1, <2>3, <3>1 DEF TypeOK, RequestsOK
  <2> QED BY <2>1, <2>2, <2>3 DEF Items
<1>5. CASE ReadQuota(w)
  BY <1>5, FinishRequests DEF ReadQuota, TypeOK, RequestsOK
<1>6. ASSUME NEW q \in Questions, RequestAnswer(w, q) PROVE RequestsOK'
  BY <1>6 DEF RequestAnswer, Begin, TypeOK, RequestsOK, Items
<1> QED BY <1>1, <1>2, <1>3, <1>4, <1>5, <1>6 DEF Act, Start, Answer

LEMMA WorldType ==
  ASSUME TypeOK, RequestsOK, World
  PROVE  TypeOK' /\ RequestsOK' /\ UNCHANGED request
<1> USE DEF student, starter, quota, records, request, TypeOK, Change
<1>1. UNCHANGED request
  BY DEF World, Provision, Lapse, SubmitAttempt, TimeIsUp, ClockTick, ChangeEnrolment, ChangePurchase,
     MeetElsewhere
<1>2. RequestsOK'
  BY <1>1 DEF RequestsOK
<1>3. TypeOK'
  <2>1. CASE Provision
    BY <2>1, ProvisionType DEF Provision
  <2>2. ASSUME NEW r \in Resources, Lapse(r) PROVE TypeOK'
    BY <2>2 DEF Lapse
  <2>3. ASSUME NEW t \in Tests, SubmitAttempt(t) PROVE TypeOK'
    BY <2>3 DEF SubmitAttempt
  <2>8. ASSUME NEW t \in Tests, TimeIsUp(t) PROVE TypeOK'
    BY <2>8 DEF TimeIsUp
  <2>4. ASSUME NEW t \in Timed, ClockTick(t) PROVE TypeOK'
    <3>1. phase' \in [Timed -> {"draft", "before", "open", "closed"}]
      BY <2>4 DEF ClockTick
    <3>2. live' \in [Tests -> BOOLEAN]
      BY <2>4 DEF ClockTick
    <3>3. overtime' \subseteq Tests
      BY <2>4, AccessAssumption DEF ClockTick, AccessAssumption
    <3> QED BY <2>4, <3>1, <3>2, <3>3 DEF ClockTick
  <2>5. ASSUME NEW k \in Courses, ChangeEnrolment(k) PROVE TypeOK'
    BY <2>5 DEF ChangeEnrolment
  <2>6. ASSUME NEW x \in Products, ChangePurchase(x) PROVE TypeOK'
    BY <2>6 DEF ChangePurchase
  <2>7. ASSUME NEW q \in Questions, MeetElsewhere(q) PROVE TypeOK'
    BY <2>7 DEF MeetElsewhere
  <2> QED BY <2>1, <2>2, <2>3, <2>4, <2>5, <2>6, <2>7, <2>8 DEF World
<1> QED BY <1>1, <1>2, <1>3

LEMMA NextType == TypeOK /\ RequestsOK /\ [Next]_vars => TypeOK' /\ RequestsOK'
<1>1. ASSUME TypeOK, RequestsOK, UNCHANGED vars PROVE TypeOK' /\ RequestsOK'
  BY <1>1 DEF vars, student, starter, quota, records, request, TypeOK, RequestsOK
<1> QED BY <1>1, ActType, ActRequests, WorldType DEF Next, Act

\* Every variable keeps its type, and every request is for an item it may be for.
THEOREM TypeCorrect == Spec => []TypeOK
  BY InitType, NextType, PTL DEF Spec

-----------------------------------------------------------------------------
(* Steps and what they leave alone *)

\* A step of one thread leaves the requests of the others alone.
LEMMA OthersUndisturbed ==
  ASSUME TypeOK, NEW w \in Workers, Act(w), NEW v \in Workers, v # w
  PROVE  pc'[v] = pc[v] /\ item'[v] = item[v] /\ charge'[v] = charge[v] /\ seen'[v] = seen[v]
<1> USE DEF TypeOK, request
<1>1. CASE CreateAttempt(w)
  BY <1>1 DEF CreateAttempt, Finish
<1>2. CASE ChargeStarter(w)
  <2>1. Finish(w) \/ (pc' = [pc EXCEPT ![w] = "record"] /\ UNCHANGED <<item, charge, seen>>)
    BY <1>2 DEF ChargeStarter
  <2> QED BY <2>1 DEF Finish
<1>3. CASE ~CreateAttempt(w) /\ ~ChargeStarter(w)
  BY <1>3 DEF Act, Start, Answer, Crash, RequestStart, Resume, RefuseStart, NoLock, ReadQuota, WriteQuota,
     RequestAnswer, RecordAnswer, RefuseOption, Begin, Finish
<1> QED BY <1>1, <1>2, <1>3

\* A request that ended wants nothing.
LEMMA FinishedWantsNothing ==
  ASSUME TypeOK, NEW w \in Workers, Finish(w)
  PROVE  pc'[w] = "idle" /\ item'[w] = NoItem /\ charge'[w] = "none"
  BY DEF TypeOK, Finish

-----------------------------------------------------------------------------
(* The allowance *)

LEMMA AllowanceNext ==
  ASSUME TypeOK, RequestsOK, StarterWithinAllowance, [Next]_vars
  PROVE  StarterWithinAllowance'
<1> USE DEF student, starter, quota, records, request
<1>1. ASSUME NEW w \in Workers, ChargeStarter(w) PROVE StarterWithinAllowance'
  <2> DEFINE r == Resource(item[w])
  <2>1. CASE Available(r)
    <3>1. used' = [used EXCEPT ![r] = @ + 1] /\ used[r] < Quantity[r] /\ r \in Policies
      BY <1>1, <2>1 DEF ChargeStarter, Available
    <3>2. \A x \in Policies : used[x] \in Nat /\ Quantity[x] \in Nat
      BY AccessAssumption DEF TypeOK, AccessAssumption
    <3> HIDE DEF r
    <3> QED BY <3>1, <3>2 DEF StarterWithinAllowance, TypeOK
  <2>2. CASE ~Available(r)
    BY <1>1, <2>2 DEF ChargeStarter, StarterWithinAllowance
  <2> QED BY <2>1, <2>2
<1>2. ASSUME NEW w \in Workers, Act(w), ~ChargeStarter(w) PROVE used' = used
  BY <1>2 DEF Act, Start, Answer, Crash, RequestStart, Resume, CreateAttempt, RefuseStart, NoLock,
     ReadQuota, WriteQuota, RequestAnswer, RecordAnswer, RefuseOption
<1>3. ASSUME World PROVE used' = used
  BY <1>3 DEF World, Provision, Lapse, SubmitAttempt, TimeIsUp, ClockTick, ChangeEnrolment, ChangePurchase,
     MeetElsewhere
<1>4. CASE used' = used
  BY <1>4 DEF StarterWithinAllowance
<1> QED BY <1>1, <1>2, <1>3, <1>4 DEF Next, Act, vars

-----------------------------------------------------------------------------
(* Attempts and windows *)

LEMMA WindowNext ==
  ASSUME TypeOK, RequestsOK, AttemptsInWindow, [Next]_vars
  PROVE  AttemptsInWindow'
<1> USE DEF student, starter, quota, records, request
<1>1. ASSUME NEW w \in Workers, NEW t \in Tests, RequestStart(w, t) PROVE AttemptsInWindow'
  BY <1>1 DEF RequestStart, GateOpen, InWindow, Begin, AttemptsInWindow, TypeOK
<1>2. ASSUME NEW w \in Workers, CreateAttempt(w) PROVE AttemptsInWindow'
  <2>1. \A v \in Workers : pc'[v] = "start" => pc[v] = "start" /\ item'[v] = item[v]
    BY <1>2, OthersUndisturbed, FinishedWantsNothing DEF Act, Start, CreateAttempt, TypeOK
  <2>2. item[w] \in Tests /\ (item[w] \in Timed => phase[item[w]] \notin {"draft", "before"})
    BY <1>2 DEF CreateAttempt, RequestsOK, AttemptsInWindow
  <2>3. /\ phase' = phase
        /\ attempts' = [attempts EXCEPT ![item[w]] = @ + 1]
        /\ live' = [live EXCEPT ![item[w]] = TRUE]
        /\ overtime' = IF Closed(item[w]) THEN overtime \cup {item[w]} ELSE overtime \ {item[w]}
    BY <1>2 DEF CreateAttempt
  <2>4. \A t \in Timed : live'[t] /\ phase'[t] = "closed" => t \in overtime'
    BY <2>2, <2>3, AccessAssumption DEF AttemptsInWindow, TypeOK, Closed, AccessAssumption
  <2>5. Timed \subseteq Tests
    BY AccessAssumption DEF AccessAssumption
  <2> QED BY <2>1, <2>2, <2>3, <2>4, <2>5 DEF AttemptsInWindow, TypeOK
<1>3. ASSUME NEW w \in Workers, Act(w), ~CreateAttempt(w), \A t \in Tests : ~RequestStart(w, t)
      PROVE  AttemptsInWindow'
  <2>1. \A v \in Workers : pc'[v] = "start" => pc[v] = "start" /\ item'[v] = item[v]
    <3>1. pc'[w] # "start"
      <4>1. CASE ChargeStarter(w)
        <5>1. Finish(w) \/ pc' = [pc EXCEPT ![w] = "record"]
          BY <4>1 DEF ChargeStarter
        <5> QED BY <5>1 DEF Finish, TypeOK
      <4>2. CASE ~ChargeStarter(w)
        BY <1>3, <4>2 DEF Act, Start, Answer, Crash, Resume, RefuseStart, NoLock, ReadQuota, WriteQuota,
           RequestAnswer, RecordAnswer, RefuseOption, Begin, Finish, TypeOK
      <4> QED BY <4>1, <4>2
    <3> QED BY <1>3, <3>1, OthersUndisturbed
  <2>2. /\ UNCHANGED <<phase, attempts>>
        /\ \A t \in Tests : live'[t] => live[t] /\ (t \in overtime => t \in overtime')
    <3>1. CASE RefuseStart(w)
      BY <3>1 DEF RefuseStart, TypeOK
    <3>2. CASE ~RefuseStart(w)
      BY <1>3, <3>2 DEF Act, Start, Answer, Crash, Resume, NoLock, ChargeStarter, ReadQuota, WriteQuota,
         RequestAnswer, RecordAnswer, RefuseOption
    <3> QED BY <3>1, <3>2
  <2>3. Timed \subseteq Tests
    BY AccessAssumption DEF AccessAssumption
  <2> QED BY <2>1, <2>2, <2>3 DEF AttemptsInWindow
<1>4. CASE World
  <2>0. Timed \subseteq Tests
    BY AccessAssumption DEF AccessAssumption
  <2>1. CASE \E t \in Tests : SubmitAttempt(t) \/ TimeIsUp(t)
    BY <2>0, <2>1 DEF SubmitAttempt, TimeIsUp, AttemptsInWindow, TypeOK
  <2>2. ASSUME NEW t \in Timed, ClockTick(t) PROVE AttemptsInWindow'
    <3>1. /\ \A u \in Timed : phase'[u] \in {"draft", "before"} => phase[u] \in {"draft", "before"}
          /\ UNCHANGED <<attempts, live, pc, item>>
          /\ overtime \subseteq overtime'
      BY <2>2 DEF ClockTick, TypeOK
    <3>2. \A u \in Timed : live'[u] /\ phase'[u] = "closed" => u \in overtime'
      <4>1. \A u \in Timed \ {t} : phase'[u] = phase[u]
        BY <2>2 DEF ClockTick, TypeOK
      <4>2. phase'[t] = "closed" /\ live[t] => t \in overtime'
        BY <2>2 DEF ClockTick, TypeOK
      <4> QED BY <3>1, <4>1, <4>2 DEF AttemptsInWindow
    <3> QED BY <3>1, <3>2 DEF AttemptsInWindow
  <2>3. CASE ~(\E t \in Tests : SubmitAttempt(t) \/ TimeIsUp(t)) /\ ~(\E t \in Timed : ClockTick(t))
    <3>1. UNCHANGED <<phase, attempts, live, overtime, pc, item>>
      BY <1>4, <2>3 DEF World, Provision, Lapse, ChangeEnrolment, ChangePurchase, MeetElsewhere
    <3> QED BY <3>1 DEF AttemptsInWindow
  <2> QED BY <2>1, <2>2, <2>3
<1>5. CASE UNCHANGED vars
  BY <1>5 DEF AttemptsInWindow, vars
<1> QED BY <1>1, <1>2, <1>3, <1>4, <1>5 DEF Next, Act

-----------------------------------------------------------------------------
(* One charge for an item whose requests do not overlap *)

\* Nothing that the order of charges looks at changes for the worse.
LEMMA OrderKept ==
  ASSUME TypeOK, NEW i \in Items, ChargeInOrder(i), charged'[i] = charged[i],
         \A v \in Workers : Wants(v, i)' => Wants(v, i) /\ pc'[v] = pc[v],
         \A v \in Workers : Wants(v, i) /\ pc[v] = "record" => Wants(v, i)' \/ i \in met',
         i \in met => i \in met',
         i \in Tests => attempts'[i] >= attempts[i],
         i \in Tests => attempts'[i] \in Nat
  PROVE  ChargeInOrder(i)'
<1>1. charged[i] = 1 =>
         \/ i \in Tests /\ attempts'[i] > 0
         \/ i \in met'
         \/ \E w \in Workers : Wants(w, i)' /\ pc'[w] = "record"
  <2>1. ASSUME NEW w \in Workers, Wants(w, i), pc[w] = "record"
        PROVE  i \in met' \/ \E v \in Workers : Wants(v, i)' /\ pc'[v] = "record"
    BY <2>1
  <2>2. ASSUME i \in Tests, attempts[i] > 0 PROVE attempts'[i] > 0
    BY <2>2 DEF TypeOK
  <2> QED BY <2>1, <2>2 DEF ChargeInOrder
<1>2. \A v, w \in Workers : Wants(v, i)' /\ Wants(w, i)' => v = w
  BY DEF ChargeInOrder
<1>3. ASSUME NEW w \in Workers, Wants(w, i)'
      PROVE  /\ pc'[w] \in {"start", "charge"} => charged'[i] = 0
             /\ pc'[w] = "charge" /\ i \in Tests => attempts'[i] > 0
             /\ pc'[w] = "record" => i \in Questions
  BY <1>3 DEF ChargeInOrder, TypeOK
<1> QED BY <1>1, <1>2, <1>3 DEF ChargeInOrder

\* A request for a unit finds no other request for the item, or marks it.
LEMMA BeginOrder ==
  ASSUME TypeOK, RequestsOK, NEW w \in Workers, NEW i \in Items, NEW step, NEW c,
         ~Busy(w), Begin(w, i, step, c), i \notin doubled', ChargeInOrder(i),
         UNCHANGED <<charged, met, attempts>>,
         step = "start" \/ (step = "charge" /\ i \in Questions) \/ (step = "record" /\ c # "starter"),
         c = "starter" => (i \in Tests => attempts[i] = 0) /\ i \notin met
  PROVE  ChargeInOrder(i)'
<1>1. charge[w] = "none" /\ ~Wants(w, i)
  BY DEF Busy, RequestsOK, Wants
<1>2. \A v \in Workers \ {w} : (Wants(v, i)' <=> Wants(v, i)) /\ pc'[v] = pc[v]
  BY DEF Begin, Wants, TypeOK
<1>3. CASE c # "starter"
  <2>1. ~Wants(w, i)'
    BY <1>3 DEF Begin, Wants, TypeOK
  <2> QED BY <1>1, <1>2, <2>1, OrderKept DEF TypeOK
<1>4. CASE c = "starter"
  <2>1. \A v \in Workers : ~Wants(v, i)
    BY <1>4 DEF Begin, Wants
  <2>2. charged[i] = 0
    BY <1>4, <2>1 DEF ChargeInOrder, TypeOK
  <2>3. pc'[w] = step /\ Wants(w, i)'
    BY <1>4 DEF Begin, Wants, TypeOK
  <2>4. \A v \in Workers : Wants(v, i)' => v = w
    BY <1>2, <2>1
  <2>5. step = "charge" => i \notin Tests
    BY <1>4, AccessAssumption DEF AccessAssumption
  <2> QED BY <1>4, <2>2, <2>3, <2>4, <2>5 DEF ChargeInOrder
<1> QED BY <1>3, <1>4

LEMMA ChargeOrder ==
  ASSUME TypeOK, RequestsOK, NEW w \in Workers, NEW i \in Items, ChargeStarter(w), ChargeInOrder(i)
  PROVE  ChargeInOrder(i)'
<1> DEFINE r == Resource(item[w])
<1>1. /\ pc[w] = "charge" /\ charge[w] = "starter" /\ UNCHANGED <<met, attempts>>
      /\ charged' = charged \/ charged' = [charged EXCEPT ![item[w]] = @ + 1]
  BY DEF ChargeStarter, records
<1>2. \A v \in Workers \ {w} : (Wants(v, i)' <=> Wants(v, i)) /\ pc'[v] = pc[v]
  BY OthersUndisturbed DEF Act, Start, Wants
<1>3. CASE item[w] # i
  <2>1. charged'[i] = charged[i]
    BY <1>1, <1>3 DEF TypeOK
  <2>2. item'[w] \in {item[w], NoItem}
    BY FinishedWantsNothing DEF ChargeStarter
  <2>3. ~Wants(w, i) /\ ~Wants(w, i)'
    BY <1>3, <2>2, AccessAssumption DEF Wants, AccessAssumption
  <2> QED BY <1>1, <1>2, <2>1, <2>3, OrderKept DEF TypeOK
<1>4. CASE item[w] = i
  <2>1. /\ Wants(w, i) /\ charged[i] = 0 /\ (i \in Tests => attempts[i] > 0)
        /\ \A v \in Workers : Wants(v, i) => v = w
    BY <1>1, <1>4 DEF Wants, ChargeInOrder
  <2>2. charged'[i] \in {0, 1}
    BY <1>1, <1>4, <2>1 DEF TypeOK
  <2>3. CASE i \in Tests
    <3>1. Finish(w)
      BY <1>4, <2>3 DEF ChargeStarter
    <3>2. \A v \in Workers : ~Wants(v, i)'
      BY <1>2, <2>1, <3>1, FinishedWantsNothing DEF Wants
    <3> QED BY <1>1, <2>1, <2>2, <2>3, <3>2 DEF ChargeInOrder
  <2>4. CASE i \notin Tests
    <3>1. pc' = [pc EXCEPT ![w] = "record"] /\ UNCHANGED <<item, charge>>
      BY <1>4, <2>4 DEF ChargeStarter
    <3>2. pc'[w] = "record" /\ Wants(w, i)' /\ i \in Questions
      BY <2>1, <2>4, <3>1 DEF Wants, TypeOK, Items
    <3>3. \A v \in Workers : Wants(v, i)' => v = w
      BY <2>1, <3>1 DEF Wants
    <3> QED BY <2>2, <2>4, <3>2, <3>3 DEF ChargeInOrder
  <2> QED BY <2>3, <2>4
<1> QED BY <1>3, <1>4

LEMMA ActOrder ==
  ASSUME TypeOK, RequestsOK, NEW w \in Workers, Act(w), NEW i \in Items,
         i \notin doubled => ChargeInOrder(i), i \notin doubled'
  PROVE  ChargeInOrder(i)'
<1> USE DEF student, starter, quota, records, request
<1>1. \A v \in Workers \ {w} : (Wants(v, i)' <=> Wants(v, i)) /\ pc'[v] = pc[v]
  BY OthersUndisturbed DEF Wants
<1>2. ASSUME NEW t \in Tests, RequestStart(w, t) PROVE ChargeInOrder(i)'
  <2> DEFINE c == IF NeedsStarter(t) THEN "starter"
                  ELSE IF t \in Pro /\ Type[t] = "mock" THEN "quota" ELSE "none"
  <2>1. ~Busy(w) /\ Begin(w, t, "start", c) /\ UNCHANGED <<charged, met, attempts>>
    BY <1>2 DEF RequestStart
  <2>2. t \in Items /\ t \notin Questions /\ (c = "starter" => attempts[t] = 0)
    BY AccessAssumption DEF Items, AccessAssumption, NeedsStarter, AllAttempts, TypeOK
  <2>3. i \notin doubled
    BY <2>1 DEF Begin
  <2>4. CASE i = t
    BY <2>1, <2>2, <2>3, <2>4, BeginOrder DEF TypeOK
  <2>5. CASE i # t
    <3>1. ~Wants(w, i) /\ ~Wants(w, i)'
      BY <2>1, <2>5 DEF Begin, Wants, Busy, RequestsOK, TypeOK
    <3> QED BY <1>1, <2>1, <2>3, <3>1, OrderKept DEF TypeOK
  <2> QED BY <2>4, <2>5
<1>3. ASSUME NEW q \in Questions, RequestAnswer(w, q) PROVE ChargeInOrder(i)'
  <2>1. PICK step, c :
          /\ ~Busy(w) /\ Begin(w, q, step, c) /\ UNCHANGED <<charged, met, attempts>>
          /\ \/ step = "charge" /\ c = "starter" /\ q \notin met
             \/ step = "record" /\ c = "none"
    BY <1>3 DEF RequestAnswer
  <2>2. q \in Items /\ q \notin Tests
    BY AccessAssumption DEF Items, AccessAssumption
  <2>3. i \notin doubled
    BY <2>1 DEF Begin
  <2>4. CASE i = q
    BY <2>1, <2>2, <2>3, <2>4, BeginOrder
  <2>5. CASE i # q
    <3>1. ~Wants(w, i) /\ ~Wants(w, i)'
      BY <2>1, <2>5 DEF Begin, Wants, Busy, RequestsOK, TypeOK
    <3> QED BY <1>1, <2>1, <2>3, <3>1, OrderKept DEF TypeOK
  <2> QED BY <2>4, <2>5
<1>4. CASE ChargeStarter(w)
  BY <1>4, ChargeOrder DEF ChargeStarter
<1>5. CASE CreateAttempt(w)
  <2>1. /\ pc[w] = "start" /\ item[w] \in Tests /\ i \notin doubled /\ UNCHANGED <<charged, met>>
        /\ attempts' = [attempts EXCEPT ![item[w]] = @ + 1]
        /\ Finish(w) \/ (pc' = [pc EXCEPT ![w] = "charge"] /\ UNCHANGED <<item, charge, seen>>)
    BY <1>5 DEF CreateAttempt, RequestsOK
  <2>2. i \in Tests => attempts'[i] >= attempts[i] /\ attempts'[i] \in Nat
    BY <2>1 DEF TypeOK
  <2>3. CASE ~Wants(w, i)'
    <3>1. ~(Wants(w, i) /\ pc[w] = "record")
      BY <2>1
    <3> QED BY <1>1, <2>1, <2>2, <2>3, <3>1, OrderKept
  <2>4. CASE Wants(w, i)'
    <3>1. /\ pc' = [pc EXCEPT ![w] = "charge"] /\ UNCHANGED <<item, charge>> /\ item[w] = i
          /\ Wants(w, i)
      BY <2>1, <2>4, FinishedWantsNothing DEF Wants
    <3>2. attempts'[i] > 0 /\ pc'[w] = "charge" /\ charged[i] = 0
      BY <2>1, <3>1 DEF TypeOK, ChargeInOrder
    <3>3. \A v \in Workers : Wants(v, i)' => v = w
      BY <2>1, <3>1 DEF Wants, ChargeInOrder
    <3> QED BY <2>1, <3>2, <3>3 DEF ChargeInOrder
  <2> QED BY <2>3, <2>4
<1>6. CASE RecordAnswer(w)
  <2>1. /\ Finish(w) /\ i \notin doubled /\ UNCHANGED <<charged, attempts>>
        /\ met' = met \cup {item[w]}
    BY <1>6 DEF RecordAnswer
  <2>2. ~Wants(w, i)' /\ (Wants(w, i) => i \in met')
    BY <2>1, FinishedWantsNothing DEF Wants
  <2> QED BY <1>1, <2>1, <2>2, OrderKept DEF TypeOK
<1>7. CASE Resume(w) \/ RefuseStart(w) \/ NoLock(w) \/ WriteQuota(w) \/ RefuseOption(w) \/ Crash(w)
  <2>1. /\ Finish(w) /\ i \notin doubled /\ UNCHANGED <<charged, attempts, met>>
        /\ ~(Wants(w, i) /\ pc[w] = "record")
    BY <1>7 DEF Resume, RefuseStart, NoLock, WriteQuota, RefuseOption, Crash, Wants
  <2>2. ~Wants(w, i)'
    BY <2>1, FinishedWantsNothing DEF Wants
  <2> QED BY <1>1, <2>1, <2>2, OrderKept DEF TypeOK
<1>8. CASE ReadQuota(w)
  <2>1. /\ i \notin doubled /\ UNCHANGED <<charged, attempts, met>> /\ charge[w] = "quota"
        /\ charge'[w] \in {charge[w], "none"}
    BY <1>8, FinishedWantsNothing DEF ReadQuota
  <2>2. ~Wants(w, i) /\ ~Wants(w, i)'
    BY <2>1 DEF Wants
  <2> QED BY <1>1, <2>1, <2>2, OrderKept DEF TypeOK
<1> QED BY <1>2, <1>3, <1>4, <1>5, <1>6, <1>7, <1>8 DEF Act, Start, Answer

LEMMA OrderNext ==
  ASSUME TypeOK, RequestsOK, [Next]_vars, \A i \in Items : i \notin doubled => ChargeInOrder(i)
  PROVE  \A i \in Items : i \notin doubled' => ChargeInOrder(i)'
<1>1. ASSUME NEW w \in Workers, Act(w)
      PROVE  \A i \in Items : i \notin doubled' => ChargeInOrder(i)'
  BY <1>1, ActOrder
<1>2. ASSUME World \/ UNCHANGED vars, NEW i \in Items, i \notin doubled' PROVE ChargeInOrder(i)'
  <2>1. UNCHANGED <<doubled, charged, attempts>> /\ met \subseteq met'
    BY <1>2 DEF World, Provision, Lapse, SubmitAttempt, TimeIsUp, ClockTick, ChangeEnrolment, ChangePurchase,
       MeetElsewhere, vars, starter, records
  <2>2. UNCHANGED <<pc, item, charge>>
    BY <1>2, WorldType DEF request, vars
  <2>3. \A v \in Workers : (Wants(v, i)' <=> Wants(v, i)) /\ pc'[v] = pc[v]
    BY <2>2 DEF Wants
  <2> QED BY <1>2, <2>1, <2>3, OrderKept DEF TypeOK
<1> QED BY <1>1, <1>2 DEF Next, Act

-----------------------------------------------------------------------------
(* One count for a start on the quota that overlaps nothing *)

LEMMA MockPaid ==
  ASSUME NEW t \in Tests, Type[t] = "mock"
  PROVE  Paid(t) <=> QuotaLeft
  BY AccessAssumption DEF Paid, Resource, AccessAssumption

\* What the quota's order looks at stays as it is.
LEMMA QuotaKept ==
  ASSUME TypeOK, QuotaInOrder, UNCHANGED <<quotaUsed, paidStarts>>,
         \A v \in Workers : charge'[v] = "quota" =>
            charge[v] = "quota" /\ pc'[v] = pc[v] /\ item'[v] = item[v] /\ seen'[v] = seen[v],
         (\E v \in Workers : charge'[v] = "quota") => QuotaLeft' = QuotaLeft,
         (\A v \in Workers : charge'[v] # "quota") => quotaUsed = paidStarts
  PROVE  QuotaInOrder'
<1>1. \A v, w \in Workers : charge'[v] = "quota" /\ charge'[w] = "quota" => v = w
  BY DEF QuotaInOrder
<1>2. ASSUME NEW w \in Workers, charge'[w] = "quota"
      PROVE  /\ item'[w] \in Tests /\ Type[item'[w]] = "mock"
             /\ pc'[w] \in {"start", "charge", "quota"}
             /\ pc'[w] = "start" => quotaUsed' = paidStarts'
             /\ pc'[w] = "charge" => paidStarts' = IF QuotaLeft' THEN quotaUsed' + 1 ELSE quotaUsed'
             /\ pc'[w] = "quota" => seen'[w] = quotaUsed' /\ paidStarts' = quotaUsed' + 1
  BY <1>2 DEF QuotaInOrder
<1> QED BY <1>1, <1>2 DEF QuotaInOrder

LEMMA ActQuota ==
  ASSUME TypeOK, RequestsOK, NEW w \in Workers, Act(w), ~raced => QuotaInOrder, ~raced'
  PROVE  QuotaInOrder'
<1> USE DEF student, starter, quota, records, request
<1>1. \A v \in Workers \ {w} :
        pc'[v] = pc[v] /\ item'[v] = item[v] /\ charge'[v] = charge[v] /\ seen'[v] = seen[v]
  BY OthersUndisturbed
\* A request that begins: alone on the quota, or not on it.
<1>2. ASSUME NEW i \in Items, NEW step, NEW c, ~Busy(w), Begin(w, i, step, c),
             UNCHANGED <<quotaUsed, paidStarts, bought>>,
             c = "quota" => i \in Tests /\ Type[i] = "mock" /\ step = "start"
      PROVE  QuotaInOrder'
  <2>1. ~raced /\ charge[w] = "none"
    BY <1>2 DEF Begin, Busy, RequestsOK
  <2>2. pc'[w] = step /\ charge'[w] = c /\ item'[w] = i
    BY <1>2 DEF Begin, TypeOK
  <2>3. QuotaLeft' = QuotaLeft
    BY <1>2 DEF QuotaLeft, Active
  <2>4. CASE c # "quota"
    BY <1>1, <1>2, <2>1, <2>2, <2>3, <2>4, QuotaKept DEF QuotaInOrder
  <2>5. CASE c = "quota"
    <3>1. \A v \in Workers : charge[v] # "quota"
      BY <1>2, <2>5 DEF Begin
    <3>2. quotaUsed = paidStarts
      BY <2>1, <3>1 DEF QuotaInOrder
    <3> QED BY <1>1, <1>2, <2>2, <2>5, <3>1, <3>2 DEF QuotaInOrder
  <2> QED BY <2>4, <2>5
<1>3. ASSUME NEW t \in Tests, RequestStart(w, t) PROVE QuotaInOrder'
  <2> DEFINE c == IF NeedsStarter(t) THEN "starter"
                  ELSE IF t \in Pro /\ Type[t] = "mock" THEN "quota" ELSE "none"
  <2>1. ~Busy(w) /\ Begin(w, t, "start", c) /\ UNCHANGED <<quotaUsed, paidStarts, bought>>
    BY <1>3 DEF RequestStart
  <2>2. c = "quota" => Type[t] = "mock"
    OBVIOUS
  <2> HIDE DEF c
  <2> QED BY <1>2, <2>1, <2>2 DEF Items
<1>4. ASSUME NEW q \in Questions, RequestAnswer(w, q) PROVE QuotaInOrder'
  <2>1. PICK step, c :
          /\ ~Busy(w) /\ Begin(w, q, step, c) /\ UNCHANGED <<quotaUsed, paidStarts, bought>>
          /\ c # "quota"
    BY <1>4 DEF RequestAnswer
  <2> QED BY <1>2, <2>1 DEF Items
<1>5. CASE CreateAttempt(w)
  <2>1. /\ pc[w] = "start" /\ ~raced /\ UNCHANGED <<quotaUsed, bought>>
        /\ item[w] \in Tests
        /\ paidStarts' = IF charge[w] = "quota" /\ Paid(item[w]) THEN paidStarts + 1 ELSE paidStarts
    BY <1>5 DEF CreateAttempt, RequestsOK
  <2>2. QuotaLeft' = QuotaLeft
    BY <2>1 DEF QuotaLeft, Active
  <2>3. CASE charge[w] # "quota"
    <3>1. charge'[w] # "quota"
      BY <1>5, <2>3, FinishedWantsNothing DEF CreateAttempt
    <3> QED BY <1>1, <2>1, <2>2, <2>3, <3>1, QuotaKept DEF QuotaInOrder
  <2>4. CASE charge[w] = "quota"
    <3>1. pc' = [pc EXCEPT ![w] = "charge"] /\ UNCHANGED <<item, charge, seen>>
      BY <1>5, <2>4 DEF CreateAttempt
    <3>2. Type[item[w]] = "mock" /\ quotaUsed = paidStarts /\ \A v \in Workers : charge[v] = "quota" => v = w
      BY <2>1, <2>4 DEF QuotaInOrder
    <3>3. paidStarts' = IF QuotaLeft' THEN quotaUsed' + 1 ELSE quotaUsed'
      BY <2>1, <2>2, <2>4, <3>2, MockPaid
    <3>4. pc'[w] = "charge"
      BY <3>1 DEF TypeOK
    <3> QED BY <2>1, <2>4, <3>1, <3>2, <3>3, <3>4 DEF QuotaInOrder
  <2> QED BY <2>3, <2>4
<1>6. CASE ReadQuota(w)
  <2>1. /\ pc[w] = "charge" /\ charge[w] = "quota" /\ ~raced
        /\ UNCHANGED <<quotaUsed, paidStarts, bought>>
    BY <1>6 DEF ReadQuota
  <2>2. /\ paidStarts = IF QuotaLeft THEN quotaUsed + 1 ELSE quotaUsed
        /\ item[w] \in Tests /\ Type[item[w]] = "mock"
        /\ \A v \in Workers : charge[v] = "quota" => v = w
    BY <2>1 DEF QuotaInOrder
  <2>3. CASE QuotaLeft
    <3>1. /\ pc' = [pc EXCEPT ![w] = "quota"] /\ seen' = [seen EXCEPT ![w] = quotaUsed]
          /\ UNCHANGED <<item, charge>>
      BY <1>6, <2>3 DEF ReadQuota
    <3>2. pc'[w] = "quota" /\ seen'[w] = quotaUsed
      BY <3>1 DEF TypeOK
    <3> QED BY <2>1, <2>2, <2>3, <3>1, <3>2 DEF QuotaInOrder
  <2>4. CASE ~QuotaLeft
    <3>1. charge'[w] = "none"
      BY <1>6, <2>4, FinishedWantsNothing DEF ReadQuota
    <3>2. \A v \in Workers : charge'[v] # "quota"
      BY <1>1, <2>2, <3>1
    <3> QED BY <2>1, <2>2, <2>4, <3>2 DEF QuotaInOrder
  <2> QED BY <2>3, <2>4
<1>7. CASE WriteQuota(w)
  <2>1. /\ pc[w] = "quota" /\ charge[w] = "quota" /\ ~raced /\ paidStarts' = paidStarts
        /\ quotaUsed' = seen[w] + 1 /\ charge'[w] = "none"
    BY <1>7, FinishedWantsNothing DEF WriteQuota, RequestsOK
  <2>2. /\ seen[w] = quotaUsed /\ paidStarts = quotaUsed + 1
        /\ \A v \in Workers : charge[v] = "quota" => v = w
    BY <2>1 DEF QuotaInOrder
  <2>3. \A v \in Workers : charge'[v] # "quota"
    BY <1>1, <2>1, <2>2
  <2> QED BY <2>1, <2>2, <2>3 DEF QuotaInOrder
\* A request that ends without counting.
<1>8. CASE Resume(w) \/ RefuseStart(w) \/ NoLock(w) \/ RecordAnswer(w) \/ RefuseOption(w) \/ Crash(w)
  <2>1. /\ Finish(w) /\ ~raced /\ UNCHANGED <<quotaUsed, paidStarts, bought>>
        /\ charge[w] = "quota" => pc[w] = "start"
    <3>1. CASE Crash(w)
      BY <3>1 DEF Crash, TypeOK
    <3>2. CASE Resume(w) \/ RefuseStart(w) \/ NoLock(w) \/ RecordAnswer(w) \/ RefuseOption(w)
      BY <3>2 DEF Resume, RefuseStart, NoLock, RecordAnswer, RefuseOption, RequestsOK
    <3> QED BY <1>8, <3>1, <3>2
  <2>2. charge'[w] # "quota" /\ QuotaLeft' = QuotaLeft
    BY <2>1, FinishedWantsNothing DEF QuotaLeft, Active
  <2>3. (\A v \in Workers : charge'[v] # "quota") => quotaUsed = paidStarts
    <3>1. CASE charge[w] = "quota"
      BY <2>1, <3>1 DEF QuotaInOrder
    <3>2. CASE charge[w] # "quota"
      BY <1>1, <2>1, <3>2 DEF QuotaInOrder
    <3> QED BY <3>1, <3>2
  <2> QED BY <1>1, <2>1, <2>2, <2>3, QuotaKept
<1>9. CASE ChargeStarter(w)
  <2>1. charge[w] = "starter" /\ ~raced /\ UNCHANGED <<quotaUsed, paidStarts, bought>>
    BY <1>9 DEF ChargeStarter
  <2>2. charge'[w] # "quota"
    BY <1>9, <2>1, FinishedWantsNothing DEF ChargeStarter
  <2>3. QuotaLeft' = QuotaLeft
    BY <2>1 DEF QuotaLeft, Active
  <2> QED BY <1>1, <2>1, <2>2, <2>3, QuotaKept DEF QuotaInOrder
<1> QED BY <1>3, <1>4, <1>5, <1>6, <1>7, <1>8, <1>9 DEF Act, Start, Answer

LEMMA QuotaNext ==
  ASSUME TypeOK, RequestsOK, [Next]_vars, ~raced => QuotaInOrder
  PROVE  ~raced' => QuotaInOrder'
<1>1. ASSUME NEW w \in Workers, Act(w) PROVE ~raced' => QuotaInOrder'
  BY <1>1, ActQuota
<1>2. ASSUME World \/ UNCHANGED vars, ~raced' PROVE QuotaInOrder'
  <2>1. /\ UNCHANGED <<quotaUsed, paidStarts>> /\ ~raced
        /\ UNCHANGED bought \/ \A w \in Workers : charge[w] # "quota"
    <3>1. ASSUME NEW x \in Products, ChangePurchase(x)
          PROVE  /\ UNCHANGED <<quotaUsed, paidStarts>> /\ ~raced
                 /\ \A w \in Workers : charge[w] # "quota"
      BY <1>2, <3>1 DEF ChangePurchase, TypeOK
    <3>2. CASE ~\E x \in Products : ChangePurchase(x)
      BY <1>2, <3>2 DEF World, Provision, Lapse, SubmitAttempt, TimeIsUp, ClockTick, ChangeEnrolment,
         MeetElsewhere, vars, quota, student
    <3> QED BY <3>1, <3>2
  <2>2. UNCHANGED <<pc, item, charge, seen>>
    BY <1>2, WorldType DEF request, vars
  <2>3. UNCHANGED bought => QuotaLeft' = QuotaLeft
    BY <2>1 DEF QuotaLeft, Active
  <2> QED BY <2>1, <2>2, <2>3, QuotaKept DEF QuotaInOrder
<1> QED BY <1>1, <1>2 DEF Next, Act

-----------------------------------------------------------------------------
(* Theorems *)

LEMMA InitInv == Init => IInv
<1> SUFFICES ASSUME Init PROVE IInv
  OBVIOUS
<1>1. StarterWithinAllowance
  BY AccessAssumption DEF Init, StarterWithinAllowance, AccessAssumption
<1>2. AttemptsInWindow
  BY AccessAssumption DEF Init, AttemptsInWindow, AccessAssumption
<1>3. \A i \in Items : ChargeInOrder(i)
  BY DEF Init, ChargeInOrder, Wants
<1>4. QuotaInOrder
  BY DEF Init, QuotaInOrder
<1> QED BY <1>1, <1>2, <1>3, <1>4, InitType DEF IInv

LEMMA InvNext == IInv /\ [Next]_vars => IInv'
  BY NextType, AllowanceNext, WindowNext, OrderNext, QuotaNext DEF IInv

\* The inductive invariant: what each request in progress has seen and taken,
\* and what a later request will find of it.
THEOREM InvariantHolds == Spec => []IInv
  BY InitInv, InvNext, PTL DEF Spec

\* However many tabs and devices are used, no allowance is ever overdrawn.
THEOREM StarterHolds == Spec => []StarterWithinAllowance
<1>1. IInv => StarterWithinAllowance
  BY DEF IInv
<1> QED BY <1>1, InvariantHolds, PTL

\* Returning to a test or a question costs nothing: only requests that overlap,
\* break off or are refused late can be charged twice for one item.
THEOREM RepeatsAreFreeHolds == Spec => []RepeatsAreFree
<1>1. IInv => RepeatsAreFree
  BY DEF IInv, RepeatsAreFree, ChargeInOrder, TypeOK
<1> QED BY <1>1, InvariantHolds, PTL

\* A start on the quota that overlaps nothing is counted once.
THEOREM QuotaExactHolds == Spec => []QuotaExact
<1>1. IInv => QuotaExact
  <2> SUFFICES ASSUME IInv, ~raced
               PROVE  \/ quotaUsed = paidStarts
                      \/ quotaUsed + 1 = paidStarts /\ \E w \in Workers : Metering(w)
    BY DEF QuotaExact
  <2>1. CASE \A w \in Workers : charge[w] # "quota"
    BY <2>1 DEF IInv, QuotaInOrder
  <2>2. ASSUME NEW w \in Workers, charge[w] = "quota"
        PROVE  \/ quotaUsed = paidStarts
               \/ quotaUsed + 1 = paidStarts /\ Metering(w)
    BY <2>2 DEF IInv, QuotaInOrder, Metering
  <2> QED BY <2>1, <2>2
<1> QED BY <1>1, InvariantHolds, PTL

\* A start or continue button that a page shows is refused only where card and
\* start are known to disagree, although the list, the card and the start decide
\* in three different places.
THEOREM CardIsHonouredHolds == Spec => []CardIsHonoured
<1>1. ASSUME IInv PROVE CardIsHonoured
  <2> SUFFICES ASSUME NEW t \in Tests, Visible(t), CardState(t) \in {"start", "continue"},
                      ~CardDiffers(t)
               PROVE  GateOpen(t) /\ (Running(t) \/ attempts[t] < StartLimit(t))
    BY DEF CardIsHonoured
  <2>1. CanAccess(t)
    BY DEF Visible, CanAccess
  <2>2. t \in Timed => phase[t] \in {"draft", "before", "open", "closed"}
    BY <1>1 DEF IInv, TypeOK
  <2>3. /\ attempts[t] \in Nat /\ (live[t] => attempts[t] > 0) /\ Limit[t] \in Nat \ {0}
        /\ t \in BySession => t \in Timed /\ Earlier[t] \in Nat /\ SessionLimit[t] \in Nat
        /\ t \in Timed \ BySession => OnCard(t)
    BY <1>1, AccessAssumption
       DEF IInv, TypeOK, AttemptsInWindow, AccessAssumption, CardDiffers, OnCard
  <2>4. InWindow(t)
    BY <1>1, <2>2, <2>3 DEF CardState, InWindow, IInv, AttemptsInWindow, CardDiffers
  <2>5. CASE live[t]
    BY <2>1, <2>3, <2>4, <2>5 DEF GateOpen, NeedsStarter, AllAttempts, Running, CardDiffers
  <2>6. CASE ~live[t]
    <3>1. AllAttempts(t) < Limit[t] /\ (t \notin Pro \/ Paid(t) \/ Available(Resource(t)))
      BY <2>3, <2>6 DEF CardState, CardLimit, AllAttempts
    <3>2. attempts[t] < StartLimit(t)
      BY <2>3, <3>1 DEF AllAttempts, StartLimit, CardDiffers
    <3> QED BY <2>1, <2>4, <3>1, <3>2 DEF GateOpen, NeedsStarter
  <2> QED BY <2>5, <2>6
<1> QED BY <1>1, InvariantHolds, PTL

-----------------------------------------------------------------------------
(* How much more than the allowance can be opened *)

One(S, w) == IF w \in S THEN 1 ELSE 0

LEMMA CountAt ==
  ASSUME NEW S \in SUBSET Workers, NEW w \in Workers
  PROVE  Cardinality(S \ {w}) \in Nat /\ Cardinality(S) = Cardinality(S \ {w}) + One(S, w)
<1>1. IsFiniteSet(S)
  BY AccessAssumption, FS_Subset
<1>2. IsFiniteSet(S \ {w}) /\ Cardinality(S \ {w}) = IF w \in S THEN Cardinality(S) - 1 ELSE Cardinality(S)
  BY <1>1, FS_RemoveElement
<1> QED BY <1>1, <1>2, FS_CardinalityType DEF One

\* No request is both before and after what it opens.
CountsFit(r) ==
    /\ Cardinality(Opening(r)) + Cardinality(Unpaid(r)) <= Cardinality(Workers)
    /\ Cardinality(Opening(r)) \in Nat /\ Cardinality(Unpaid(r)) \in Nat /\ Cardinality(Prepaid(r)) \in Nat

LEMMA Spare == \A r : CountsFit(r)
<1> SUFFICES ASSUME NEW r PROVE CountsFit(r)
  OBVIOUS
<1>1. /\ Opening(r) \subseteq Workers /\ Unpaid(r) \subseteq Workers /\ Prepaid(r) \subseteq Workers
      /\ Opening(r) \cap Unpaid(r) = {}
  BY DEF Opening, Unpaid, Prepaid, OnAllowance
<1>2. IsFiniteSet(Opening(r)) /\ IsFiniteSet(Unpaid(r)) /\ IsFiniteSet(Prepaid(r)) /\ IsFiniteSet(Workers)
  BY <1>1, AccessAssumption, FS_Subset
<1>3. Cardinality(Opening(r) \cup Unpaid(r)) = Cardinality(Opening(r)) + Cardinality(Unpaid(r)) - 0
  BY <1>1, <1>2, FS_Union, FS_EmptySet
<1>4. Cardinality(Opening(r) \cup Unpaid(r)) <= Cardinality(Workers)
  BY <1>1, <1>2, FS_Subset
<1> QED BY <1>2, <1>3, <1>4, FS_CardinalityType DEF CountsFit

LEMMA SpareNext == (\A r : CountsFit(r))'
BY Spare, PTL

\* A step of one thread changes the counts by that thread alone.
LEMMA CountStep ==
  ASSUME TypeOK, NEW w \in Workers, Act(w), NEW r
  PROVE  \E o, u, p \in Nat :
           /\ Cardinality(Opening(r)) = o + One(Opening(r), w)
           /\ Cardinality(Opening(r)') = o + One(Opening(r)', w)
           /\ Cardinality(Unpaid(r)) = u + One(Unpaid(r), w)
           /\ Cardinality(Unpaid(r)') = u + One(Unpaid(r)', w)
           /\ Cardinality(Prepaid(r)) = p + One(Prepaid(r), w)
           /\ Cardinality(Prepaid(r)') = p + One(Prepaid(r)', w)
<1>1. /\ Opening(r) \subseteq Workers /\ Unpaid(r) \subseteq Workers /\ Prepaid(r) \subseteq Workers
      /\ Opening(r)' \subseteq Workers /\ Unpaid(r)' \subseteq Workers /\ Prepaid(r)' \subseteq Workers
  BY DEF Opening, Unpaid, Prepaid, OnAllowance
<1>2. ASSUME NEW v \in Workers, v # w
      PROVE  /\ v \in Opening(r)' <=> v \in Opening(r)
             /\ v \in Unpaid(r)' <=> v \in Unpaid(r)
             /\ v \in Prepaid(r)' <=> v \in Prepaid(r)
  BY <1>2, OthersUndisturbed DEF Opening, Unpaid, Prepaid, OnAllowance, Resource
<1>3. /\ Opening(r)' \ {w} = Opening(r) \ {w}
      /\ Unpaid(r)' \ {w} = Unpaid(r) \ {w}
      /\ Prepaid(r)' \ {w} = Prepaid(r) \ {w}
  BY <1>1, <1>2
<1>4. \E o \in Nat : /\ Cardinality(Opening(r)) = o + One(Opening(r), w)
                     /\ Cardinality(Opening(r)') = o + One(Opening(r)', w)
  BY <1>1, <1>3, CountAt
<1>5. \E u \in Nat : /\ Cardinality(Unpaid(r)) = u + One(Unpaid(r), w)
                     /\ Cardinality(Unpaid(r)') = u + One(Unpaid(r)', w)
  BY <1>1, <1>3, CountAt
<1>6. \E p \in Nat : /\ Cardinality(Prepaid(r)) = p + One(Prepaid(r), w)
                     /\ Cardinality(Prepaid(r)') = p + One(Prepaid(r)', w)
  BY <1>1, <1>3, CountAt
<1> QED BY <1>4, <1>5, <1>6

OpensOf(r) ==
    /\ opened[r] + Cardinality(Opening(r)) <= Quantity[r] + Cardinality(Workers) - 1 + crashes
    /\ Available(r) =>
         opened[r] + Cardinality(Prepaid(r)) <= used[r] + Cardinality(Unpaid(r)) + crashes

\* Where w stands: o, u, p say whether it opens, has not paid, or has prepaid.
Stands(w, r, o, u, p) ==
    One(Opening(r), w) = o /\ One(Unpaid(r), w) = u /\ One(Prepaid(r), w) = p

StandsAsItSays(w, r) ==
    /\ charge[w] # "starter" \/ Resource(item[w]) # r => Stands(w, r, 0, 0, 0)
    /\ charge[w] = "starter" /\ Resource(item[w]) = r =>
         /\ pc[w] = "start" => Stands(w, r, 1, 0, 0)
         /\ pc[w] = "charge" /\ item[w] \in Tests => Stands(w, r, 0, 1, 0)
         /\ pc[w] = "charge" /\ item[w] \notin Tests => Stands(w, r, 1, 0, 0)
         /\ pc[w] = "record" => Stands(w, r, 1, 0, 1)

LEMMA Standing == \A w \in Workers : \A r : StandsAsItSays(w, r)
  BY DEF StandsAsItSays, Stands, One, Opening, Unpaid, Prepaid, OnAllowance

LEMMA StandingNext == (\A w \in Workers : \A r : StandsAsItSays(w, r))'
BY Standing, PTL

\* What a step does to the counts decides: the units used, the first uses, the
\* threads that died, and where w stood and stands.
LEMMA CountsDecide ==
  ASSUME TypeOK, TypeOK', NEW w \in Workers, Act(w), NEW r \in Policies, OpensOf(r),
         NEW o \in {0, 1}, NEW u \in {0, 1}, NEW p \in {0, 1}, Stands(w, r, o, u, p),
         NEW o2 \in {0, 1}, NEW u2 \in {0, 1}, NEW p2 \in {0, 1}, Stands(w, r, o2, u2, p2)',
         Available(r)' => Available(r),
         \* nothing new is opened or begun unless some of the allowance is left
         opened'[r] + o2 <= opened[r] + o + (crashes' - crashes) \/ (Available(r) /\ used'[r] = used[r]),
         \* while some is left, what is opened is paid for
         Available(r) => opened'[r] + p2 + u + used[r] + crashes <= opened[r] + p + u2 + used'[r] + crashes',
         crashes' >= crashes
  PROVE  OpensOf(r)'
<1>1. /\ opened[r] \in Nat /\ opened'[r] \in Nat /\ used[r] \in Nat /\ used'[r] \in Nat
      /\ crashes \in Nat /\ crashes' \in Nat /\ Quantity[r] \in Nat
  BY AccessAssumption DEF TypeOK
<1>2. PICK co \in Nat, cu \in Nat, cp \in Nat :
        /\ Cardinality(Opening(r)) = co + o /\ Cardinality(Opening(r)') = co + o2
        /\ Cardinality(Unpaid(r)) = cu + u /\ Cardinality(Unpaid(r)') = cu + u2
        /\ Cardinality(Prepaid(r)) = cp + p /\ Cardinality(Prepaid(r)') = cp + p2
  BY CountStep DEF Stands
<1>3. PICK n \in Nat : n = Cardinality(Workers)
  BY AccessAssumption, FS_CardinalityType
<1>4. co + o + cu + u <= n /\ co + o2 + cu + u2 <= n
  BY <1>2, <1>3, Spare, SpareNext DEF CountsFit
<1>5. Available(r) => used[r] < Quantity[r]
  BY DEF Available
<1>6. /\ opened[r] + (co + o) <= Quantity[r] + n - 1 + crashes
      /\ Available(r) => opened[r] + (cp + p) <= used[r] + (cu + u) + crashes
  BY <1>2, <1>3 DEF OpensOf
<1>7. Available(r) => opened'[r] + (cp + p2) <= used'[r] + (cu + u2) + crashes'
  BY <1>1, <1>6
<1>8. opened'[r] + (co + o2) <= Quantity[r] + n - 1 + crashes'
  <2>1. CASE opened'[r] + o2 <= opened[r] + o + (crashes' - crashes)
    BY <1>1, <1>6, <2>1
  <2>2. CASE Available(r) /\ used'[r] = used[r]
    BY <1>1, <1>4, <1>5, <1>7, <2>2
  <2> QED BY <2>1, <2>2
<1> QED BY <1>2, <1>3, <1>7, <1>8 DEF OpensOf

\* A request of another resource, or not on an allowance, counts for nothing.
LEMMA NotCounted ==
  ASSUME TypeOK, TypeOK', NEW w \in Workers, Act(w), NEW r \in Policies, OpensOf(r),
         charge[w] # "starter" \/ Resource(item[w]) # r,
         charge'[w] # "starter" \/ Resource(item'[w]) # r,
         opened'[r] = opened[r], used'[r] = used[r], lapsed' = lapsed, crashes' >= crashes
  PROVE  OpensOf(r)'
<1>1. Stands(w, r, 0, 0, 0) /\ Stands(w, r, 0, 0, 0)'
  BY Standing, StandingNext DEF StandsAsItSays
<1>2. Available(r)' => Available(r)
  BY DEF Available
<1>3. opened[r] \in Nat /\ used[r] \in Nat /\ crashes \in Nat /\ crashes' \in Nat
  BY AccessAssumption DEF TypeOK
<1>4. opened'[r] + 0 <= opened[r] + 0 + (crashes' - crashes)
  BY <1>3
<1>5. opened'[r] + 0 + 0 + used[r] + crashes <= opened[r] + 0 + 0 + used'[r] + crashes'
  BY <1>3
<1> QED BY <1>1, <1>2, <1>4, <1>5, CountsDecide

\* A request that ends before it opens anything, or dies.
LEMMA EndOpens ==
  ASSUME TypeOK, TypeOK', RequestsOK, NEW w \in Workers, Act(w), NEW r \in Policies, OpensOf(r), Finish(w),
         UNCHANGED <<opened, used, lapsed>>,
         \/ crashes' = crashes /\ ~(pc[w] = "charge" /\ charge[w] = "starter")
         \/ crashes' = crashes + 1
  PROVE  OpensOf(r)'
<1>1. charge'[w] = "none"
  BY FinishedWantsNothing
<1>2. CASE charge[w] # "starter" \/ Resource(item[w]) # r
  BY <1>1, <1>2, NotCounted DEF TypeOK
<1>3. CASE charge[w] = "starter" /\ Resource(item[w]) = r
  <2>1. Stands(w, r, 0, 0, 0)'
    BY <1>1, StandingNext DEF StandsAsItSays
  <2>2. PICK o \in {0, 1}, u \in {0, 1}, p \in {0, 1} :
          Stands(w, r, o, u, p) /\ (u = 1 => crashes' = crashes + 1)
    <3>1. pc[w] \in {"start", "charge", "record", "quota", "idle"} /\ StandsAsItSays(w, r)
      BY Standing DEF TypeOK
    <3>2. pc[w] # "quota" /\ pc[w] # "idle"
      BY <1>3 DEF RequestsOK
    <3> QED BY <1>3, <3>1, <3>2 DEF StandsAsItSays
  <2>3. Available(r)' => Available(r)
    BY DEF Available
  <2>4. opened[r] \in Nat /\ used[r] \in Nat /\ crashes \in Nat /\ crashes' \in Nat /\ crashes' >= crashes
    BY AccessAssumption DEF TypeOK
  <2>5. opened'[r] + 0 <= opened[r] + o + (crashes' - crashes)
    BY <2>4
  <2>6. opened'[r] + 0 + u + used[r] + crashes <= opened[r] + p + 0 + used'[r] + crashes'
    BY <2>2, <2>4
  <2> QED BY <2>1, <2>2, <2>3, <2>4, <2>5, <2>6, CountsDecide
<1> QED BY <1>2, <1>3

\* A request begins on an allowance only while some of it is left.
LEMMA BeginOpens ==
  ASSUME TypeOK, TypeOK', RequestsOK, NEW w \in Workers, Act(w), NEW r \in Policies, OpensOf(r),
         NEW i \in Items, NEW step, NEW c, ~Busy(w), Begin(w, i, step, c),
         UNCHANGED <<opened, used, lapsed, crashes>>,
         c = "starter" => /\ Available(Resource(i))
                          /\ step = "start" \/ (step = "charge" /\ i \notin Tests)
  PROVE  OpensOf(r)'
<1>1. charge[w] = "none" /\ pc'[w] = step /\ item'[w] = i /\ charge'[w] = c
  BY DEF Busy, Begin, RequestsOK, TypeOK
<1>2. CASE c # "starter" \/ Resource(i) # r
  BY <1>1, <1>2, NotCounted DEF TypeOK
<1>3. CASE c = "starter" /\ Resource(i) = r
  <2>1. Stands(w, r, 0, 0, 0) /\ Stands(w, r, 1, 0, 0)' /\ Available(r)
    BY <1>1, <1>3, Standing, StandingNext DEF StandsAsItSays
  <2>2. opened[r] \in Nat /\ used[r] \in Nat /\ crashes \in Nat
    BY AccessAssumption DEF TypeOK
  <2>3. opened'[r] + 0 + 0 + used[r] + crashes <= opened[r] + 0 + 0 + used'[r] + crashes'
    BY <2>2
  <2>4. crashes' >= crashes
    BY <2>2
  <2> QED BY <2>1, <2>3, <2>4, CountsDecide
<1> QED BY <1>2, <1>3

LEMMA ActOpens ==
  ASSUME TypeOK, RequestsOK, NEW w \in Workers, Act(w), NEW r \in Policies, OpensOf(r)
  PROVE  OpensOf(r)'
<1> USE DEF student, starter, quota, records, request
<1>0. /\ TypeOK' /\ r \in Resources
      /\ opened[r] \in Nat /\ used[r] \in Nat /\ crashes \in Nat /\ crashes' \in Nat
  BY ActType, AccessAssumption DEF TypeOK
<1>1. ASSUME NEW t \in Tests, RequestStart(w, t) PROVE OpensOf(r)'
  <2> DEFINE c == IF NeedsStarter(t) THEN "starter"
                  ELSE IF t \in Pro /\ Type[t] = "mock" THEN "quota" ELSE "none"
  <2>1. ~Busy(w) /\ Begin(w, t, "start", c) /\ UNCHANGED <<opened, used, lapsed, crashes>>
    BY <1>1 DEF RequestStart
  <2>2. c = "starter" => Available(Resource(t))
    BY <1>1 DEF RequestStart, GateOpen
  <2> HIDE DEF c
  <2> QED BY <1>0, <2>1, <2>2, BeginOpens DEF Items
<1>2. ASSUME NEW q \in Questions, RequestAnswer(w, q) PROVE OpensOf(r)'
  <2>1. Resource(q) = "qbank" /\ q \notin Tests
    BY AccessAssumption, ResourceType DEF Items
  <2>2. PICK step, c :
          /\ ~Busy(w) /\ Begin(w, q, step, c) /\ UNCHANGED <<opened, used, lapsed, crashes>>
          /\ c = "starter" => Available(Resource(q)) /\ step = "charge"
    BY <1>2, <2>1 DEF RequestAnswer
  <2> QED BY <1>0, <2>1, <2>2, BeginOpens DEF Items
<1>3. CASE Resume(w) \/ RefuseStart(w) \/ NoLock(w) \/ RefuseOption(w) \/ WriteQuota(w) \/ Crash(w)
  BY <1>0, <1>3, EndOpens DEF Resume, RefuseStart, NoLock, RefuseOption, WriteQuota, Crash
<1>4. CASE ReadQuota(w)
  <2>1. /\ charge[w] = "quota" /\ charge'[w] \in {"quota", "none"}
        /\ UNCHANGED <<opened, used, lapsed, crashes>>
    BY <1>4, FinishedWantsNothing DEF ReadQuota
  <2> QED BY <1>0, <2>1, NotCounted
<1>5. CASE CreateAttempt(w)
  <2>1. /\ pc[w] = "start" /\ item[w] \in Tests /\ UNCHANGED <<used, lapsed, crashes>>
        /\ opened' = IF charge[w] = "starter" THEN [opened EXCEPT ![Resource(item[w])] = @ + 1] ELSE opened
    BY <1>5 DEF CreateAttempt, RequestsOK
  <2>2. CASE charge[w] # "starter" \/ Resource(item[w]) # r
    <3>1. opened'[r] = opened[r]
      BY <1>0, <2>1, <2>2 DEF TypeOK
    <3>2. charge'[w] # "starter" \/ Resource(item'[w]) # r
      BY <1>5, <2>2, FinishedWantsNothing DEF CreateAttempt
    <3> QED BY <1>0, <2>1, <2>2, <3>1, <3>2, NotCounted
  <2>3. CASE charge[w] = "starter" /\ Resource(item[w]) = r
    <3>1. pc' = [pc EXCEPT ![w] = "charge"] /\ UNCHANGED <<item, charge, seen>>
      BY <1>5, <2>3 DEF CreateAttempt
    <3>2. pc'[w] = "charge" /\ item'[w] = item[w] /\ charge'[w] = charge[w]
      BY <3>1 DEF TypeOK
    <3>3. Stands(w, r, 1, 0, 0) /\ Stands(w, r, 0, 1, 0)'
      BY <2>1, <2>3, <3>2, Standing, StandingNext DEF StandsAsItSays
    <3>4. opened'[r] = opened[r] + 1
      BY <1>0, <2>1, <2>3 DEF TypeOK
    <3>5. Available(r)' => Available(r)
      BY <2>1 DEF Available
    <3>6. opened'[r] + 0 <= opened[r] + 1 + (crashes' - crashes)
      BY <1>0, <2>1, <3>4
    <3>7. opened'[r] + 0 + 0 + used[r] + crashes <= opened[r] + 0 + 1 + used'[r] + crashes'
      BY <1>0, <2>1, <3>4
    <3>8. crashes' >= crashes
      BY <1>0, <2>1
    <3> QED BY <1>0, <3>3, <3>5, <3>6, <3>7, <3>8, CountsDecide
  <2> QED BY <2>2, <2>3
<1>6. CASE ChargeStarter(w)
  <2>1. /\ pc[w] = "charge" /\ charge[w] = "starter" /\ UNCHANGED <<opened, lapsed, crashes>>
        /\ used' = IF Available(Resource(item[w])) THEN [used EXCEPT ![Resource(item[w])] = @ + 1] ELSE used
    BY <1>6 DEF ChargeStarter
  <2>2. \/ item[w] \in Tests /\ charge'[w] = "none"
        \/ item[w] \notin Tests /\ pc'[w] = "record" /\ item'[w] = item[w] /\ charge'[w] = "starter"
    <3>1. CASE item[w] \in Tests
      BY <1>6, <3>1, FinishedWantsNothing DEF ChargeStarter
    <3>2. CASE item[w] \notin Tests
      BY <1>6, <2>1, <3>2 DEF ChargeStarter, TypeOK
    <3> QED BY <3>1, <3>2
  <2>3. CASE Resource(item[w]) # r
    <3>1. used'[r] = used[r]
      BY <1>0, <2>1, <2>3 DEF TypeOK
    <3>2. charge'[w] # "starter" \/ Resource(item'[w]) # r
      BY <2>2, <2>3
    <3> QED BY <1>0, <2>1, <2>3, <3>1, <3>2, NotCounted
  <2>4. CASE Resource(item[w]) = r
    <3>1. /\ used'[r] = IF Available(r) THEN used[r] + 1 ELSE used[r]
          /\ Available(r)' => Available(r)
      BY <1>0, <2>1, <2>4 DEF TypeOK, Available
    <3>2. crashes' >= crashes
      BY <1>0, <2>1
    <3>3. CASE item[w] \in Tests
      <4>1. Stands(w, r, 0, 1, 0) /\ Stands(w, r, 0, 0, 0)'
        BY <2>1, <2>2, <2>4, <3>3, Standing, StandingNext DEF StandsAsItSays
      <4>2. opened'[r] + 0 <= opened[r] + 0 + (crashes' - crashes)
        BY <1>0, <2>1
      <4>3. Available(r) => opened'[r] + 0 + 1 + used[r] + crashes <= opened[r] + 0 + 0 + used'[r] + crashes'
        BY <1>0, <2>1, <3>1
      <4> QED BY <1>0, <3>1, <3>2, <4>1, <4>2, <4>3, CountsDecide
    <3>4. CASE item[w] \notin Tests
      <4>1. Stands(w, r, 1, 0, 0) /\ Stands(w, r, 1, 0, 1)'
        BY <2>1, <2>2, <2>4, <3>4, Standing, StandingNext DEF StandsAsItSays
      <4>2. opened'[r] + 1 <= opened[r] + 1 + (crashes' - crashes)
        BY <1>0, <2>1
      <4>3. Available(r) => opened'[r] + 1 + 0 + used[r] + crashes <= opened[r] + 0 + 0 + used'[r] + crashes'
        BY <1>0, <2>1, <3>1
      <4> QED BY <1>0, <3>1, <3>2, <4>1, <4>2, <4>3, CountsDecide
    <3> QED BY <3>3, <3>4
  <2> QED BY <2>3, <2>4
<1>7. CASE RecordAnswer(w)
  <2>1. /\ pc[w] = "record" /\ Finish(w) /\ UNCHANGED <<used, lapsed, crashes>> /\ item[w] \in Questions
        /\ opened' = IF charge[w] = "starter" THEN [opened EXCEPT !["qbank"] = @ + 1] ELSE opened
    BY <1>7 DEF RecordAnswer, RequestsOK
  <2>2. charge'[w] = "none" /\ Resource(item[w]) = "qbank"
    BY <2>1, FinishedWantsNothing, ResourceType DEF Items
  <2>3. CASE charge[w] # "starter" \/ Resource(item[w]) # r
    <3>1. opened'[r] = opened[r]
      BY <1>0, <2>1, <2>2, <2>3 DEF TypeOK
    <3> QED BY <1>0, <2>1, <2>2, <2>3, <3>1, NotCounted
  <2>4. CASE charge[w] = "starter" /\ Resource(item[w]) = r
    <3>1. Stands(w, r, 1, 0, 1) /\ Stands(w, r, 0, 0, 0)'
      BY <2>1, <2>2, <2>4, Standing, StandingNext DEF StandsAsItSays
    <3>2. opened'[r] = opened[r] + 1
      BY <1>0, <2>1, <2>2, <2>4 DEF TypeOK
    <3>3. Available(r)' => Available(r)
      BY <2>1 DEF Available
    <3>4. opened'[r] + 0 <= opened[r] + 1 + (crashes' - crashes)
      BY <1>0, <2>1, <3>2
    <3>5. opened'[r] + 0 + 0 + used[r] + crashes <= opened[r] + 1 + 0 + used'[r] + crashes'
      BY <1>0, <2>1, <3>2
    <3>6. crashes' >= crashes
      BY <1>0, <2>1
    <3> QED BY <1>0, <3>1, <3>3, <3>4, <3>5, <3>6, CountsDecide
  <2> QED BY <2>3, <2>4
<1> QED BY <1>1, <1>2, <1>3, <1>4, <1>5, <1>6, <1>7 DEF Act, Start, Answer

\* Nobody's request moves: only the row may lapse.
LEMMA WorldOpens ==
  ASSUME TypeOK, World \/ UNCHANGED vars, UNCHANGED request, NEW r \in Policies, OpensOf(r)
  PROVE  OpensOf(r)'
<1>1. UNCHANGED <<opened, used, crashes>> /\ lapsed \subseteq lapsed'
  BY DEF World, Provision, Lapse, SubmitAttempt, TimeIsUp, ClockTick, ChangeEnrolment, ChangePurchase,
     MeetElsewhere, vars, starter
<1>2. /\ Opening(r)' = Opening(r) /\ Unpaid(r)' = Unpaid(r) /\ Prepaid(r)' = Prepaid(r)
  BY DEF request, Opening, Unpaid, Prepaid, OnAllowance, Resource
<1>3. Available(r)' => Available(r)
  BY <1>1 DEF Available
<1> QED BY <1>1, <1>2, <1>3 DEF OpensOf

\* What is opened on an allowance is paid for while some of it is left, and
\* afterwards only the requests already past the gate open anything.
THEOREM OpensInvHolds == Spec => []OpensInv
<1>1. OpensInv <=> \A r \in Policies : OpensOf(r)
  BY DEF OpensInv, OpensOf
<1>2. Init => \A r \in Policies : OpensOf(r)
  <2> SUFFICES ASSUME Init, NEW r \in Policies PROVE OpensOf(r)
    OBVIOUS
  <2>1. Opening(r) = {} /\ Unpaid(r) = {} /\ Prepaid(r) = {}
    BY DEF Init, Opening, Unpaid, Prepaid, OnAllowance
  <2>2. Cardinality(Workers) \in Nat /\ Cardinality(Workers) # 0
    BY AccessAssumption, FS_CardinalityType, FS_EmptySet
  <2>3. r \in Resources /\ Quantity[r] \in Nat
    BY AccessAssumption
  <2> QED BY <2>1, <2>2, <2>3, FS_EmptySet DEF Init, OpensOf
<1>3. TypeOK /\ RequestsOK /\ [Next]_vars /\ (\A r \in Policies : OpensOf(r)) => (\A r \in Policies : OpensOf(r))'
  <2> SUFFICES ASSUME TypeOK, RequestsOK, [Next]_vars, NEW r \in Policies, OpensOf(r) PROVE OpensOf(r)'
    OBVIOUS
  <2>1. CASE \E w \in Workers : Act(w)
    BY <2>1, ActOpens
  <2>2. CASE World \/ UNCHANGED vars
    <3>1. UNCHANGED request
      BY <2>2, WorldType DEF vars, request
    <3> QED BY <2>2, <3>1, WorldOpens
  <2> QED BY <2>1, <2>2 DEF Next, Act
<1>4. IInv => TypeOK /\ RequestsOK
  BY DEF IInv
<1>5. Spec => [](\A r \in Policies : OpensOf(r))
  BY <1>2, <1>3, <1>4, InvariantHolds, PTL DEF Spec
<1> QED BY <1>1, <1>5, PTL

\* Requests that passed the gate together open at most as many items beyond the
\* allowance as there are threads beside the one that used it up, and one for
\* each thread that died before it charged (_start_attempt,
\* ensure_and_consume_free_starter).
THEOREM OpensBoundedHolds == Spec => []OpensBounded
<1>1. ASSUME TypeOK, OpensInv PROVE OpensBounded
  <2> SUFFICES ASSUME NEW r \in Policies
               PROVE  opened[r] <= Quantity[r] + Cardinality(Workers) - 1 + crashes
    BY DEF OpensBounded
  <2>1. /\ opened[r] \in Nat /\ Quantity[r] \in Nat /\ crashes \in Nat
        /\ Cardinality(Workers) \in Nat /\ Cardinality(Opening(r)) \in Nat
    BY <1>1, AccessAssumption, FS_CardinalityType, Spare DEF TypeOK, CountsFit
  <2> QED BY <1>1, <2>1 DEF OpensInv
<1> QED BY <1>1, TypeCorrect, OpensInvHolds, PTL

-----------------------------------------------------------------------------
(* ExamRelease: the rows and their types *)

LEMMA WindowTypes ==
    /\ NoSession \notin Sessions /\ NoTime \notin Nat /\ Duration \in Nat \ {0}
    /\ Time \subseteq Nat
  BY ReleaseAssumption DEF Time

LEMMA BackfilledRow ==
    ASSUME exam \in ExamRow, now \in Nat
    PROVE  /\ Backfilled \in SessionRow /\ ~Backfilled.released
           /\ Backfilled.status \notin {"none", "cancelled"}
           /\ Backfilled.status = "completed" => now > Backfilled.closes
           /\ exam.closes # NoTime => Backfilled.closes = exam.closes
<1> USE WindowTypes
<1> DEFINE opens == IF exam.opens # NoTime THEN exam.opens ELSE 0
           closes == IF exam.closes # NoTime THEN exam.closes ELSE opens + Duration
           state == IF closes < now THEN "completed"
                    ELSE IF opens <= now THEN "live" ELSE "scheduled"
<1>1. opens \in Nat /\ closes \in Nat /\ (exam.closes # NoTime => closes = exam.closes)
  <2>1. exam.opens \in Nat \cup {NoTime} /\ exam.closes \in Nat \cup {NoTime}
    BY DEF ExamRow
  <2> QED BY <2>1
<1>2. Backfilled = [opens |-> opens, closes |-> closes, released |-> FALSE, status |-> state]
  BY DEF Backfilled
<1>3. state \in {"completed", "live", "scheduled"} /\ (state = "completed" => now > closes)
  BY <1>1
<1> HIDE DEF opens, closes, state
<1> QED BY <1>1, <1>2, <1>3 DEF SessionRow, Statuses

LEMMA ReleaseInitially == ReleaseInit => ReleaseInv
<1> SUFFICES ASSUME ReleaseInit PROVE ReleaseInv
  OBVIOUS
<1> USE WindowTypes
<1>1. exam \in ExamRow /\ ~exam.released /\ now = 0 /\ now \in Time /\ edits \in 0 .. MaxEdits
  BY ReleaseAssumption DEF ReleaseInit, Time
<1>2. Backfilled \in SessionRow /\ ~Backfilled.released
      /\ (Backfilled.status = "completed" => now > Backfilled.closes)
  BY <1>1, BackfilledRow
<1>3. NoRow \in SessionRow /\ NoRow.status = "none" /\ ~NoRow.released
  BY DEF NoRow, SessionRow, Statuses
<1>4. PICK first \in Sessions :
        session = [s \in Sessions |-> IF s = first /\ exam.adopted THEN Backfilled ELSE NoRow]
  BY DEF ReleaseInit
<1>5. \A s \in Sessions : session[s] \in {Backfilled, NoRow}
  BY <1>4
<1>6. \A s \in Sessions : /\ session[s] \in SessionRow /\ ~session[s].released
                          /\ session[s].status = "completed" => now > session[s].closes
  BY <1>2, <1>3, <1>5
<1>7. starting = [u \in Students |-> Idle] /\ Idle.step = "idle" /\ Idle.window = NoSession
      /\ Idle.row = NoRow
      /\ Idle \in [step: {"idle", "refresh", "checked"}, window: Windows, row: SessionRow]
  BY <1>3 DEF ReleaseInit, Idle, Windows
<1>8. /\ attempt \in [Attempts -> AttemptRow]
      /\ \A a \in Attempts : attempt[a].window = NoSession /\ attempt[a].status = "none"
  <2> DEFINE none == [owner |-> NoStudent, window |-> NoSession, status |-> "none", start |-> 0]
  <2>1. none \in AttemptRow
    BY <1>1 DEF AttemptRow, Windows
  <2> QED BY <2>1 DEF ReleaseInit
<1>9. ReleaseTypeOK
  BY <1>1, <1>4, <1>6, <1>7, <1>8 DEF ReleaseInit, ReleaseTypeOK
<1>10. WindowsOK
  <2>1. exam.adopted => first \in Existing
    BY <1>4, <1>1, BackfilledRow DEF Existing
  <2> QED BY <1>1, <1>6, <2>1 DEF WindowsOK
<1>11. StartsOK
  BY <1>7, <1>8 DEF StartsOK
<1> QED BY <1>9, <1>10, <1>11 DEF ReleaseInit, ReleaseInv, FormOK, ShownOK

\* What the clock says of a session there is.
LEMMA EffectiveMeans ==
    ASSUME ReleaseTypeOK, NEW row \in SessionRow
    PROVE  /\ row.status # "none" => Effective(row) \in Statuses \ {"none"}
           /\ Effective(row) \in Statuses
           /\ Effective(row) = "completed" => row.status = "completed" \/ now > row.closes
  BY DEF Effective, SessionRow, Statuses

\* What a student does leaves the rows of the exam and its sessions alone, but
\* for a status.
LEMMA BeginStartKeeps ==
    ASSUME ReleaseInv, NEW u \in Students, BeginStart(u)
    PROVE  ReleaseInv'
<1> USE WindowTypes DEF ReleaseInv
<1>1. UNCHANGED <<now, exam, session, attempt, form, edits, shown, reopened>>
  BY DEF BeginStart
<1>2. PICK r : /\ starting' = [starting EXCEPT ![u] = r]
               /\ r \in [step: {"idle", "refresh", "checked"}, window: Windows, row: SessionRow]
               /\ r.window \in Existing \cup {NoSession}
               /\ r.step = "refresh" =>
                     /\ r.window # NoSession /\ r.row.status # "none"
                     /\ r.row.status = "completed" /\ r.window \notin reopened =>
                           now > session[r.window].closes
  <2>1. PICK w \in Existing \cup Governing :
          IF w = NoSession
          THEN /\ ExamAdmits(u)
               /\ starting' = [starting EXCEPT ![u].step = "checked"]
          ELSE LET row == [session[w] EXCEPT !.status = Effective(session[w]),
                                             !.released = FALSE]
                   changed == row.status # session[w].status
               IN  /\ changed \/ SessionAdmits(row)
                   /\ starting' = [starting EXCEPT ![u] =
                        IF changed
                        THEN [step |-> "refresh", window |-> w, row |-> row]
                        ELSE [step |-> "checked", window |-> w, row |-> NoRow]]
    BY DEF BeginStart
  <2>2. CASE w = NoSession
    <3> DEFINE r == [starting[u] EXCEPT !.step = "checked"]
    <3>1. starting' = [starting EXCEPT ![u] = r]
      BY <2>1, <2>2
    <3>2. /\ r \in [step: {"idle", "refresh", "checked"}, window: Windows, row: SessionRow]
          /\ r.step = "checked" /\ r.window = starting[u].window
      BY DEF ReleaseTypeOK
    <3> QED BY <3>1, <3>2 DEF StartsOK
  <2>3. CASE w # NoSession
    <3> DEFINE row == [session[w] EXCEPT !.status = Effective(session[w]), !.released = FALSE]
               r == IF row.status # session[w].status
                    THEN [step |-> "refresh", window |-> w, row |-> row]
                    ELSE [step |-> "checked", window |-> w, row |-> NoRow]
    <3>1. w \in Existing
      BY <2>3 DEF Governing
    <3>2. starting' = [starting EXCEPT ![u] = r]
      BY <2>1, <2>3
    <3>3. session[w] \in SessionRow /\ session[w].status # "none" /\ w \in Sessions
      BY <3>1 DEF Existing, ReleaseTypeOK
    <3>4. /\ row \in SessionRow /\ row.status = Effective(session[w])
          /\ row.status \in Statuses \ {"none"}
      BY <3>3, EffectiveMeans DEF SessionRow
    <3>5. NoRow \in SessionRow
      BY DEF NoRow, SessionRow, Statuses
    <3>6. r \in [step: {"idle", "refresh", "checked"}, window: Windows, row: SessionRow]
      BY <3>3, <3>4, <3>5 DEF Windows
    <3>7. r.window = w /\ (r.step = "refresh" => r.row = row)
      OBVIOUS
    <3>8. row.status = "completed" /\ w \notin reopened => now > session[w].closes
      BY <3>3, <3>4, EffectiveMeans DEF WindowsOK
    <3> QED BY <2>3, <3>1, <3>2, <3>4, <3>6, <3>7, <3>8
  <2> QED BY <2>2, <2>3
<1>3. ReleaseTypeOK'
  BY <1>1, <1>2 DEF ReleaseTypeOK
<1>4. StartsOK'
  <2>1. \A v \in Students : starting'[v] = IF v = u THEN r ELSE starting[v]
    BY <1>2 DEF ReleaseTypeOK
  <2> QED BY <1>1, <1>2, <2>1 DEF StartsOK, Existing
<1>5. WindowsOK' /\ FormOK' /\ ShownOK'
  BY <1>1 DEF WindowsOK, FormOK, ShownOK, Existing, Closing, End
<1> QED BY <1>3, <1>4, <1>5

LEMMA SaveStatusKeeps ==
    ASSUME ReleaseInv, NEW u \in Students, SaveStatus(u)
    PROVE  ReleaseInv'
<1> USE WindowTypes DEF ReleaseInv
<1> DEFINE r == starting[u]
<1>1. UNCHANGED <<now, exam, attempt, form, edits, shown, reopened>>
  BY DEF SaveStatus
<1>2. /\ r.step = "refresh" /\ r.window \in Existing
      /\ r \in [step: {"idle", "refresh", "checked"}, window: Windows, row: SessionRow]
      /\ r.row \in SessionRow /\ r.row.status \in Statuses \ {"none"}
      /\ r.row.status = "completed" /\ r.window \notin reopened => now > session[r.window].closes
  BY DEF SaveStatus, StartsOK, ReleaseTypeOK, SessionRow
<1>3. \A s \in Sessions :
        /\ session'[s] \in SessionRow /\ session[s] \in SessionRow
        /\ session'[s].closes = session[s].closes /\ session'[s].released = session[s].released
        /\ session'[s].status = IF s = r.window THEN r.row.status ELSE session[s].status
  BY <1>2 DEF SaveStatus, ReleaseTypeOK, SessionRow
<1>4. session' \in [Sessions -> SessionRow]
  BY <1>3 DEF SaveStatus, ReleaseTypeOK
<1>5. Existing' = Existing
  BY <1>2, <1>3 DEF Existing
<1>6. PICK new \in {Idle, [r EXCEPT !.step = "checked", !.row = NoRow]} :
        starting' = [starting EXCEPT ![u] = new]
  BY DEF SaveStatus
<1>7. /\ new \in [step: {"idle", "refresh", "checked"}, window: Windows, row: SessionRow]
      /\ new.step # "refresh" /\ new.window \in Existing \cup {NoSession}
  <2>1. NoRow \in SessionRow
    BY DEF NoRow, SessionRow, Statuses
  <2>2. CASE new = Idle
    BY <2>1, <2>2 DEF Idle, Windows
  <2>3. CASE new = [r EXCEPT !.step = "checked", !.row = NoRow]
    BY <1>2, <2>1, <2>3
  <2> QED BY <1>6, <2>2, <2>3
<1>8. ReleaseTypeOK'
  BY <1>1, <1>4, <1>6, <1>7 DEF ReleaseTypeOK
<1>9. WindowsOK'
  BY <1>1, <1>2, <1>3, <1>5 DEF WindowsOK
<1>10. StartsOK'
  <2>1. \A v \in Students : starting'[v] = IF v = u THEN new ELSE starting[v]
    BY <1>6 DEF ReleaseTypeOK
  <2>2. Existing \subseteq Sessions
    BY DEF Existing
  <2> QED BY <1>1, <1>3, <1>5, <1>7, <2>1, <2>2 DEF StartsOK
<1>11. FormOK'
  BY <1>1, <1>5 DEF FormOK
<1>12. ShownOK'
  <2>1. ASSUME NEW v \in Students, NEW w \in shown[v]
        PROVE  /\ w \in Existing' \/ (w = NoSession /\ Closing(NoSession)')
               /\ w \notin reopened' => now' >= End(w)'
    <3>1. CASE w \in Existing
      BY <1>1, <1>3, <1>5, <2>1, <3>1 DEF ShownOK, End, Existing
    <3>2. CASE w = NoSession
      BY <1>1, <1>5, <2>1, <3>2 DEF ShownOK, End, Closing, Existing
    <3> QED BY <2>1, <3>1, <3>2 DEF ShownOK
  <2> QED BY <1>1, <2>1 DEF ShownOK
<1> QED BY <1>8, <1>9, <1>10, <1>11, <1>12

LEMMA AttemptsKeep ==
    ASSUME ReleaseInv, UNCHANGED <<now, exam, session, form, edits, shown, reopened>>,
           \/ \E u \in Students : InsertAttempt(u)
           \/ \E a \in Attempts : Finalize(a)
    PROVE  ReleaseInv'
<1> USE WindowTypes DEF ReleaseInv
<1>1. attempt \in [Attempts -> AttemptRow] /\ now \in Time
  BY DEF ReleaseTypeOK
<1>2. attempt' \in [Attempts -> AttemptRow]
      /\ \A a \in Attempts : /\ attempt'[a].window \in Existing \cup {NoSession}
                             /\ attempt'[a].status # "none" => attempt'[a].owner \in Students
  <2> DEFINE done(a) == [attempt[a] EXCEPT !.status = "submitted"]
  <2>1. ASSUME NEW a \in Attempts
        PROVE  /\ done(a) \in AttemptRow
               /\ done(a).window = attempt[a].window /\ done(a).owner = attempt[a].owner
               /\ done(a).status = "submitted"
    BY <1>1 DEF AttemptRow
  <2> HIDE DEF done
  <2>2. ASSUME NEW a \in Attempts, Finalize(a)
        PROVE  <1>2
    <3>1. attempt' = [attempt EXCEPT ![a] = done(a)] /\ attempt[a].status # "none"
      BY <2>2 DEF Finalize, done
    <3> QED BY <1>1, <2>1, <3>1 DEF StartsOK
  <2>3. ASSUME NEW u \in Students, InsertAttempt(u)
        PROVE  <1>2
    <3> DEFINE w == starting[u].window
               mine == AttemptsIn(u, w)
               resumed == {a \in mine : CanAnswer(a)}
               closed == [a \in Attempts |->
                            IF a \in mine /\ Expired(a) /\ resumed = {}
                            THEN [attempt[a] EXCEPT !.status = "submitted"]
                            ELSE attempt[a]]
               new == [owner |-> u, window |-> w, status |-> "in_progress", start |-> now]
    <3>1. closed \in [Attempts -> AttemptRow]
          /\ \A a \in Attempts : /\ closed[a].window = attempt[a].window
                                 /\ closed[a].owner = attempt[a].owner
                                 /\ closed[a].status # "none" => attempt[a].status # "none"
      <4>1. closed = [a \in Attempts |-> IF a \in mine /\ Expired(a) /\ resumed = {}
                                         THEN done(a) ELSE attempt[a]]
        BY DEF done
      <4>2. \A a \in Attempts : Expired(a) => attempt[a].status # "none"
        BY DEF Expired
      <4> HIDE DEF closed, mine, resumed
      <4> QED BY <1>1, <2>1, <4>1, <4>2
    <3>2. w \in Windows /\ w \in Existing \cup {NoSession}
      BY DEF ReleaseTypeOK, StartsOK
    <3>3. new \in AttemptRow /\ new.window = w /\ new.owner = u
      BY <1>1, <3>2 DEF AttemptRow
    <3>4. attempt' = closed \/ \E a \in Attempts : attempt' = [closed EXCEPT ![a] = new]
      BY <2>3 DEF InsertAttempt
    <3> HIDE DEF closed, new, w, mine
    <3>5. CASE attempt' = closed
      BY <3>1, <3>5 DEF StartsOK
    <3>6. ASSUME NEW a \in Attempts, attempt' = [closed EXCEPT ![a] = new]
          PROVE  <1>2
      BY <3>1, <3>2, <3>3, <3>6 DEF StartsOK
    <3> QED BY <3>4, <3>5, <3>6
  <2> QED BY <2>2, <2>3
<1>3. starting' \in [Students -> [step: {"idle", "refresh", "checked"}, window: Windows, row: SessionRow]]
      /\ \A u \in Students : starting'[u] \in {starting[u], Idle}
  <2>1. Idle \in [step: {"idle", "refresh", "checked"}, window: Windows, row: SessionRow]
    BY DEF Idle, Windows, NoRow, SessionRow, Statuses
  <2> QED BY <2>1 DEF InsertAttempt, Finalize, ReleaseTypeOK
<1>4. ReleaseTypeOK'
  BY <1>2, <1>3 DEF ReleaseTypeOK
<1>5. StartsOK'
  <2>1. Idle.step = "idle" /\ Idle.window = NoSession
    BY DEF Idle
  <2> QED BY <1>2, <1>3, <2>1 DEF StartsOK, Existing
<1>6. WindowsOK' /\ FormOK' /\ ShownOK'
  BY DEF WindowsOK, FormOK, ShownOK, Existing, Closing, End
<1> QED BY <1>4, <1>5, <1>6

\* With no session but cancelled ones the exam itself governs.
LEMMA GoverningExists ==
    ASSUME ReleaseTypeOK, NEW g \in Governing
    PROVE  g \in Existing \cup {NoSession} /\ (Existing = {} => g = NoSession)
  BY DEF Governing

\* Solutions and the review of a missed exam are shown after the end of the
\* window, unless someone released or reopened it.
LEMMA SolutionsMeanEnd ==
    ASSUME ReleaseInv, NEW a \in Attempts, NEW g \in Governing, Solutions(a, g),
           Closing(attempt[a].window),
           attempt[a].window \notin reopened \/ (exam.kind = "grand" /\ ~exam.manual)
    PROVE  now >= End(attempt[a].window)
<1> USE WindowTypes DEF ReleaseInv
<1> DEFINE w == attempt[a].window
<1>1. w \in Existing \cup {NoSession} /\ exam \in ExamRow
  BY DEF StartsOK, ReleaseTypeOK
<1>2. CASE exam.manual
  BY <1>1, <1>2 DEF Solutions, Closing, WindowsOK, Existing
<1>3. CASE ~exam.manual /\ exam.kind = "grand"
  <2>1. CASE w = NoSession
    <3>1. g = NoSession /\ exam.closes # NoTime
      BY <2>1, GoverningExists DEF Closing
    <3> QED BY <1>3, <2>1, <3>1 DEF Solutions, ReviewOpens, End
  <2>2. CASE w # NoSession
    <3>1. session[w].closes \in Nat
      BY <1>1, <2>2 DEF ReleaseTypeOK, Existing, SessionRow
    <3> QED BY <1>3, <2>2, <3>1 DEF Solutions, ReviewOpens, End
  <2> QED BY <2>1, <2>2
<1>4. CASE ~exam.manual /\ exam.kind # "grand"
  <2>1. w # NoSession /\ w \in Sessions /\ session[w] \in SessionRow /\ now \in Nat
    BY <1>1, <1>4 DEF Closing, Existing, ReleaseTypeOK
  <2>2. Effective(session[w]) = "completed"
    BY <1>4, <2>1 DEF Solutions
  <2>3. now > session[w].closes
    BY <1>4, <2>1, <2>2, EffectiveMeans DEF WindowsOK
  <2> QED BY <2>1, <2>3 DEF End, SessionRow
<1> QED BY <1>2, <1>3, <1>4

LEMMA MissedMeansEnd ==
    ASSUME ReleaseInv, NEW u \in Students, NEW g \in Governing, Missed(u, g),
           Closing(g), g \notin reopened
    PROVE  now >= End(g)
<1> USE WindowTypes DEF ReleaseInv
<1>1. CASE g = NoSession
  <2>1. exam.closes \in Nat \cup {NoTime} /\ now \in Nat
    BY DEF ReleaseTypeOK, ExamRow
  <2>2. exam.closes # NoTime /\ now > exam.closes
    BY <1>1 DEF Missed
  <2> QED BY <1>1, <2>1, <2>2 DEF End
<1>2. CASE g # NoSession
  <2>1. g \in Sessions /\ session[g] \in SessionRow /\ now \in Nat
    BY <1>2 DEF Governing, Existing, ReleaseTypeOK
  <2>2. now > session[g].closes
    BY <1>2, <2>1, EffectiveMeans DEF Missed, WindowsOK
  <2> QED BY <1>2, <2>1, <2>2 DEF End, SessionRow
<1> QED BY <1>1, <1>2

LEMMA ViewsKeep ==
    ASSUME ReleaseInv, (\E a \in Attempts : ViewResult(a)) \/ (\E u \in Students : ViewMissed(u))
    PROVE  ReleaseInv'
<1> USE WindowTypes DEF ReleaseInv
<1>1. UNCHANGED <<now, exam, session, attempt, starting, form, edits, reopened>>
  BY DEF ViewResult, ViewMissed
<1>2. PICK w \in Existing \cup {NoSession} :
        (\E u : Show(u, w)) /\ (Closing(w) /\ w \notin reopened => now >= End(w))
  <2>1. CASE \E a \in Attempts : ViewResult(a)
    <3>1. PICK a \in Attempts : ViewResult(a)
      BY <2>1
    <3>2. attempt[a].window \in Existing \cup {NoSession}
      BY DEF StartsOK
    <3> QED BY <3>1, <3>2, SolutionsMeanEnd DEF ViewResult
  <2>2. CASE \E u \in Students : ViewMissed(u)
    <3>1. PICK u \in Students, g \in Governing : Missed(u, g) /\ Show(u, g)
      BY <2>2 DEF ViewMissed
    <3> QED BY <3>1, GoverningExists, MissedMeansEnd
  <2> QED BY <2>1, <2>2
<1>3. ASSUME NEW v \in Students
      PROVE  /\ shown'[v] \in SUBSET Windows
             /\ \A x \in shown'[v] : x \in shown[v] \/ (x = w /\ Closing(w) /\ w \notin reopened)
  BY <1>2 DEF Show, ReleaseTypeOK, Windows, Existing
<1>4. ReleaseTypeOK'
  <2>1. shown' \in [Students -> SUBSET Windows]
    BY <1>2, <1>3 DEF Show, ReleaseTypeOK
  <2> QED BY <1>1, <2>1 DEF ReleaseTypeOK
<1>5. ShownOK'
  <2>1. ASSUME NEW v \in Students, NEW x \in shown'[v]
        PROVE  /\ x \in Existing \/ (x = NoSession /\ Closing(NoSession))
               /\ x \notin reopened => now >= End(x)
    BY <1>2, <1>3 DEF ShownOK
  <2> QED BY <1>1, <2>1 DEF ShownOK, Existing, Closing, End
<1>6. WindowsOK' /\ StartsOK' /\ FormOK'
  BY <1>1 DEF WindowsOK, StartsOK, FormOK, Existing
<1> QED BY <1>4, <1>5, <1>6

\* The clock runs on, and the end of a window stays behind it.
LEMMA TickKeeps ==
    ASSUME ReleaseInv, Tick
    PROVE  ReleaseInv'
<1> USE WindowTypes DEF ReleaseInv
<1>1. UNCHANGED <<exam, session, attempt, starting, form, edits, shown, reopened>>
      /\ now' = now + 1 /\ now \in Time /\ now < MaxTime
  BY DEF Tick, ReleaseTypeOK
<1>2. now' \in Time /\ now \in Nat
  BY <1>1, ReleaseAssumption DEF Time
<1>3. ReleaseTypeOK'
  BY <1>1, <1>2 DEF ReleaseTypeOK
<1>4. \A s \in Sessions : session[s].closes \in Nat
  BY DEF ReleaseTypeOK, SessionRow
<1>5. WindowsOK' /\ FormOK'
  BY <1>1, <1>2, <1>4 DEF WindowsOK, FormOK, Existing
<1>6. StartsOK'
  <2>1. ASSUME NEW u \in Students, starting[u].window # NoSession
        PROVE  session[starting[u].window].closes \in Nat
    BY <1>4, <2>1 DEF StartsOK, Existing
  <2> QED BY <1>1, <1>2, <2>1 DEF StartsOK, Existing
<1>7. ShownOK'
  <2>1. ASSUME NEW u \in Students, NEW w \in shown[u], w \notin reopened
        PROVE  now' >= End(w)
    <3>1. End(w) \in Nat /\ now >= End(w)
      BY <1>4, <2>1 DEF ShownOK, End, Existing, Closing, ReleaseTypeOK, ExamRow
    <3> QED BY <1>1, <1>2, <3>1
  <2> QED BY <1>1, <2>1 DEF ShownOK, Existing, Closing, End
<1> QED BY <1>3, <1>5, <1>6, <1>7

-----------------------------------------------------------------------------
(* ExamRelease: what administrators do *)

\* Starts on their way and solutions seen stand as long as sessions stay and
\* none that counts is put off.
LEMMA AdminKeeps ==
    ASSUME ReleaseInv, ReleaseTypeOK', UNCHANGED <<now, starting>>, Existing \subseteq Existing',
           reopened \ {NoSession} \subseteq reopened',
           \A s \in Existing \ reopened' : session'[s].closes <= session[s].closes
    PROVE  /\ \A u \in Students :
                LET r == starting'[u] IN
                /\ r.window \in Existing' \cup {NoSession}
                /\ r.step = "refresh" =>
                      /\ r.window # NoSession /\ r.row.status # "none"
                      /\ r.row.status = "completed" /\ r.window \notin reopened' =>
                            now' > session'[r.window].closes
           /\ \A u \in Students : \A w \in shown[u] \ {NoSession} :
                 w \in Existing' /\ (w \notin reopened' => now' >= End(w)')
<1> USE WindowTypes DEF ReleaseInv
<1>1. now \in Nat /\ Existing \subseteq Sessions
      /\ \A s \in Sessions : session[s].closes \in Nat /\ session'[s].closes \in Nat
  BY DEF ReleaseTypeOK, SessionRow, Existing
<1>2. ASSUME NEW u \in Students
      PROVE  LET r == starting[u] IN
             /\ r.window \in Existing' \cup {NoSession}
             /\ r.step = "refresh" =>
                   /\ r.window # NoSession /\ r.row.status # "none"
                   /\ r.row.status = "completed" /\ r.window \notin reopened' =>
                         now > session'[r.window].closes
  <2> DEFINE r == starting[u]
  <2>1. /\ r.window \in Existing \cup {NoSession}
        /\ r.step = "refresh" =>
                /\ r.window # NoSession /\ r.row.status # "none"
                /\ r.row.status = "completed" /\ r.window \notin reopened =>
                      now > session[r.window].closes
    BY DEF StartsOK
  <2> HIDE DEF r
  <2>2. ASSUME r.step = "refresh", r.row.status = "completed", r.window \notin reopened'
        PROVE  now > session'[r.window].closes
    <3>1. r.window \in Existing /\ r.window \notin reopened
      BY <2>1, <2>2
    <3>2. session'[r.window].closes <= session[r.window].closes
      BY <2>2, <3>1
    <3> QED BY <1>1, <2>1, <2>2, <3>1, <3>2
  <2> QED BY <2>1, <2>2 DEF r
<1>3. ASSUME NEW u \in Students, NEW w \in shown[u] \ {NoSession}
      PROVE  w \in Existing' /\ (w \notin reopened' => now >= End(w)')
  <2>1. w \in Existing /\ (w \notin reopened => now >= End(w))
    BY <1>3 DEF ShownOK
  <2>2. End(w) = session[w].closes /\ End(w)' = session'[w].closes
    BY <1>3 DEF End
  <2> QED BY <1>1, <2>1, <2>2
<1> QED BY <1>2, <1>3

LEMMA CancelKeeps ==
    ASSUME ReleaseInv, NEW s \in Sessions, Cancel(s)
    PROVE  ReleaseInv'
<1> USE WindowTypes DEF ReleaseInv
<1>1. UNCHANGED <<now, exam, attempt, starting, form, shown, reopened>>
      /\ session' = [session EXCEPT ![s].status = "cancelled"] /\ edits' \in 0 .. MaxEdits
  BY ReleaseAssumption DEF Cancel, AdminActs, ReleaseTypeOK
<1>2. \A t \in Sessions :
        /\ session'[t] \in SessionRow
        /\ session'[t].closes = session[t].closes /\ session'[t].released = session[t].released
        /\ session'[t].status = IF t = s THEN "cancelled" ELSE session[t].status
        /\ session[t].closes \in Nat
  BY <1>1 DEF ReleaseTypeOK, SessionRow, Statuses
<1>3. ReleaseTypeOK'
  BY <1>1, <1>2 DEF ReleaseTypeOK
<1>4. session[s].status # "none" /\ Existing' = Existing
  BY <1>2 DEF Cancel, Existing
<1>5. WindowsOK' /\ FormOK'
  BY <1>1, <1>2, <1>4 DEF WindowsOK, FormOK
<1>6. \A t \in Existing : session'[t].closes <= session[t].closes
  BY <1>2 DEF Existing
<1>7. StartsOK' /\ ShownOK'
  BY <1>1, <1>3, <1>4, <1>6, AdminKeeps DEF StartsOK, ShownOK, Closing, End
<1> QED BY <1>3, <1>5, <1>7

LEMMA ReleaseKeeps ==
    ASSUME ReleaseInv, NEW w \in Windows, ReleaseSolutions(w)
    PROVE  ReleaseInv'
<1> USE WindowTypes DEF ReleaseInv
<1>1. UNCHANGED <<now, attempt, starting, form, shown>> /\ reopened' = reopened \cup {w}
      /\ edits' \in 0 .. MaxEdits
  BY ReleaseAssumption DEF ReleaseSolutions, AdminActs, ReleaseTypeOK
<1>2. /\ exam' \in ExamRow /\ exam'.kind = exam.kind /\ exam'.closes = exam.closes
      /\ exam'.adopted = exam.adopted /\ (exam'.released => exam.released \/ w = NoSession)
  BY DEF ReleaseSolutions, ReleaseTypeOK, ExamRow
<1>3. \A t \in Sessions :
        /\ session'[t] \in SessionRow
        /\ session'[t].closes = session[t].closes /\ session'[t].status = session[t].status
        /\ t # w => session'[t].released = session[t].released
        /\ session[t].closes \in Nat
  <2>1. session \in [Sessions -> SessionRow]
    BY DEF ReleaseTypeOK
  <2>2. CASE UNCHANGED session
    BY <2>1, <2>2 DEF SessionRow
  <2>3. CASE session' = [session EXCEPT ![w].released = TRUE]
    BY <2>1, <2>3 DEF SessionRow
  <2> QED BY <2>2, <2>3 DEF ReleaseSolutions
<1>4. session' \in [Sessions -> SessionRow]
  BY <1>3 DEF ReleaseSolutions, ReleaseTypeOK
<1>5. ReleaseTypeOK'
  BY <1>1, <1>2, <1>4 DEF ReleaseTypeOK
<1>6. Existing' = Existing
  BY <1>3 DEF Existing
<1>7. WindowsOK' /\ FormOK'
  BY <1>1, <1>2, <1>3, <1>6 DEF WindowsOK, FormOK
<1>8. \A t \in Existing : session'[t].closes <= session[t].closes
  BY <1>3 DEF Existing
<1>9. StartsOK' /\ ShownOK'
  BY <1>1, <1>2, <1>5, <1>6, <1>8, AdminKeeps DEF StartsOK, ShownOK, Closing, End
<1> QED BY <1>5, <1>7, <1>9

LEMMA FormsKeep ==
    ASSUME ReleaseInv, BeginEditExam \/ \E s \in Sessions : BeginEditSession(s)
    PROVE  ReleaseInv'
<1> USE WindowTypes DEF ReleaseInv
<1>1. UNCHANGED <<now, exam, session, attempt, starting, shown, reopened>>
      /\ edits' \in 0 .. MaxEdits
  BY ReleaseAssumption DEF BeginEditExam, BeginEditSession, AdminActs, ReleaseTypeOK
<1>2. FormOK' /\ form' \in [of : Windows, row : SessionRow \cup ExamRow]
  <2>1. CASE BeginEditExam
    <3>1. form' = [of |-> NoSession, row |-> exam] /\ exam \in ExamRow
      BY <2>1 DEF BeginEditExam, ReleaseTypeOK
    <3> QED BY <1>1, <3>1 DEF FormOK, Windows, WindowsOK, Existing
  <2>2. ASSUME NEW s \in Sessions, BeginEditSession(s)
        PROVE  <1>2
    <3>1. form' = [of |-> s, row |-> session[s]] /\ session[s] \in SessionRow
          /\ s \in Existing /\ session[s].status # "completed" /\ s # NoSession
      BY <2>2 DEF BeginEditSession, Editable, ReleaseTypeOK
    <3>2. session[s].released => s \in reopened
      BY DEF WindowsOK
    <3> QED BY <1>1, <3>1, <3>2 DEF FormOK, Windows, Existing
  <2> QED BY <2>1, <2>2
<1>3. ReleaseTypeOK'
  BY <1>1, <1>2 DEF ReleaseTypeOK
<1>4. WindowsOK' /\ StartsOK' /\ ShownOK'
  BY <1>1 DEF WindowsOK, StartsOK, ShownOK, Existing, Closing, End
<1> QED BY <1>2, <1>3, <1>4

LEMMA SaveSessionKeeps ==
    ASSUME ReleaseInv, SaveSession
    PROVE  ReleaseInv'
<1> USE WindowTypes DEF ReleaseInv
<1> DEFINE s == form.of
<1>1. UNCHANGED <<now, exam, attempt, starting, edits, shown>> /\ form # NoForm /\ form' = NoForm
      /\ s # NoSession
  BY DEF SaveSession
<1>2. /\ s \in Existing /\ s \in Sessions /\ form.row \in SessionRow
      /\ form.row.status \notin {"none", "completed"}
      /\ form.row.released => s \in reopened
  BY <1>1 DEF FormOK, Existing
<1>3. PICK span \in Spans :
        /\ session' = [session EXCEPT ![s] =
              [form.row EXCEPT !.opens = span[1], !.closes = span[2]]]
        /\ reopened' = IF span[2] > session[s].closes THEN reopened \cup {s} ELSE reopened
  BY DEF SaveSession
<1>4. span[1] \in Nat /\ span[2] \in Nat
  BY DEF Spans
<1> DEFINE new == [form.row EXCEPT !.opens = span[1], !.closes = span[2]]
<1>5. /\ new \in SessionRow /\ new.status = form.row.status
      /\ new.released = form.row.released /\ new.closes = span[2]
  BY <1>2, <1>4 DEF SessionRow
<1>6. session \in [Sessions -> SessionRow] /\ session' = [session EXCEPT ![s] = new]
  BY <1>3 DEF ReleaseTypeOK
<1> HIDE DEF new, s
<1>7. \A t \in Sessions : session'[t] = IF t = s THEN new ELSE session[t]
  BY <1>6
<1>8. reopened \subseteq reopened' /\ reopened' \subseteq reopened \cup {s} /\ s \in Windows
  BY <1>2, <1>3 DEF Windows
<1>9. ReleaseTypeOK'
  BY <1>1, <1>5, <1>6, <1>8 DEF ReleaseTypeOK
<1>10. Existing' = Existing
  BY <1>2, <1>5, <1>7 DEF Existing
<1>11. WindowsOK'
  <2>1. \A t \in Sessions \ reopened' :
          ~session'[t].released /\ (session'[t].status = "completed" => now > session'[t].closes)
    BY <1>2, <1>5, <1>7, <1>8 DEF WindowsOK
  <2> QED BY <1>1, <1>2, <1>8, <1>10, <2>1 DEF WindowsOK
<1>12. \A t \in Existing \ reopened' : session'[t].closes <= session[t].closes
  <2>1. \A t \in Sessions : session[t].closes \in Nat
    BY <1>6 DEF SessionRow
  <2>2. s \notin reopened' => span[2] <= session[s].closes
    BY <1>2, <1>3, <1>4, <2>1
  <2> QED BY <1>5, <1>7, <2>1, <2>2 DEF Existing
<1>13. StartsOK'
  BY <1>1, <1>8, <1>9, <1>10, <1>12, AdminKeeps DEF StartsOK
<1>14. ShownOK'
  <2>1. NoSession \in reopened' <=> NoSession \in reopened
    BY <1>1, <1>8 DEF s
  <2> QED BY <1>1, <1>8, <1>9, <1>10, <1>12, <2>1, AdminKeeps DEF ShownOK, Closing, End
<1> QED BY <1>1, <1>9, <1>11, <1>13, <1>14 DEF FormOK

LEMMA SaveExamKeeps ==
    ASSUME ReleaseInv, SaveExam
    PROVE  ReleaseInv'
<1> USE WindowTypes DEF ReleaseInv
<1>1. UNCHANGED <<now, session, attempt, starting, edits, shown>> /\ form # NoForm /\ form' = NoForm
      /\ form.of = NoSession
      /\ reopened' = IF exam'.closes # exam.closes THEN reopened \cup {NoSession} ELSE reopened
  BY DEF SaveExam
<1> DEFINE row == form.row
<1>2. /\ row \in ExamRow /\ row.kind = exam.kind /\ row.closes = exam.closes
      /\ row.adopted => exam.adopted
      /\ row.released => NoSession \in reopened \/ Existing # {}
  BY <1>1 DEF FormOK
<1>3. /\ exam' \in ExamRow /\ exam'.kind = row.kind /\ exam'.adopted = row.adopted
      /\ exam'.released = row.released
      /\ exam'.closes = row.closes \/ exam'.closes \in Nat
  <2>1. CASE \E b \in BOOLEAN : exam' = [row EXCEPT !.draft = b]
    BY <1>2, <2>1 DEF ExamRow
  <2>2. CASE \E b \in BOOLEAN : exam' = [row EXCEPT !.manual = b]
    BY <1>2, <2>2 DEF ExamRow
  <2>3. CASE \E span \in Spans : exam' = [row EXCEPT !.opens = span[1], !.closes = span[2]]
    <3>1. PICK span \in Spans : exam' = [row EXCEPT !.opens = span[1], !.closes = span[2]]
      BY <2>3
    <3>2. span[1] \in Time /\ span[2] \in Time
      BY DEF Spans
    <3> QED BY <1>2, <3>1, <3>2 DEF ExamRow
  <2> QED BY <2>1, <2>2, <2>3 DEF SaveExam
<1> HIDE DEF row
<1>4. reopened \subseteq reopened' /\ reopened' \subseteq reopened \cup {NoSession}
  BY <1>1
<1>5. ReleaseTypeOK'
  BY <1>1, <1>3, <1>4 DEF ReleaseTypeOK, Windows
<1>6. Existing' = Existing
  BY <1>1 DEF Existing
<1>7. WindowsOK'
  BY <1>1, <1>2, <1>3, <1>4, <1>6 DEF WindowsOK
<1>8. \A t \in Existing : session'[t].closes <= session[t].closes
  BY <1>1 DEF ReleaseTypeOK, SessionRow, Existing
<1>9. StartsOK'
  BY <1>1, <1>4, <1>5, <1>6, <1>8, AdminKeeps DEF StartsOK
<1>10. ASSUME NEW u \in Students, NoSession \in shown[u]
       PROVE  Closing(NoSession)' /\ (NoSession \notin reopened' => now >= exam'.closes)
  <2>1. Closing(NoSession) /\ (NoSession \notin reopened => now >= exam.closes)
    BY <1>10 DEF ShownOK, Existing, End
  <2>2. Closing(NoSession)'
    BY <1>2, <1>3, <1>6, <2>1 DEF Closing
  <2> QED BY <1>1, <1>2, <1>3, <1>4, <2>1, <2>2
<1>11. ShownOK'
  BY <1>1, <1>4, <1>5, <1>6, <1>8, <1>10, AdminKeeps DEF ShownOK, End
<1> QED BY <1>1, <1>5, <1>7, <1>9, <1>11 DEF FormOK

\* The window that an adoption turns into session s, in a set of windows.
MovedTo(s, ws) ==
    IF NoSession \in ws /\ Closing(NoSession) THEN (ws \ {NoSession}) \cup {s} ELSE ws

\* A reschedule leaves the sessions there are, and adds one that has just
\* begun to be scheduled or the one that stands for the window of the exam.
LEMMA RescheduleMeans ==
    ASSUME ReleaseInv, Reschedule
    PROVE  \E first, s \in Sessions :
             /\ \/ exam.adopted /\ UNCHANGED <<exam, attempt, shown, reopened>>
                \/ /\ ~exam.adopted /\ first \notin Existing /\ session'[first] = Backfilled
                   /\ exam' = [exam EXCEPT !.adopted = TRUE, !.draft = TRUE]
                   /\ attempt' = [a \in Attempts |->
                          IF attempt[a].status # "none" /\ attempt[a].window = NoSession
                          THEN [attempt[a] EXCEPT !.window = first] ELSE attempt[a]]
                   /\ shown' = [u \in Students |-> MovedTo(first, shown[u])]
                   /\ reopened' = MovedTo(first, reopened)
             /\ \A t \in Existing \cup (Sessions \ {first, s}) : session'[t] = session[t]
             /\ \A t \in Sessions \ Existing :
                   \/ session'[t] = session[t]
                   \/ session'[t] = Backfilled
                   \/ /\ session'[t] \in SessionRow /\ session'[t].status = "scheduled"
                      /\ ~session'[t].released
             /\ session' \in [Sessions -> SessionRow]
<1> USE WindowTypes DEF ReleaseInv
<1>1. PICK s, first \in Sessions, span \in Spans, copy \in BOOLEAN :
          /\ span[1] >= now /\ s # first /\ session[s].status = "none"
          /\ \/ Adopt(first)
             \/ exam.adopted /\ UNCHANGED <<exam, attempt, shown, reopened>>
          /\ session' = [t \in Sessions |->
                CASE t = first /\ ~exam.adopted -> Backfilled
                  [] t = s /\ ~copy ->
                        [NoRow EXCEPT !.status = "scheduled",
                                      !.opens = span[1], !.closes = span[2]]
                  [] OTHER -> session[t]]
  BY DEF Reschedule
<1> DEFINE new == [NoRow EXCEPT !.status = "scheduled", !.opens = span[1], !.closes = span[2]]
<1>2. new \in SessionRow /\ new.status = "scheduled" /\ ~new.released
  BY DEF NoRow, SessionRow, Statuses, Spans
<1> HIDE DEF new
<1>3. session \in [Sessions -> SessionRow] /\ exam \in ExamRow /\ now \in Nat
  BY DEF ReleaseTypeOK
<1>4. \A t \in Sessions :
         session'[t] = IF t = first /\ ~exam.adopted THEN Backfilled
                       ELSE IF t = s /\ ~copy THEN new ELSE session[t]
  BY <1>1 DEF new
<1>5. ~exam.adopted => first \notin Existing
  BY <1>1 DEF Adopt, Existing
<1>6. s \notin Existing
  BY <1>1 DEF Existing
<1>7. session' \in [Sessions -> SessionRow]
  <2>1. \A t \in Sessions : session'[t] \in SessionRow
    BY <1>2, <1>3, <1>4, BackfilledRow
  <2> QED BY <1>1, <2>1
<1>8. /\ exam.adopted \/ Adopt(first)
      /\ \A t \in Existing \cup (Sessions \ {first, s}) : session'[t] = session[t]
      /\ \A t \in Sessions \ Existing :
            \/ session'[t] = session[t]
            \/ session'[t] = Backfilled
            \/ /\ session'[t] \in SessionRow /\ session'[t].status = "scheduled"
               /\ ~session'[t].released
  BY <1>1, <1>2, <1>4, <1>5, <1>6 DEF Existing
<1>9. CASE exam.adopted
  BY <1>1, <1>7, <1>8, <1>9 DEF Adopt
<1>10. CASE ~exam.adopted
  <2>1. Adopt(first) /\ session'[first] = Backfilled
    BY <1>1, <1>4, <1>10
  <2>2. /\ shown' = [u \in Students |-> MovedTo(first, shown[u])]
        /\ reopened' = MovedTo(first, reopened)
    BY <2>1 DEF Adopt, MovedTo
  <2>3. /\ exam' = [exam EXCEPT !.adopted = TRUE, !.draft = TRUE]
        /\ attempt' = [a \in Attempts |->
                          IF attempt[a].status # "none" /\ attempt[a].window = NoSession
                          THEN [attempt[a] EXCEPT !.window = first] ELSE attempt[a]]
    BY <2>1 DEF Adopt
  <2> QED BY <1>1, <1>5, <1>7, <1>8, <1>10, <2>1, <2>2, <2>3
<1> QED BY <1>9, <1>10

LEMMA RescheduleKeeps ==
    ASSUME ReleaseInv, Reschedule
    PROVE  ReleaseInv'
<1> USE WindowTypes DEF ReleaseInv
<1>1. UNCHANGED <<now, starting, form>> /\ edits' \in 0 .. MaxEdits
  BY ReleaseAssumption DEF Reschedule, AdminActs, ReleaseTypeOK
<1>2. PICK first, s \in Sessions :
         /\ \/ exam.adopted /\ UNCHANGED <<exam, attempt, shown, reopened>>
            \/ /\ ~exam.adopted /\ first \notin Existing /\ session'[first] = Backfilled
               /\ exam' = [exam EXCEPT !.adopted = TRUE, !.draft = TRUE]
               /\ attempt' = [a \in Attempts |->
                      IF attempt[a].status # "none" /\ attempt[a].window = NoSession
                      THEN [attempt[a] EXCEPT !.window = first] ELSE attempt[a]]
               /\ shown' = [u \in Students |-> MovedTo(first, shown[u])]
               /\ reopened' = MovedTo(first, reopened)
         /\ \A t \in Existing \cup (Sessions \ {first, s}) : session'[t] = session[t]
         /\ \A t \in Sessions \ Existing :
               \/ session'[t] = session[t]
               \/ session'[t] = Backfilled
               \/ /\ session'[t] \in SessionRow /\ session'[t].status = "scheduled"
                  /\ ~session'[t].released
         /\ session' \in [Sessions -> SessionRow]
  BY RescheduleMeans
<1> DEFINE adopts == ~exam.adopted
<1>3. /\ exam \in ExamRow /\ now \in Nat /\ attempt \in [Attempts -> AttemptRow]
      /\ shown \in [Students -> SUBSET Windows] /\ reopened \subseteq Windows
      /\ session \in [Sessions -> SessionRow]
  BY DEF ReleaseTypeOK
<1>4. /\ exam' \in ExamRow /\ exam'.kind = exam.kind /\ exam'.closes = exam.closes
      /\ exam'.adopted /\ exam'.released = exam.released
  BY <1>2, <1>3 DEF ExamRow
<1>5. Existing \subseteq Existing' /\ (adopts => first \in Existing') /\ Existing' # {}
  <2>1. Existing \subseteq Existing'
    BY <1>2 DEF Existing
  <2>2. adopts => first \in Existing'
    BY <1>2, <1>3, BackfilledRow DEF Existing
  <2>3. ~adopts => Existing # {}
    BY DEF WindowsOK
  <2> QED BY <2>1, <2>2, <2>3
<1>6. \A ws \in SUBSET Windows : MovedTo(first, ws) \in SUBSET Windows
  BY DEF MovedTo, Windows
<1>7. /\ attempt' \in [Attempts -> AttemptRow]
      /\ \A a \in Attempts : /\ attempt'[a].window \in Existing' \cup {NoSession}
                             /\ attempt'[a].status # "none" => attempt'[a].owner \in Students
  <2>1. \A a \in Attempts : /\ attempt[a].window \in Existing \cup {NoSession}
                            /\ attempt[a].status # "none" => attempt[a].owner \in Students
    BY DEF StartsOK
  <2>2. CASE ~adopts
    BY <1>2, <1>3, <1>5, <2>1, <2>2
  <2>3. CASE adopts
    <3>1. ASSUME NEW a \in Attempts
          PROVE  /\ [attempt[a] EXCEPT !.window = first] \in AttemptRow
                 /\ [attempt[a] EXCEPT !.window = first].window = first
                 /\ [attempt[a] EXCEPT !.window = first].status = attempt[a].status
                 /\ [attempt[a] EXCEPT !.window = first].owner = attempt[a].owner
      <4>1. attempt[a] \in AttemptRow
        BY <1>3, <3>1
      <4> QED BY <4>1 DEF AttemptRow, Windows
    <3>2. attempt' = [a \in Attempts |->
                        IF attempt[a].status # "none" /\ attempt[a].window = NoSession
                        THEN [attempt[a] EXCEPT !.window = first] ELSE attempt[a]]
          /\ first \in Existing'
      BY <1>2, <1>5, <2>3
    <3> QED BY <1>3, <1>5, <2>1, <3>1, <3>2
  <2> QED BY <2>2, <2>3
<1>8. shown' \in [Students -> SUBSET Windows] /\ reopened' \subseteq Windows
  BY <1>2, <1>3, <1>6
<1>9. ReleaseTypeOK'
  BY <1>1, <1>2, <1>4, <1>7, <1>8 DEF ReleaseTypeOK
<1>10. reopened \ {NoSession} \subseteq reopened'
  BY <1>2 DEF MovedTo
<1>11. WindowsOK'
  <2>1. ASSUME NEW t \in Sessions \ reopened'
        PROVE  ~session'[t].released /\ (session'[t].status = "completed" => now > session'[t].closes)
    <3>1. ~session[t].released /\ (session[t].status = "completed" => now > session[t].closes)
      BY <1>10, <2>1 DEF WindowsOK
    <3> QED BY <1>2, <1>3, <2>1, <3>1, BackfilledRow
  <2> QED BY <1>1, <1>4, <1>5, <2>1 DEF WindowsOK
<1>12. \A t \in Existing : session'[t].closes <= session[t].closes
  BY <1>2, <1>3 DEF SessionRow, Existing
<1>13. StartsOK'
  BY <1>1, <1>5, <1>7, <1>9, <1>10, <1>12, AdminKeeps DEF StartsOK
<1>14. FormOK'
  <2>1. CASE form.of = NoSession
    BY <1>1, <1>4, <1>5, <2>1 DEF FormOK
  <2>2. CASE form.of # NoSession
    BY <1>1, <1>5, <1>10, <2>2 DEF FormOK
  <2> QED BY <2>1, <2>2
<1>15. ShownOK'
  <2>1. ASSUME NEW u \in Students, NEW w \in shown'[u]
        PROVE  w \in Existing' /\ (w \notin reopened' => now >= End(w)')
    <3>1. CASE w \in shown[u] /\ w # NoSession
      BY <1>1, <1>5, <1>9, <1>10, <1>12, <3>1, AdminKeeps
    <3>2. NoSession \in shown[u] => Existing = {} /\ Closing(NoSession)
      BY DEF ShownOK, Closing, Existing
    <3>3. CASE ~(w \in shown[u] /\ w # NoSession)
      <4>1. adopts
        BY <1>2, <2>1, <3>2, <3>3 DEF WindowsOK
      <4>2. NoSession \in shown[u] /\ Closing(NoSession) /\ w = first
        BY <1>2, <2>1, <3>2, <3>3, <4>1 DEF MovedTo
      <4>3. exam.closes # NoTime /\ exam.closes \in Nat
        BY <1>3, <4>2 DEF Closing, ExamRow
      <4>4. ASSUME w \notin reopened'
            PROVE  now >= session'[first].closes
        <5>1. session'[first].closes = exam.closes
          BY <1>2, <1>3, <4>1, <4>3, BackfilledRow
        <5>2. NoSession \notin reopened
          BY <1>2, <4>1, <4>2, <4>4 DEF MovedTo
        <5>3. now >= End(NoSession) /\ End(NoSession) = exam.closes
          BY <2>1, <4>2, <5>2 DEF ShownOK, End
        <5> QED BY <5>1, <5>3
      <4>5. w \in Existing'
        BY <1>5, <4>1, <4>2
      <4>6. w # NoSession
        BY <4>2
      <4> QED BY <4>2, <4>4, <4>5, <4>6 DEF End
    <3> QED BY <3>1, <3>3
  <2> QED BY <1>1, <2>1 DEF ShownOK
<1> QED BY <1>9, <1>11, <1>13, <1>14, <1>15

LEMMA ReleaseInvKept ==
    ASSUME ReleaseInv, [ReleaseNext]_releaseVars
    PROVE  ReleaseInv'
<1>1. CASE \E u \in Students : BeginStart(u) \/ SaveStatus(u)
  BY <1>1, BeginStartKeeps, SaveStatusKeeps
<1>2. CASE (\E u \in Students : InsertAttempt(u)) \/ \E a \in Attempts : Finalize(a)
  BY <1>2, AttemptsKeep DEF InsertAttempt, Finalize
<1>3. CASE (\E u \in Students : ViewMissed(u)) \/ \E a \in Attempts : ViewResult(a)
  BY <1>3, ViewsKeep
<1>4. CASE \E s \in Sessions : Cancel(s)
  BY <1>4, CancelKeeps
<1>5. CASE \E w \in Windows : ReleaseSolutions(w)
  BY <1>5, ReleaseKeeps
<1>6. CASE BeginEditExam \/ \E s \in Sessions : BeginEditSession(s)
  BY <1>6, FormsKeep
<1>7. CASE SaveSession \/ SaveExam \/ Reschedule \/ Tick
  BY <1>7, SaveSessionKeeps, SaveExamKeeps, RescheduleKeeps, TickKeeps
<1>8. CASE UNCHANGED releaseVars
  BY <1>8 DEF ReleaseInv, ReleaseTypeOK, WindowsOK, StartsOK, FormOK, ShownOK,
              Existing, Closing, End, releaseVars
<1> QED BY <1>1, <1>2, <1>3, <1>4, <1>5, <1>6, <1>7, <1>8 DEF ReleaseNext

\* Sessions and their ends, what starts and forms will write and what was shown
\* agree at every step of ExamSessionViewSet, create_reschedule_session and the
\* start, for any number of students, attempts and sessions.
THEOREM ReleaseInvHolds == ReleaseSpec => []ReleaseInv
  BY ReleaseInitially, ReleaseInvKept, PTL DEF ReleaseSpec

\* Nobody can answer in a window that has come to its end.
LEMMA EndStops ==
    ASSUME ReleaseInv, NEW b \in Attempts, Closing(attempt[b].window),
           now >= End(attempt[b].window)
    PROVE  ~CanAnswer(b)
<1> USE WindowTypes
<1> DEFINE w == attempt[b].window
<1>1. attempt[b].start \in Nat /\ now \in Nat /\ w \in Windows
  BY DEF ReleaseInv, ReleaseTypeOK, AttemptRow
<1>2. End(w) \in Nat
  BY <1>1 DEF ReleaseInv, ReleaseTypeOK, End, Closing, SessionRow, ExamRow, Windows
<1>3. Deadline(b) = IF End(w) < attempt[b].start + Duration
                    THEN End(w) ELSE attempt[b].start + Duration
  BY <1>2 DEF Deadline, End, Closing
<1>4. now >= Deadline(b)
  BY <1>1, <1>2, <1>3
<1> QED BY <1>4 DEF CanAnswer, Expired

\* Solutions that the schedule releases (can_view_solutions) are released when
\* no attempt in the window can be answered (is_attempt_expired), for any
\* sessions, edits and adoptions.
THEOREM AnswersBeforeSolutionsHolds == ReleaseSpec => []AnswersBeforeSolutions
<1>1. ReleaseInv => AnswersBeforeSolutions
  <2> SUFFICES ASSUME ReleaseInv, NEW a \in Attempts, NEW b \in Attempts,
                      attempt[b].window = attempt[a].window, Closing(attempt[a].window), ~exam.manual,
                      exam.kind = "grand" \/ attempt[a].window \notin reopened,
                      NEW g \in Governing, Solutions(a, g)
               PROVE  ~CanAnswer(b)
    BY DEF AnswersBeforeSolutions
  <2>1. now >= End(attempt[a].window)
    BY SolutionsMeanEnd
  <2> QED BY <2>1, EndStops
<1> QED BY <1>1, ReleaseInvHolds, PTL

\* A student who has seen the solutions of a window cannot sit there afterwards,
\* although the start checks the window before it inserts the attempt.
THEOREM NeverSitsAfterSolutionsHolds == ReleaseSpec => []NeverSitsAfterSolutions
<1>1. ReleaseInv => NeverSitsAfterSolutions
  <2> SUFFICES ASSUME ReleaseInv, NEW b \in Attempts, CanAnswer(b), Closing(attempt[b].window),
                      attempt[b].window \notin reopened,
                      attempt[b].window \in shown[attempt[b].owner]
               PROVE  FALSE
    BY DEF NeverSitsAfterSolutions
  <2>1. attempt[b].owner \in Students
    BY DEF ReleaseInv, StartsOK, CanAnswer
  <2>2. now >= End(attempt[b].window)
    BY <2>1 DEF ReleaseInv, ShownOK
  <2> QED BY <2>2, EndStops
<1> QED BY <1>1, ReleaseInvHolds, PTL

\* Only a reschedule adopts the exam: a form that would write adopted back has
\* read it.
LEMMA AdoptsByReschedule ==
    ASSUME ReleaseInv, ReleaseNext, ~exam.adopted, exam'.adopted
    PROVE  Reschedule
<1> USE DEF ReleaseInv
<1>1. exam' # exam
  OBVIOUS
<1>2. CASE \E w \in Windows : ReleaseSolutions(w)
  BY <1>1, <1>2 DEF ReleaseSolutions, ReleaseTypeOK, ExamRow
<1>3. CASE SaveExam
  <2> DEFINE row == form.row
  <2>1. row \in ExamRow /\ ~row.adopted
    BY <1>3 DEF SaveExam, FormOK
  <2>2. exam'.adopted = row.adopted
    BY <1>3, <2>1 DEF SaveExam, ExamRow
  <2> QED BY <2>1, <2>2
<1> QED BY <1>1, <1>2, <1>3
        DEF ReleaseNext, BeginStart, SaveStatus, InsertAttempt, ViewMissed, Finalize, ViewResult,
            Cancel, BeginEditSession, SaveSession, BeginEditExam, Tick

\* The adoption of an exam (adopt_test_into_template) moves its attempts into a
\* session without a change to their deadlines, or to the solutions of a Grand
\* Test that were released.
THEOREM AdoptionKeepsRightsHolds == ReleaseSpec => AdoptionKeepsRights
<1>1. ASSUME ReleaseInv, ReleaseNext, ~exam.adopted, exam'.adopted, exam.closes # NoTime,
             exam.kind \in {"grand", "daily"}, NEW a \in Attempts
      PROVE  /\ attempt[a].status = "in_progress" => Deadline(a)' = Deadline(a)
             /\ /\ exam.kind = "grand" /\ ~exam.manual
                /\ attempt[a].window = NoSession /\ Governing = {NoSession}
                /\ Solutions(a, NoSession)
                => \E g \in Governing' : Solutions(a, g)'
  <2> USE WindowTypes DEF ReleaseInv
  <2>1. Reschedule
    BY <1>1, AdoptsByReschedule
  <2>2. PICK first, s \in Sessions :
          /\ first \notin Existing /\ session'[first] = Backfilled
          /\ exam' = [exam EXCEPT !.adopted = TRUE, !.draft = TRUE]
          /\ attempt' = [b \in Attempts |->
                 IF attempt[b].status # "none" /\ attempt[b].window = NoSession
                 THEN [attempt[b] EXCEPT !.window = first] ELSE attempt[b]]
          /\ \A t \in Existing \cup (Sessions \ {first, s}) : session'[t] = session[t]
    BY <1>1, <2>1, RescheduleMeans
  <2>3. UNCHANGED now
    BY <2>1 DEF Reschedule
  <2>4. /\ exam \in ExamRow /\ now \in Nat /\ attempt[a] \in AttemptRow
        /\ session \in [Sessions -> SessionRow]
    BY <1>1 DEF ReleaseTypeOK
  <2>5. /\ exam'.kind = exam.kind /\ exam'.manual = exam.manual /\ exam'.closes = exam.closes
    BY <2>2, <2>4 DEF ExamRow
  <2>6. Backfilled.closes = exam.closes /\ Backfilled.status \notin {"none", "cancelled"}
    BY <1>1, <2>4, BackfilledRow
  <2>7. /\ attempt'[a].start = attempt[a].start /\ attempt'[a].status = attempt[a].status
        /\ attempt'[a].window = IF attempt[a].status # "none" /\ attempt[a].window = NoSession
                                THEN first ELSE attempt[a].window
    BY <1>1, <2>2, <2>4 DEF AttemptRow
  <2>8. attempt[a].window \in Existing \cup {NoSession}
    BY <1>1 DEF StartsOK
  <2>9. ASSUME attempt[a].status = "in_progress"
        PROVE  Deadline(a)' = Deadline(a)
    <3>1. CASE attempt[a].window = NoSession
      <4>1. attempt'[a].window = first /\ first # NoSession /\ session'[first].closes = exam.closes
        BY <2>2, <2>6, <2>7, <2>9, <3>1
      <4> QED BY <1>1, <2>7, <3>1, <4>1 DEF Deadline
    <3>2. CASE attempt[a].window # NoSession
      <4>1. attempt'[a].window = attempt[a].window
            /\ session'[attempt[a].window] = session[attempt[a].window]
        BY <2>2, <2>7, <2>8, <3>2
      <4> QED BY <2>7, <3>2, <4>1 DEF Deadline
    <3> QED BY <3>1, <3>2
  <2>10. ASSUME exam.kind = "grand", ~exam.manual, attempt[a].window = NoSession,
                Governing = {NoSession}, Solutions(a, NoSession)
         PROVE  \E g \in Governing' : Solutions(a, g)'
    <3>1. attempt'[a].window = first /\ first # NoSession /\ attempt'[a].status = "submitted"
      BY <2>7, <2>10 DEF Solutions
    <3>2. ReviewOpens(NoSession, NoSession) = exam.closes /\ now >= exam.closes
      BY <1>1, <2>10 DEF Solutions, ReviewOpens
    <3>3. ASSUME NEW g
          PROVE  Solutions(a, g)'
      <4>1. ReviewOpens(first, g)' = exam.closes
        BY <2>2, <2>6, <3>1 DEF ReviewOpens
      <4> QED BY <2>3, <2>5, <2>10, <3>1, <3>2, <4>1 DEF Solutions
    <3> DEFINE open == {t \in Existing : session[t].status # "cancelled"}
    <3>4. open = {}
      BY <2>10 DEF Governing, Existing
    <3>5. first \in open' /\ open' \subseteq {first, s}
      BY <2>2, <2>6, <3>4 DEF Existing
    <3>6. \A t \in open' : session'[t].opens \in Int
      BY <1>1, <2>1, ReleaseInvKept DEF ReleaseNext, ReleaseTypeOK, SessionRow, Existing
    <3>7. \E g \in open' : \A t \in open' : session'[t].opens <= session'[g].opens
      <4>1. CASE s \in open' /\ session'[first].opens <= session'[s].opens
        BY <3>5, <3>6, <4>1
      <4>2. CASE ~(s \in open' /\ session'[first].opens <= session'[s].opens)
        BY <3>5, <3>6, <4>2
      <4> QED BY <4>1, <4>2
    <3>8. \E g : g \in Governing'
      BY <3>5, <3>7 DEF Governing
    <3> QED BY <3>3, <3>8
  <2> QED BY <2>9, <2>10
<1>2. ASSUME ReleaseInv, [ReleaseNext]_releaseVars
      PROVE  [(~exam.adopted /\ exam'.adopted /\ exam.closes # NoTime
               /\ exam.kind \in {"grand", "daily"}) =>
                \A a \in Attempts :
                   /\ attempt[a].status = "in_progress" => Deadline(a)' = Deadline(a)
                   /\ /\ exam.kind = "grand" /\ ~exam.manual
                      /\ attempt[a].window = NoSession /\ Governing = {NoSession}
                      /\ Solutions(a, NoSession)
                      => \E g \in Governing' : Solutions(a, g)' ]_releaseVars
  BY <1>1, <1>2
<1> QED BY <1>2, ReleaseInvHolds, PTL DEF ReleaseSpec, AdoptionKeepsRights
=============================================================================
