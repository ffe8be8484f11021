--------------------------- MODULE PaymentProofs ----------------------------
(***************************************************************************)
(* Theorems about Payment, for any numbers of orders, students, references *)
(* and threads: decisions are final, nothing is approved without proof of  *)
(* payment, the coupon's cap is a ceiling until a form takes the counter   *)
(* back, and its limit per student always is.                              *)
(***************************************************************************)
EXTENDS Payment, FiniteSetTheorems, TLAPS

-----------------------------------------------------------------------------
(* Types *)

LEMMA StatusValues ==
  /\ Open \subseteq Statuses /\ Final \subseteq Statuses /\ "none" \in Statuses
  /\ "unpaid" \in Statuses /\ "pending" \in Statuses /\ "approved" \in Statuses
  /\ "rejected" \in Statuses /\ "resubmission_requested" \in Statuses
  /\ "expired" \in Statuses /\ "cancelled" \in Statuses /\ "refunded" \in Statuses
  BY DEF Statuses, Open, Final

\* The parts of TypeOK that the shared steps of the actions establish.
RequestsOK ==
    /\ pc \in [Workers -> PcValues]
    /\ target \in [Workers -> Purchases \cup {NoPurchase}]
    /\ typed \in [Workers -> References \cup {NoReference}]
    /\ reward \in [Workers -> BOOLEAN]
    /\ stale \in [Workers -> Nat]
    /\ event \in [Workers -> Statuses]
    /\ \A w \in Workers :
         /\ pc[w] \notin {"idle", "edit"} => target[w] \in Purchases
         /\ pc[w] = "submit" => typed[w] \in References

LocksOK ==
    /\ purchaseLock \in [Purchases -> Workers \cup {NoWorker}]
    /\ couponLock \in Workers \cup {NoWorker}

RowsOK ==
    /\ student \in [Purchases -> Users]
    /\ status \in [Purchases -> Statuses]
    /\ reference \in [Purchases -> References \cup {NoReference}]
    /\ deadline \in [Purchases -> Nat]
    /\ audit \in [Purchases -> SUBSET Statuses]

CountersOK ==
    /\ now \in Nat /\ usage \in Nat /\ redeemed \subseteq Purchases /\ lost \in BOOLEAN
    /\ rewards \in [Users -> Nat]

LEMMA TypeParts ==
  /\ TypeOK <=> RequestsOK /\ LocksOK /\ RowsOK /\ CountersOK
  /\ TypeOK' <=> RequestsOK' /\ LocksOK' /\ RowsOK' /\ CountersOK'
  BY DEF TypeOK, RequestsOK, LocksOK, RowsOK, CountersOK

LEMMA UnchangedTypes ==
  /\ RequestsOK /\ UNCHANGED <<pc, locals>> => RequestsOK'
  /\ LocksOK /\ UNCHANGED <<purchaseLock, couponLock>> => LocksOK'
  /\ RowsOK /\ UNCHANGED rows => RowsOK'
  /\ CountersOK /\ UNCHANGED <<now, coupon, rewards>> => CountersOK'
  BY DEF RequestsOK, LocksOK, RowsOK, CountersOK, rows, coupon, locals

\* The end of a request and the end of a transaction keep the types.
LEMMA FinishType ==
  ASSUME RequestsOK, NEW w \in Workers, Finish(w)
  PROVE  RequestsOK'
  BY StatusValues DEF RequestsOK, Finish, PcValues

LEMMA ReleaseType ==
  ASSUME LocksOK, NEW w \in Workers, ReleaseLocks(w)
  PROVE  LocksOK'
  BY DEF LocksOK, ReleaseLocks

LEMMA CommitType ==
  ASSUME RequestsOK, RowsOK, NEW w \in Workers, NEW p \in Purchases, NEW new \in Statuses,
         Commit(w, p, new)
  PROVE  RequestsOK' /\ status' \in [Purchases -> Statuses]
  BY DEF RequestsOK, RowsOK, Commit, PcValues

\* A request that has begun stays at a later place in its own code.
LEMMA MoveType ==
  ASSUME RequestsOK, NEW w \in Workers, NEW place \in PcValues \ {"submit", "edit"},
         pc[w] \notin {"idle", "edit"},
         pc' = [pc EXCEPT ![w] = place], UNCHANGED <<target, typed, stale, event>>,
         reward' \in [Workers -> BOOLEAN]
  PROVE  RequestsOK'
  BY DEF RequestsOK

LEMMA InitType == Init => TypeOK
<1> SUFFICES ASSUME Init PROVE TypeOK
  OBVIOUS
<1> USE DEF Init
<1>1. RequestsOK
  BY StatusValues DEF RequestsOK, PcValues
<1>2. LocksOK /\ RowsOK
  BY StatusValues DEF LocksOK, RowsOK
<1>3. lost \in BOOLEAN
  OBVIOUS
<1>4. CountersOK
  BY <1>3 DEF CountersOK
<1> QED BY <1>1, <1>2, <1>4, TypeParts

LEMMA StudentType ==
  ASSUME TypeOK, NEW w \in Workers, Student(w)
  PROVE  TypeOK'
<1> USE TypeParts, UnchangedTypes
<1>1. CASE \E p \in Purchases : RequestOrder(w, p)
  <2>1. PICK p \in Purchases : RequestOrder(w, p)
    BY <1>1
  <2>2. RequestsOK'
    BY <2>1 DEF RequestOrder, RequestsOK, PcValues
  <2> QED BY <2>1, <2>2 DEF RequestOrder
<1>2. CASE \E p \in Purchases : Cancel(w, p)
  <2>1. PICK p \in Purchases : Cancel(w, p)
    BY <1>2
  <2> QED BY <2>1, CommitType, StatusValues DEF Cancel, Decide, RowsOK
<1>3. CASE \E p \in Purchases, ref \in References : BeginSubmit(w, p, ref)
  <2>1. PICK p \in Purchases, ref \in References : BeginSubmit(w, p, ref)
    BY <1>3
  <2>2. RequestsOK'
    BY <2>1 DEF BeginSubmit, RequestsOK, PcValues
  <2>3. LocksOK'
    BY <2>1 DEF BeginSubmit, LocksOK
  <2> QED BY <2>1, <2>2, <2>3 DEF BeginSubmit
<1> QED BY <1>1, <1>2, <1>3 DEF Student

LEMMA AdministratorType ==
  ASSUME TypeOK, NEW w \in Workers, Administrator(w)
  PROVE  TypeOK'
<1> USE TypeParts, UnchangedTypes
<1>1. CASE \E p \in Purchases : BeginActivate(w, p)
  <2>1. PICK p \in Purchases : BeginActivate(w, p)
    BY <1>1
  <2>2. RequestsOK'
    BY <2>1 DEF BeginActivate, RequestsOK, PcValues
  <2>3. LocksOK'
    BY <2>1 DEF BeginActivate, LocksOK
  <2> QED BY <2>1, <2>2, <2>3 DEF BeginActivate
<1>2. CASE \E p \in Purchases : Reject(w, p) \/ RequestResubmission(w, p) \/ Refund(w, p)
  <2>1. PICK p \in Purchases : Reject(w, p) \/ RequestResubmission(w, p) \/ Refund(w, p)
    BY <1>2
  <2> QED BY <2>1, CommitType, StatusValues
          DEF Reject, RequestResubmission, Refund, Decide, RowsOK
<1>3. CASE BeginEdit(w)
  <2>1. RequestsOK'
    BY <1>3 DEF BeginEdit, RequestsOK, CountersOK, PcValues
  <2> QED BY <1>3, <2>1 DEF BeginEdit
<1> QED BY <1>1, <1>2, <1>3 DEF Administrator

LEMMA ContinueType ==
  ASSUME TypeOK, NEW w \in Workers, Continue(w)
  PROVE  TypeOK'
<1> USE TypeParts, UnchangedTypes
<1>1. CASE InsertOrder(w)
  <2>1. now + Window \in Nat /\ target[w] \in Purchases
    BY <1>1, PaymentAssumption DEF InsertOrder, RequestsOK, CountersOK, PaymentAssumption
  <2>2. RowsOK'
    BY <1>1, <2>1, StatusValues DEF InsertOrder, RowsOK
  <2>3. RequestsOK'
    BY <1>1, MoveType, FinishType DEF InsertOrder, PcValues, locals, RequestsOK
  <2> QED BY <1>1, <2>2, <2>3 DEF InsertOrder
<1>2. CASE SaveSubmission(w)
  <2>1. target[w] \in Purchases /\ typed[w] \in References
    BY <1>2 DEF SaveSubmission, RequestsOK
  <2>2. RequestsOK' /\ RowsOK'
    BY <1>2, <2>1, CommitType, StatusValues DEF SaveSubmission, RowsOK
  <2> QED BY <1>2, <2>2, ReleaseType DEF SaveSubmission
<1>3. CASE BeginActivateFree(w)
  <2>1. RequestsOK'
    BY <1>3, MoveType DEF BeginActivateFree, PcValues, locals, RequestsOK
  <2>2. LocksOK'
    BY <1>3 DEF BeginActivateFree, LocksOK, RequestsOK
  <2> QED BY <1>3, <2>1, <2>2 DEF BeginActivateFree
<1>4. CASE RefuseFree(w)
  BY <1>4, FinishType DEF RefuseFree
<1>5. CASE LockCoupon(w)
  <2>1. RequestsOK'
    BY <1>5, MoveType DEF LockCoupon, PcValues, locals, RequestsOK
  <2>2. LocksOK'
    BY <1>5 DEF LockCoupon, LocksOK
  <2> QED BY <1>5, <2>1, <2>2 DEF LockCoupon
<1>6. CASE RefuseCoupon(w)
  BY <1>6, FinishType, ReleaseType DEF RefuseCoupon
<1>7. CASE CheckReferral(w)
  <2>1. reward' \in [Workers -> BOOLEAN]
    BY <1>7 DEF CheckReferral, RequestsOK
  <2>2. RequestsOK'
    BY <1>7, <2>1, MoveType DEF CheckReferral, PcValues
  <2> QED BY <1>7, <2>2 DEF CheckReferral
<1>8. CASE CommitActivate(w)
  <2>1. target[w] \in Purchases /\ student[target[w]] \in Users
    BY <1>8 DEF CommitActivate, RequestsOK, RowsOK
  <2>2. RequestsOK' /\ RowsOK'
    BY <1>8, <2>1, CommitType, StatusValues DEF CommitActivate, RowsOK
  <2>3. CountersOK'
    BY <1>8, <2>1 DEF CommitActivate, CountersOK
  <2> QED BY <1>8, <2>2, <2>3, ReleaseType DEF CommitActivate
<1>9. CASE RecordEvent(w)
  <2>1. RowsOK'
    BY <1>9 DEF RecordEvent, RowsOK, RequestsOK
  <2> QED BY <1>9, <2>1, FinishType DEF RecordEvent, coupon
<1>10. CASE SaveEdit(w)
  <2>1. CountersOK'
    BY <1>10 DEF SaveEdit, CountersOK, RequestsOK
  <2> QED BY <1>10, <2>1, FinishType DEF SaveEdit
<1> QED BY <1>1, <1>2, <1>3, <1>4, <1>5, <1>6, <1>7, <1>8, <1>9, <1>10 DEF Continue

LEMMA NextType == TypeOK /\ [Next]_vars => TypeOK'
<1> SUFFICES ASSUME TypeOK, [Next]_vars PROVE TypeOK'
  OBVIOUS
<1> USE TypeParts, UnchangedTypes
<1>1. CASE Tick
  <2>1. CountersOK'
    BY <1>1 DEF Tick, CountersOK, coupon
  <2> QED BY <1>1, <2>1 DEF Tick
<1>2. ASSUME NEW w \in Workers, Cron(w) PROVE TypeOK'
  BY <1>2, CommitType, StatusValues DEF Cron, Expire, Decide, RowsOK
<1>3. ASSUME NEW w \in Workers, Crash(w) PROVE TypeOK'
  BY <1>3, FinishType, ReleaseType DEF Crash
<1>4. CASE UNCHANGED vars
  BY <1>4 DEF vars
<1> QED BY <1>1, <1>2, <1>3, <1>4, StudentType, AdministratorType, ContinueType DEF Next

\* Every variable keeps its type.
THEOREM TypeCorrect == Spec => []TypeOK
  BY InitType, NextType, PTL DEF Spec

-----------------------------------------------------------------------------
(* Orders: who works on which, and what an order can have been through *)

\* The locks of the other workers are untouched.
OthersKeepLocks(w) ==
    /\ \A p \in Purchases : purchaseLock[p] \notin {w, NoWorker} => purchaseLock'[p] = purchaseLock[p]

RequestsHold == \A w \in Workers : CreatesAlone(w) /\ HoldsPurchase(w) /\ ActivatesFree(w)

LEMMA OrderInvParts ==
  /\ OrderInv <=> TypeOK /\ RequestsHold /\ ReferencedWhenPending
  /\ OrderInv' <=> TypeOK' /\ RequestsHold' /\ ReferencedWhenPending'
  BY DEF OrderInv, RequestsHold

LEMMA ReleaseKeepsOthers ==
  ASSUME NEW w \in Workers, ReleaseLocks(w)
  PROVE  OthersKeepLocks(w)
  BY DEF ReleaseLocks, OthersKeepLocks

\* A request that ends without changing an order leaves the others theirs.
LEMMA FinishHolds ==
  ASSUME TypeOK, RequestsHold, NEW w \in Workers, Finish(w), OthersKeepLocks(w),
         UNCHANGED status
  PROVE  RequestsHold'
<1> SUFFICES ASSUME NEW v \in Workers
             PROVE  (CreatesAlone(v) /\ HoldsPurchase(v) /\ ActivatesFree(v))'
  BY DEF RequestsHold
<1>1. CASE v = w
  BY <1>1 DEF TypeOK, Finish, CreatesAlone, HoldsPurchase, ActivatesFree
<1>2. CASE v # w
  <2>1. pc'[v] = pc[v] /\ target'[v] = target[v]
    BY <1>2 DEF TypeOK, Finish
  <2>2. CreatesAlone(v)'
    BY <2>1, PaymentAssumption DEF TypeOK, Finish, RequestsHold, CreatesAlone, PaymentAssumption
  <2>3. HoldsPurchase(v)'
    BY <1>2, <2>1, PaymentAssumption
    DEF TypeOK, RequestsHold, HoldsPurchase, OthersKeepLocks, PaymentAssumption
  <2> QED BY <2>1, <2>2, <2>3 DEF RequestsHold, ActivatesFree
<1> QED BY <1>1, <1>2

\* A commit changes an order no other worker holds or is creating.
LEMMA CommitHolds ==
  ASSUME TypeOK, RequestsHold, NEW w \in Workers, NEW p \in Purchases, NEW new,
         Commit(w, p, new), OthersKeepLocks(w),
         status[p] # "none", purchaseLock[p] \in {NoWorker, w}
  PROVE  RequestsHold'
<1> SUFFICES ASSUME NEW v \in Workers
             PROVE  (CreatesAlone(v) /\ HoldsPurchase(v) /\ ActivatesFree(v))'
  BY DEF RequestsHold
<1>1. CASE v = w
  BY <1>1 DEF TypeOK, Commit, CreatesAlone, HoldsPurchase, ActivatesFree
<1>2. CASE v # w
  <2>1. pc'[v] = pc[v] /\ target'[v] = target[v] /\ target'[w] = p
    BY <1>2 DEF TypeOK, Commit
  <2>2. CreatesAlone(v)'
    BY <1>2, <2>1 DEF TypeOK, Commit, RequestsHold, CreatesAlone
  <2>3. HoldsPurchase(v)'
    <3>1. pc[v] \in {"submit", "coupon", "referral", "approve"} =>
            purchaseLock[target[v]] = v /\ target[v] \in Purchases
      BY DEF TypeOK, RequestsHold, HoldsPurchase
    <3> QED BY <1>2, <2>1, <3>1, PaymentAssumption
            DEF TypeOK, Commit, RequestsHold, HoldsPurchase, OthersKeepLocks, PaymentAssumption
  <2> QED BY <2>1, <2>2, <2>3 DEF RequestsHold, ActivatesFree
<1> QED BY <1>1, <1>2

\* Locking a free order for submit or activate.
LEMMA BeginHolds ==
  ASSUME TypeOK, RequestsHold, NEW w \in Workers, NEW p \in Purchases,
         NEW place \in {"submit", "coupon"},
         Unlocked(p), status[p] # "none",
         place = "submit" => status[p] \in {"unpaid", "resubmission_requested"},
         place = "coupon" => status[p] = "pending" \/ (status[p] = "unpaid" /\ p \in FreeOrders),
         purchaseLock' = [purchaseLock EXCEPT ![p] = w],
         pc' = [pc EXCEPT ![w] = place], target' = [target EXCEPT ![w] = p],
         UNCHANGED status
  PROVE  RequestsHold'
<1> SUFFICES ASSUME NEW v \in Workers
             PROVE  (CreatesAlone(v) /\ HoldsPurchase(v) /\ ActivatesFree(v))'
  BY DEF RequestsHold
<1>1. CASE v = w
  BY <1>1 DEF TypeOK, CreatesAlone, HoldsPurchase, ActivatesFree
<1>2. CASE v # w
  <2>1. pc'[v] = pc[v] /\ target'[v] = target[v] /\ target'[w] = p
    BY <1>2 DEF TypeOK
  <2>2. CreatesAlone(v)'
    BY <1>2, <2>1 DEF TypeOK, RequestsHold, CreatesAlone
  <2>3. HoldsPurchase(v)'
    BY <1>2, <2>1, PaymentAssumption
    DEF TypeOK, RequestsHold, HoldsPurchase, Unlocked, PaymentAssumption
  <2> QED BY <2>1, <2>2, <2>3 DEF RequestsHold, ActivatesFree
<1> QED BY <1>1, <1>2

LEMMA InitOrder == Init => OrderInv
  BY InitType DEF Init, OrderInv, CreatesAlone, HoldsPurchase, ActivatesFree, ReferencedWhenPending

\* The single-transaction decisions.
LEMMA DecideOrder ==
  ASSUME OrderInv, NEW w \in Workers, NEW p \in Purchases, NEW from, NEW to,
         Decide(w, p, from, to), "none" \notin from,
         to \in {"pending", "resubmission_requested", "approved", "refunded"} =>
            from \subseteq {"pending", "approved"}
  PROVE  RequestsHold' /\ ReferencedWhenPending'
<1>1. RequestsHold'
  BY CommitHolds, OrderInvParts DEF Decide, Unlocked, OthersKeepLocks
<1>2. ReferencedWhenPending'
  BY OrderInvParts DEF Decide, Commit, ReferencedWhenPending, TypeOK
<1> QED BY <1>1, <1>2

LEMMA ContinueOrder ==
  ASSUME OrderInv, NEW w \in Workers, Continue(w)
  PROVE  RequestsHold' /\ ReferencedWhenPending'
<1> USE OrderInvParts
<1>1. CASE InsertOrder(w)
  <2>1. target[w] \in Purchases /\ status[target[w]] = "none"
        /\ \A v \in Workers \ {w} : target[v] # target[w]
    BY <1>1 DEF InsertOrder, TypeOK, RequestsHold, CreatesAlone
  <2>2. ReferencedWhenPending'
    BY <1>1, <2>1 DEF InsertOrder, ReferencedWhenPending, TypeOK
  <2>3. ASSUME NEW v \in Workers \ {w}
        PROVE  (CreatesAlone(v) /\ HoldsPurchase(v) /\ ActivatesFree(v))'
    <3>1. pc'[v] = pc[v] /\ target'[v] = target[v] /\ target[v] # target[w]
          /\ target'[w] \in {target[w], NoPurchase}
      BY <1>1, <2>1 DEF InsertOrder, Finish, locals, TypeOK
    <3>2. CreatesAlone(v)'
      BY <1>1, <2>1, <3>1, PaymentAssumption
      DEF InsertOrder, Finish, locals, TypeOK, RequestsHold, CreatesAlone, PaymentAssumption
    <3>3. HoldsPurchase(v)'
      BY <1>1, <2>1, <3>1 DEF InsertOrder, TypeOK, RequestsHold, HoldsPurchase
    <3> QED BY <3>1, <3>2, <3>3 DEF RequestsHold, ActivatesFree
  <2>4. (CreatesAlone(w) /\ HoldsPurchase(w) /\ ActivatesFree(w))'
    BY <1>1, <2>1 DEF InsertOrder, Finish, locals, TypeOK, CreatesAlone, HoldsPurchase, ActivatesFree
  <2> QED BY <2>2, <2>3, <2>4 DEF RequestsHold
<1>2. CASE SaveSubmission(w)
  <2>1. target[w] \in Purchases /\ status[target[w]] # "none" /\ purchaseLock[target[w]] = w
        /\ typed[w] # NoReference
    BY <1>2, PaymentAssumption
    DEF SaveSubmission, TypeOK, RequestsHold, HoldsPurchase, PaymentAssumption
  <2>2. RequestsHold'
    BY <1>2, <2>1, CommitHolds, ReleaseKeepsOthers DEF SaveSubmission
  <2>3. ReferencedWhenPending'
    BY <1>2, <2>1 DEF SaveSubmission, Commit, ReferencedWhenPending, TypeOK
  <2> QED BY <2>2, <2>3
<1>3. CASE BeginActivateFree(w)
  <2>1. target[w] \in Purchases /\ target[w] \in FreeOrders
    BY <1>3 DEF BeginActivateFree, TypeOK, RequestsHold, ActivatesFree
  <2>2. target' = [target EXCEPT ![w] = target[w]]
    BY <1>3 DEF BeginActivateFree, locals, TypeOK
  <2>3. UNCHANGED <<status, reference>>
    BY <1>3 DEF BeginActivateFree, rows
  <2>4. RequestsHold'
    BY <1>3, <2>1, <2>2, <2>3, BeginHolds DEF BeginActivateFree, FreeActivationAllowed
  <2> QED BY <2>3, <2>4 DEF ReferencedWhenPending
<1>4. CASE RefuseFree(w)
  BY <1>4, FinishHolds DEF RefuseFree, rows, OthersKeepLocks, ReferencedWhenPending
<1>5. CASE LockCoupon(w) \/ CheckReferral(w)
  <2>1. UNCHANGED <<status, reference, purchaseLock, target>>
    BY <1>5 DEF LockCoupon, CheckReferral, rows, locals
  <2>2. RequestsHold'
    BY <1>5, <2>1 DEF LockCoupon, CheckReferral, TypeOK, RequestsHold, CreatesAlone,
                      HoldsPurchase, ActivatesFree
  <2> QED BY <2>1, <2>2 DEF ReferencedWhenPending
<1>6. CASE RefuseCoupon(w)
  BY <1>6, FinishHolds, ReleaseKeepsOthers DEF RefuseCoupon, rows, ReferencedWhenPending
<1>7. CASE CommitActivate(w)
  <2>1. target[w] \in Purchases /\ status[target[w]] # "none" /\ purchaseLock[target[w]] = w
        /\ (target[w] \in FreeOrders \/ status[target[w]] = "pending")
    BY <1>7 DEF CommitActivate, TypeOK, RequestsHold, HoldsPurchase
  <2>2. RequestsHold'
    BY <1>7, <2>1, CommitHolds, ReleaseKeepsOthers DEF CommitActivate
  <2>3. ReferencedWhenPending'
    BY <1>7, <2>1 DEF CommitActivate, Commit, ReferencedWhenPending, TypeOK
  <2> QED BY <2>2, <2>3
<1>8. CASE RecordEvent(w)
  BY <1>8, FinishHolds DEF RecordEvent, OthersKeepLocks, ReferencedWhenPending
<1>9. CASE SaveEdit(w)
  BY <1>9, FinishHolds DEF SaveEdit, rows, OthersKeepLocks, ReferencedWhenPending
<1> QED BY <1>1, <1>2, <1>3, <1>4, <1>5, <1>6, <1>7, <1>8, <1>9 DEF Continue

LEMMA NextOrder == OrderInv /\ [Next]_vars => OrderInv'
<1> SUFFICES ASSUME OrderInv, [Next]_vars PROVE RequestsHold' /\ ReferencedWhenPending'
  BY NextType, OrderInvParts
<1> USE OrderInvParts
<1>1. CASE Tick \/ UNCHANGED vars
  <2>1. UNCHANGED <<status, reference, purchaseLock, target, pc>>
    BY <1>1 DEF Tick, vars, rows, locals
  <2> QED BY <2>1 DEF RequestsHold, ReferencedWhenPending, CreatesAlone, HoldsPurchase, ActivatesFree
<1>2. ASSUME NEW w \in Workers, NEW p \in Purchases, RequestOrder(w, p)
      PROVE  RequestsHold' /\ ReferencedWhenPending'
  BY <1>2 DEF RequestOrder, rows, TypeOK, RequestsHold, ReferencedWhenPending, CreatesAlone,
              HoldsPurchase, ActivatesFree
<1>3. ASSUME NEW w \in Workers, NEW p \in Purchases, NEW ref \in References,
             BeginSubmit(w, p, ref)
      PROVE  RequestsHold' /\ ReferencedWhenPending'
  BY <1>3, BeginHolds DEF BeginSubmit, rows, ReferencedWhenPending
<1>4. ASSUME NEW w \in Workers, NEW p \in Purchases, BeginActivate(w, p)
      PROVE  RequestsHold' /\ ReferencedWhenPending'
  BY <1>4, BeginHolds DEF BeginActivate, rows, ReferencedWhenPending
<1>5. ASSUME NEW w \in Workers, NEW p \in Purchases,
             Cancel(w, p) \/ Reject(w, p) \/ RequestResubmission(w, p) \/ Refund(w, p)
                \/ Expire(w, p)
      PROVE  RequestsHold' /\ ReferencedWhenPending'
  BY <1>5, DecideOrder DEF Cancel, Reject, RequestResubmission, Refund, Expire
<1>6. ASSUME NEW w \in Workers, BeginEdit(w)
      PROVE  RequestsHold' /\ ReferencedWhenPending'
  BY <1>6 DEF BeginEdit, rows, TypeOK, RequestsHold, ReferencedWhenPending, CreatesAlone,
              HoldsPurchase, ActivatesFree
<1>7. ASSUME NEW w \in Workers, Crash(w)
      PROVE  RequestsHold' /\ ReferencedWhenPending'
  BY <1>7, FinishHolds, ReleaseKeepsOthers DEF Crash, rows, ReferencedWhenPending
<1> QED BY <1>1, <1>2, <1>3, <1>4, <1>5, <1>6, <1>7, ContinueOrder
        DEF Next, Student, Administrator, Cron

\* Who holds which order, who is creating one, and what is known of its reference.
THEOREM OrderInvariant == Spec => []OrderInv
  BY InitOrder, NextOrder, PTL DEF Spec

\* Nothing is approved without proof of payment unless it costs nothing.
THEOREM ApprovedWithProofHolds == Spec => []ApprovedWithProof
<1>1. OrderInv => ApprovedWithProof
  BY DEF OrderInv, ReferencedWhenPending, ApprovedWithProof
<1> QED BY <1>1, OrderInvariant, PTL

\* A step takes one order out of a status that is not final, or none.
LEMMA StatusStep ==
  ASSUME OrderInv, Next
  PROVE  \/ UNCHANGED status
         \/ \E p \in Purchases, new \in Statuses :
              /\ status' = [status EXCEPT ![p] = new]
              /\ status[p] \notin Final
              /\ status[p] = "approved" => new = "refunded"
<1> DEFINE Changes(p, new) ==
             /\ status' = [status EXCEPT ![p] = new]
             /\ status[p] \notin Final
             /\ status[p] = "approved" => new = "refunded"
<1>1. ASSUME NEW w \in Workers, InsertOrder(w)
      PROVE  target[w] \in Purchases /\ Changes(target[w], "unpaid")
  BY <1>1 DEF InsertOrder, OrderInv, TypeOK, CreatesAlone, Final
<1>2. ASSUME NEW w \in Workers, SaveSubmission(w)
      PROVE  target[w] \in Purchases /\ Changes(target[w], "pending")
  BY <1>2 DEF SaveSubmission, Commit, OrderInv, TypeOK, HoldsPurchase, Final
<1>3. ASSUME NEW w \in Workers, CommitActivate(w)
      PROVE  target[w] \in Purchases /\ Changes(target[w], "approved")
  BY <1>3 DEF CommitActivate, Commit, OrderInv, TypeOK, HoldsPurchase, Final
<1>4. ASSUME NEW w \in Workers, NEW p \in Purchases,
             Cancel(w, p) \/ Reject(w, p) \/ RequestResubmission(w, p) \/ Refund(w, p)
                \/ Expire(w, p)
      PROVE  \E new \in Statuses : Changes(p, new)
  BY <1>4, StatusValues
  DEF Cancel, Reject, RequestResubmission, Refund, Expire, Decide, Commit, Final
<1>5. ASSUME NEW w \in Workers,
             \/ \E p \in Purchases : \/ RequestOrder(w, p) \/ BeginActivate(w, p)
                                    \/ \E ref \in References : BeginSubmit(w, p, ref)
             \/ BeginEdit(w) \/ BeginActivateFree(w) \/ RefuseFree(w) \/ LockCoupon(w)
             \/ RefuseCoupon(w) \/ CheckReferral(w) \/ RecordEvent(w) \/ SaveEdit(w) \/ Crash(w)
      PROVE  UNCHANGED status
  BY <1>5 DEF RequestOrder, BeginActivate, BeginSubmit, BeginEdit, BeginActivateFree, RefuseFree,
              LockCoupon, RefuseCoupon, CheckReferral, RecordEvent, SaveEdit, Crash, rows
<1>6. CASE Tick
  BY <1>6 DEF Tick, rows
<1> QED BY <1>1, <1>2, <1>3, <1>4, <1>5, <1>6, StatusValues
        DEF Next, Student, Administrator, Cron, Continue

\* Decisions are final, whatever the interleaving of the threads that decide.
THEOREM DecidedOnceHolds == Spec => DecidedOnce
<1>1. ASSUME OrderInv, [Next]_vars, NEW p \in Purchases
      PROVE  /\ status[p] \in Final => status'[p] = status[p]
             /\ status[p] = "approved" => status'[p] \in {"approved", "refunded"}
  <2>1. CASE UNCHANGED vars
    BY <2>1 DEF vars, rows
  <2>2. CASE Next
    BY <1>1, <2>2, StatusStep DEF OrderInv, TypeOK
  <2> QED BY <1>1, <2>1, <2>2
<1>2. OrderInv /\ [Next]_vars =>
        [\A p \in Purchases :
           /\ status[p] \in Final => status'[p] = status[p]
           /\ status[p] = "approved" => status'[p] \in {"approved", "refunded"}]_vars
  BY <1>1
<1> QED BY <1>2, OrderInvariant, PTL DEF Spec, DecidedOnce

-----------------------------------------------------------------------------
(* The coupon's cap *)

\* A step that approves nothing, counts nothing and takes no coupon lock away.
LEMMA OtherSteps ==
  ASSUME CouponInv, UNCHANGED coupon,
         \A p \in redeemed : status'[p] \in {"approved", "refunded"},
         \A v \in Workers : pc'[v] \in {"referral", "approve"} =>
            /\ pc[v] \in {"referral", "approve"} /\ target'[v] = target[v]
            /\ couponLock = v => couponLock' = v
  PROVE  CouponInv'
  BY DEF CouponInv, CounterExact, HoldsCoupon, coupon

LEMMA CouponStep ==
  ASSUME OrderInv, CouponInv, [Next]_vars
  PROVE  CouponInv'
<1> DEFINE Held == \A w \in Workers : HoldsCoupon(w)
<1>1. CASE Tick \/ UNCHANGED vars
  BY <1>1 DEF Tick, vars, rows, coupon, locals, CouponInv, CounterExact, HoldsCoupon
<1>2. ASSUME NEW w \in Workers, CommitActivate(w)
      PROVE  CouponInv'
  <2>1. target[w] \in Purchases /\ status[target[w]] \in {"pending", "unpaid"}
    BY <1>2 DEF CommitActivate, OrderInv, TypeOK, HoldsPurchase
  <2>2. CASE target[w] \in CouponOrders
    <3>1. target[w] \notin redeemed /\ usage < MaxUses /\ couponLock = w /\ usage \in Nat
      BY <1>2, <2>1, <2>2 DEF CommitActivate, CouponInv, CounterExact, HoldsCoupon, OrderInv, TypeOK
    <3>2. IsFiniteSet(redeemed)
      BY PaymentAssumption, FS_Subset DEF OrderInv, TypeOK, PaymentAssumption
    <3>3. ~lost => Cardinality(redeemed \cup {target[w]}) = usage + 1
      BY <3>1, <3>2, FS_AddElement DEF CouponInv, CounterExact
    <3>4. CounterExact'
      <4>1. usage' = usage + 1 /\ redeemed' = redeemed \cup {target[w]} /\ lost' = lost
        BY <1>2, <2>2 DEF CommitActivate
      <4>2. \A p \in redeemed' : status'[p] \in {"approved", "refunded"} /\ p \in CouponOrders
        BY <1>2, <2>1, <2>2, <4>1 DEF CommitActivate, Commit, CouponInv, CounterExact, OrderInv, TypeOK
      <4>3. usage + 1 <= MaxUses
        BY <3>1, PaymentAssumption DEF PaymentAssumption
      <4> QED BY <3>3, <4>1, <4>2, <4>3 DEF CounterExact
    <3>5. ASSUME NEW v \in Workers PROVE HoldsCoupon(v)'
      BY <1>2, <3>1, PaymentAssumption
      DEF CommitActivate, Commit, CouponInv, HoldsCoupon, OrderInv, TypeOK, PaymentAssumption
    <3> QED BY <3>4, <3>5 DEF CouponInv
  <2>3. CASE target[w] \notin CouponOrders
    <3>1. CounterExact'
      BY <1>2, <2>1, <2>3 DEF CommitActivate, Commit, CouponInv, CounterExact, OrderInv, TypeOK
    <3>2. ASSUME NEW v \in Workers PROVE HoldsCoupon(v)'
      BY <1>2, <2>3, PaymentAssumption
      DEF CommitActivate, Commit, ReleaseLocks, CouponInv, HoldsCoupon, OrderInv, TypeOK,
          PaymentAssumption
    <3> QED BY <3>1, <3>2 DEF CouponInv
  <2> QED BY <2>2, <2>3
<1>3. ASSUME NEW w \in Workers, LockCoupon(w)
      PROVE  CouponInv'
  <2>1. CounterExact'
    BY <1>3 DEF LockCoupon, rows, coupon, CouponInv, CounterExact
  <2>2. ASSUME NEW v \in Workers PROVE HoldsCoupon(v)'
    BY <1>3, PaymentAssumption
    DEF LockCoupon, CouponHasRoom, rows, coupon, locals, CouponInv, HoldsCoupon, OrderInv, TypeOK,
        PaymentAssumption
  <2> QED BY <2>1, <2>2 DEF CouponInv
<1>4. ASSUME NEW w \in Workers, SaveEdit(w) \/ BeginEdit(w)
      PROVE  CouponInv'
  <2>1. UNCHANGED <<status, redeemed>>
    BY <1>4 DEF SaveEdit, BeginEdit, rows, coupon
  <2>2. ~lost' => usage' = usage /\ ~lost
    BY <1>4 DEF SaveEdit, BeginEdit, coupon
  <2>3. CounterExact'
    BY <2>1, <2>2 DEF CouponInv, CounterExact
  <2>4. ASSUME NEW v \in Workers PROVE HoldsCoupon(v)'
    BY <1>4, PaymentAssumption DEF SaveEdit, BeginEdit, Finish, rows, coupon, locals, CouponInv,
       HoldsCoupon, OrderInv, TypeOK, PaymentAssumption
  <2> QED BY <2>3, <2>4 DEF CouponInv
<1>5. ASSUME NEW w \in Workers, InsertOrder(w) \/ SaveSubmission(w)
      PROVE  CouponInv'
  <2>1. \A p \in redeemed : p # target[w]
    BY <1>5 DEF InsertOrder, SaveSubmission, OrderInv, TypeOK, CreatesAlone, HoldsPurchase,
                CouponInv, CounterExact
  <2>2. \A p \in redeemed : status'[p] = status[p]
    BY <1>5, <2>1 DEF InsertOrder, SaveSubmission, Commit, OrderInv, TypeOK
  <2>3. CouponInv /\ \A p \in redeemed : status'[p] \in {"approved", "refunded"}
    BY <2>2 DEF CouponInv, CounterExact
  <2>4. \A v \in Workers : pc'[v] \in {"referral", "approve"} =>
          /\ pc[v] \in {"referral", "approve"} /\ target'[v] = target[v]
          /\ couponLock = v => couponLock' = v
    BY <1>5, PaymentAssumption
    DEF InsertOrder, SaveSubmission, Commit, Finish, ReleaseLocks, locals, OrderInv, TypeOK,
        PaymentAssumption
  <2> QED BY <1>5, <2>3, <2>4, OtherSteps DEF InsertOrder, SaveSubmission
<1>6. ASSUME NEW w \in Workers, NEW p \in Purchases,
             Cancel(w, p) \/ Reject(w, p) \/ RequestResubmission(w, p) \/ Refund(w, p)
                \/ Expire(w, p)
      PROVE  CouponInv'
  <2>1. PICK from, to : Decide(w, p, from, to) /\ ("approved" \in from => to = "refunded")
                        /\ "refunded" \notin from
    BY <1>6 DEF Cancel, Reject, RequestResubmission, Refund, Expire
  <2>2. \A x \in redeemed : status'[x] \in {"approved", "refunded"}
    BY <2>1 DEF Decide, Commit, CouponInv, CounterExact, OrderInv, TypeOK
  <2>3. \A v \in Workers : pc'[v] \in {"referral", "approve"} =>
          pc[v] \in {"referral", "approve"} /\ target'[v] = target[v]
    BY <2>1 DEF Decide, Commit, OrderInv, TypeOK
  <2> QED BY <2>1, <2>2, <2>3, OtherSteps DEF Decide
<1>7. ASSUME NEW w \in Workers,
             \/ \E p \in Purchases : \/ RequestOrder(w, p) \/ BeginActivate(w, p)
                                    \/ \E ref \in References : BeginSubmit(w, p, ref)
             \/ BeginActivateFree(w) \/ RefuseFree(w) \/ RefuseCoupon(w) \/ RecordEvent(w)
             \/ Crash(w)
      PROVE  CouponInv'
  <2>1. UNCHANGED <<status, coupon>>
    BY <1>7 DEF RequestOrder, BeginActivate, BeginSubmit, BeginActivateFree, RefuseFree,
                RefuseCoupon, RecordEvent, Crash, rows
  <2>2. \A v \in Workers : pc'[v] \in {"referral", "approve"} =>
          /\ pc[v] \in {"referral", "approve"} /\ target'[v] = target[v]
          /\ couponLock = v => couponLock' = v
    BY <1>7, PaymentAssumption
    DEF RequestOrder, BeginActivate, BeginSubmit, BeginActivateFree, RefuseFree,
        RefuseCoupon, RecordEvent, Crash, Finish, ReleaseLocks, locals, OrderInv, TypeOK,
        PaymentAssumption
  <2>3. CouponInv /\ \A p \in redeemed : status'[p] \in {"approved", "refunded"}
    BY <2>1 DEF CouponInv, CounterExact
  <2> QED BY <2>1, <2>2, <2>3, OtherSteps
<1>8. ASSUME NEW w \in Workers, CheckReferral(w)
      PROVE  CouponInv'
  <2>1. UNCHANGED <<status, coupon, couponLock, target>>
    BY <1>8 DEF CheckReferral, rows
  <2>2. \A v \in Workers : pc'[v] \in {"referral", "approve"} => pc[v] \in {"referral", "approve"}
    BY <1>8 DEF CheckReferral, OrderInv, TypeOK
  <2>3. CouponInv /\ \A p \in redeemed : status'[p] \in {"approved", "refunded"}
    BY <2>1 DEF CouponInv, CounterExact
  <2> QED BY <2>1, <2>2, <2>3, OtherSteps
<1> QED BY <1>1, <1>2, <1>3, <1>4, <1>5, <1>6, <1>7, <1>8
        DEF Next, Student, Administrator, Cron, Continue

LEMMA CouponInit == Init => CouponInv
<1>1. Cardinality({}) = 0
  BY FS_EmptySet
<1> QED BY <1>1, PaymentAssumption DEF Init, CouponInv, CounterExact, HoldsCoupon, PaymentAssumption

\* The (max_uses + 1)th approval loses: for any number of orders and threads no
\* more than max_uses orders are ever approved, unless a form took the counter back.
THEOREM CouponCapHolds == Spec => []CouponCap
<1>1. CouponInv => CouponCap
  BY DEF CouponInv, CounterExact, CouponCap
<1>2. OrderInv /\ CouponInv /\ [Next]_vars => CouponInv'
  BY CouponStep
<1> QED BY <1>1, <1>2, CouponInit, OrderInvariant, PTL DEF Spec
-----------------------------------------------------------------------------
(* The coupon's limit for one student *)

ApprovedCoupons(u) == {p \in CouponOrders : student[p] = u /\ status[p] = "approved"}

LEMMA FiniteOrders ==
  /\ \A p : IsFiniteSet(CouponOrdersOf(p, {"approved"}))
  /\ \A u : IsFiniteSet(ApprovedCoupons(u))
<1>1. IsFiniteSet(CouponOrders)
  BY PaymentAssumption, FS_Subset DEF PaymentAssumption
<1>2. \A p : CouponOrdersOf(p, {"approved"}) \subseteq CouponOrders
  BY DEF CouponOrdersOf
<1>3. \A u : ApprovedCoupons(u) \subseteq CouponOrders
  BY DEF ApprovedCoupons
<1> QED BY <1>1, <1>2, <1>3, FS_Subset

\* A step that approves no order with the coupon and takes no coupon lock away.
LEMMA FewerApproved ==
  ASSUME PerUserInv, UNCHANGED student,
         \A p \in CouponOrders : status'[p] = "approved" => status[p] = "approved",
         \A v \in Workers : pc'[v] \in {"referral", "approve"} /\ target'[v] \in CouponOrders =>
            /\ pc[v] \in {"referral", "approve"} /\ target'[v] = target[v]
            /\ couponLock = v => couponLock' = v
  PROVE  PerUserInv'
<1>1. CouponPerUser'
  <2> SUFFICES ASSUME MaxUsesPerUser > 0, NEW u \in Users
               PROVE  Cardinality(ApprovedCoupons(u))' <= MaxUsesPerUser
    BY DEF CouponPerUser, ApprovedCoupons
  <2>1. ApprovedCoupons(u)' \subseteq ApprovedCoupons(u)
    BY DEF ApprovedCoupons
  <2>2. /\ IsFiniteSet(ApprovedCoupons(u))
        /\ Cardinality(ApprovedCoupons(u)) <= MaxUsesPerUser
    BY FiniteOrders DEF PerUserInv, CouponPerUser, ApprovedCoupons
  <2>3. /\ Cardinality(ApprovedCoupons(u)') <= Cardinality(ApprovedCoupons(u))
        /\ Cardinality(ApprovedCoupons(u)') \in Nat /\ Cardinality(ApprovedCoupons(u)) \in Nat
    BY <2>1, <2>2, FS_Subset, FS_CardinalityType
  <2> QED BY <2>2, <2>3, PaymentAssumption DEF PaymentAssumption
<1>2. ASSUME NEW v \in Workers PROVE HasStudentRoom(v)'
  <2> SUFFICES ASSUME pc'[v] \in {"referral", "approve"}, target'[v] \in CouponOrders,
                      MaxUsesPerUser > 0
               PROVE  /\ couponLock' = v
                      /\ Cardinality(CouponOrdersOf(target[v], {"approved"})') < MaxUsesPerUser
    BY DEF HasStudentRoom
  <2> DEFINE room == CouponOrdersOf(target[v], {"approved"})
  <2>1. /\ target'[v] = target[v] /\ couponLock' = v
        /\ Cardinality(room) < MaxUsesPerUser
    BY DEF PerUserInv, HasStudentRoom
  <2>2. CouponOrdersOf(target[v], {"approved"})' \subseteq room
    BY <2>1 DEF CouponOrdersOf
  <2>3. /\ Cardinality(CouponOrdersOf(target[v], {"approved"})') <= Cardinality(room)
        /\ Cardinality(CouponOrdersOf(target[v], {"approved"})') \in Nat
        /\ Cardinality(room) \in Nat
    BY <2>2, FiniteOrders, FS_Subset, FS_CardinalityType
  <2> HIDE DEF room
  <2> QED BY <2>1, <2>3, PaymentAssumption DEF PaymentAssumption
<1> QED BY <1>1, <1>2 DEF PerUserInv

\* The approval that fills the student's room by one.
LEMMA ApprovalFits ==
  ASSUME OrderInv, PerUserInv, NEW w \in Workers, CommitActivate(w)
  PROVE  PerUserInv'
<1> DEFINE t == target[w]
<1>1. /\ t \in Purchases /\ status[t] # "approved" /\ student' = student
      /\ status' = [status EXCEPT ![t] = "approved"] /\ pc' = [pc EXCEPT ![w] = "audit"]
      /\ target' = [target EXCEPT ![w] = t]
      /\ couponLock' = IF couponLock = w THEN NoWorker ELSE couponLock
  BY DEF CommitActivate, Commit, ReleaseLocks, OrderInv, TypeOK, HoldsPurchase
<1>2. ASSUME NEW v \in Workers
      PROVE  /\ target'[v] = target[v]
             /\ pc'[v] \in {"referral", "approve"} => pc'[v] = pc[v] /\ v # w
  BY <1>1, <1>2 DEF OrderInv, TypeOK
<1>3. CASE t \notin CouponOrders
  <2>1. \A p \in CouponOrders : status'[p] = status[p]
    BY <1>1, <1>3 DEF OrderInv, TypeOK
  <2>2. \A v \in Workers \ {w} : couponLock = v => couponLock' = v
    BY <1>1
  <2> QED BY <1>1, <1>2, <2>1, <2>2, FewerApproved
<1>4. CASE t \in CouponOrders
  <2>1. pc[w] = "approve"
    BY DEF CommitActivate
  <2>2. ASSUME NEW v \in Workers PROVE HasStudentRoom(v)'
    BY <1>1, <1>2, <1>4, <2>1 DEF PerUserInv, HasStudentRoom
  <2>3. ASSUME MaxUsesPerUser > 0, NEW u \in Users
        PROVE  Cardinality(ApprovedCoupons(u)') <= MaxUsesPerUser
    <3>1. CASE student[t] # u
      <4>1. ApprovedCoupons(u)' = ApprovedCoupons(u)
        BY <1>1, <3>1, PaymentAssumption DEF ApprovedCoupons, OrderInv, TypeOK, PaymentAssumption
      <4> QED BY <2>3, <4>1 DEF PerUserInv, CouponPerUser, ApprovedCoupons
    <3>2. CASE student[t] = u
      <4> DEFINE others == CouponOrdersOf(t, {"approved"})
      <4>1. ApprovedCoupons(u)' = others \cup {t}
        BY <1>1, <1>4, <3>2, PaymentAssumption
        DEF ApprovedCoupons, CouponOrdersOf, OrderInv, TypeOK, PaymentAssumption
      <4>2. t \notin others /\ IsFiniteSet(others)
        BY FiniteOrders DEF CouponOrdersOf
      <4>3. Cardinality(others) < MaxUsesPerUser
        BY <1>4, <2>1, <2>3 DEF PerUserInv, HasStudentRoom
      <4> HIDE DEF others, t
      <4>4. Cardinality(others \cup {t}) = Cardinality(others) + 1 /\ Cardinality(others) \in Nat
        BY <4>2, FS_AddElement, FS_CardinalityType
      <4> QED BY <4>1, <4>3, <4>4, PaymentAssumption DEF PaymentAssumption
    <3> QED BY <3>1, <3>2
  <2> QED BY <2>2, <2>3 DEF PerUserInv, CouponPerUser, ApprovedCoupons
<1> QED BY <1>3, <1>4

LEMMA PerUserStep ==
  ASSUME OrderInv, PerUserInv, [Next]_vars
  PROVE  PerUserInv'
<1>1. CASE Tick \/ UNCHANGED vars
  <2>1. UNCHANGED <<status, student, couponLock, pc, target>>
    BY <1>1 DEF Tick, vars, rows, locals
  <2> QED BY <2>1, FewerApproved
<1>2. ASSUME NEW w \in Workers, CommitActivate(w)
      PROVE  PerUserInv'
  BY <1>2, ApprovalFits
<1>3. ASSUME NEW w \in Workers, LockCoupon(w)
      PROVE  PerUserInv'
  <2>1. /\ UNCHANGED <<status, student, target>> /\ pc' = [pc EXCEPT ![w] = "referral"]
        /\ target[w] \in CouponOrders => couponLock = NoWorker /\ couponLock' = w
        /\ target[w] \notin CouponOrders => UNCHANGED couponLock
    BY <1>3 DEF LockCoupon, rows, locals
  <2>2. CASE target[w] \notin CouponOrders
    <3>1. \A v \in Workers : pc'[v] \in {"referral", "approve"} /\ target'[v] \in CouponOrders =>
            pc[v] \in {"referral", "approve"} /\ target'[v] = target[v]
      BY <2>1, <2>2 DEF OrderInv, TypeOK
    <3> QED BY <2>1, <2>2, <3>1, FewerApproved
  <2>3. CASE target[w] \in CouponOrders
    <3>1. CouponPerUser'
      BY <2>1 DEF PerUserInv, CouponPerUser
    <3>2. MaxUsesPerUser > 0 => Cardinality(CouponOrdersOf(target[w], {"approved"})) < MaxUsesPerUser
      BY <1>3, <2>3 DEF LockCoupon, CouponHasRoom
    <3>3. CouponOrdersOf(target[w], {"approved"})' = CouponOrdersOf(target[w], {"approved"})
      BY <2>1 DEF CouponOrdersOf
    <3>4. ASSUME NEW v \in Workers PROVE HasStudentRoom(v)'
      <4>1. CASE v = w
        BY <2>1, <2>3, <3>2, <3>3, <4>1 DEF HasStudentRoom
      <4>2. CASE v # w
        BY <2>1, <2>3, <4>2, PaymentAssumption
        DEF HasStudentRoom, PerUserInv, OrderInv, TypeOK, PaymentAssumption
      <4> QED BY <4>1, <4>2
    <3> QED BY <3>1, <3>4 DEF PerUserInv
  <2> QED BY <2>2, <2>3
<1>4. ASSUME NEW w \in Workers,
             \/ \E p \in Purchases : \/ RequestOrder(w, p) \/ BeginActivate(w, p)
                                    \/ \E ref \in References : BeginSubmit(w, p, ref)
             \/ BeginActivateFree(w) \/ RefuseFree(w) \/ RefuseCoupon(w) \/ RecordEvent(w)
             \/ Crash(w) \/ BeginEdit(w) \/ SaveEdit(w) \/ CheckReferral(w)
      PROVE  PerUserInv'
  <2>1. UNCHANGED <<status, student>>
    BY <1>4 DEF RequestOrder, BeginActivate, BeginSubmit, BeginActivateFree, RefuseFree,
                RefuseCoupon, RecordEvent, Crash, BeginEdit, SaveEdit, CheckReferral, rows
  <2>2. \A v \in Workers : pc'[v] \in {"referral", "approve"} =>
          /\ pc[v] \in {"referral", "approve"} /\ target'[v] = target[v]
          /\ couponLock = v => couponLock' = v
    BY <1>4, PaymentAssumption
    DEF RequestOrder, BeginActivate, BeginSubmit, BeginActivateFree, RefuseFree,
        RefuseCoupon, RecordEvent, Crash, BeginEdit, SaveEdit, CheckReferral, Finish,
        ReleaseLocks, locals, OrderInv, TypeOK, PaymentAssumption
  <2> QED BY <2>1, <2>2, FewerApproved
<1>5. ASSUME NEW w \in Workers, InsertOrder(w) \/ SaveSubmission(w)
      PROVE  PerUserInv'
  <2>1. UNCHANGED student /\ \A p \in Purchases : status'[p] = "approved" => status[p] = "approved"
    BY <1>5 DEF InsertOrder, SaveSubmission, Commit, OrderInv, TypeOK
  <2>2. \A v \in Workers : pc'[v] \in {"referral", "approve"} =>
          /\ pc[v] \in {"referral", "approve"} /\ target'[v] = target[v]
          /\ couponLock = v => couponLock' = v
    BY <1>5, PaymentAssumption
    DEF InsertOrder, SaveSubmission, Commit, Finish, ReleaseLocks, locals, OrderInv, TypeOK,
        PaymentAssumption
  <2> QED BY <2>1, <2>2, FewerApproved, PaymentAssumption DEF PaymentAssumption
<1>6. ASSUME NEW w \in Workers, NEW p \in Purchases,
             Cancel(w, p) \/ Reject(w, p) \/ RequestResubmission(w, p) \/ Refund(w, p)
                \/ Expire(w, p)
      PROVE  PerUserInv'
  <2>1. PICK from, to : Decide(w, p, from, to) /\ to # "approved"
    BY <1>6 DEF Cancel, Reject, RequestResubmission, Refund, Expire
  <2>2. \A x \in Purchases : status'[x] = "approved" => status[x] = "approved"
    BY <2>1 DEF Decide, Commit, OrderInv, TypeOK
  <2>3. \A v \in Workers : pc'[v] \in {"referral", "approve"} =>
          pc[v] \in {"referral", "approve"} /\ target'[v] = target[v]
    BY <2>1 DEF Decide, Commit, OrderInv, TypeOK
  <2> QED BY <2>1, <2>2, <2>3, FewerApproved, PaymentAssumption DEF Decide, PaymentAssumption
<1> QED BY <1>1, <1>2, <1>3, <1>4, <1>5, <1>6 DEF Next, Student, Administrator, Cron, Continue

LEMMA PerUserInit == Init => PerUserInv
<1> SUFFICES ASSUME Init PROVE PerUserInv
  OBVIOUS
<1>1. \A u \in Users : ApprovedCoupons(u) = {}
  BY PaymentAssumption DEF Init, ApprovedCoupons, PaymentAssumption
<1>2. CouponPerUser
  BY <1>1, FS_EmptySet, PaymentAssumption DEF CouponPerUser, ApprovedCoupons, PaymentAssumption
<1> QED BY <1>2 DEF Init, PerUserInv, HasStudentRoom

\* No student holds more approved orders with the coupon than one student may, for
\* any number of orders, students and threads: the check and the approval are under
\* the coupon's lock, edits of the coupon and refunds in between included (activate).
THEOREM CouponPerUserHolds == Spec => []CouponPerUser
<1>1. PerUserInv => CouponPerUser
  BY DEF PerUserInv
<1>2. OrderInv /\ PerUserInv /\ [Next]_vars => PerUserInv'
  BY PerUserStep
<1> QED BY <1>1, <1>2, PerUserInit, OrderInvariant, PTL DEF Spec
=============================================================================
