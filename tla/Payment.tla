------------------------------ MODULE Payment -------------------------------
(***************************************************************************)
(* The life of purchase orders: creation with a coupon, proof of payment,  *)
(* the administrator's decision, expiry, cancellation and refund, with the *)
(* coupon's usage counter, the referral reward and the audit log.          *)
(*                                                                         *)
(* Code: billing/payment_service.py, PurchaseViewSet, CouponViewSet and    *)
(* ExpireStalePaymentsView (billing/views.py), billing/models.py.  What an *)
(* approval grants and a refund takes back is module PurchaseAccess.       *)
(*                                                                         *)
(* Every operation locks its Purchase row.  One that does nothing else in  *)
(* its transaction is one action, enabled when the row is free; submit and *)
(* activate, which wait or read other rows in between, are several.        *)
(***************************************************************************)
EXTENDS Integers, FiniteSets

CONSTANTS
    Purchases,      \* identities available for Purchase rows
    Users,          \* the students
    Referred,       \* the students somebody referred
    References,     \* transaction references a student may type
    CouponOrders,   \* the orders placed with THE coupon of the model
    FreeOrders,     \* the orders whose final amount is zero
    MaxUses,        \* Coupon.max_uses
    MaxUsesPerUser, \* Coupon.max_uses_per_user; zero is no limit at redemption
    Workers,        \* server threads
    NoWorker, NoPurchase, NoReference,
    Window,         \* Purchase.EXPIRY_MINUTES
    MaxTime         \* the clock stops here (bound)

ASSUME PaymentAssumption ==
    /\ IsFiniteSet(Purchases)
    /\ Referred \subseteq Users
    /\ CouponOrders \subseteq Purchases /\ FreeOrders \subseteq Purchases
    /\ NoWorker \notin Workers /\ NoPurchase \notin Purchases
    /\ NoReference \notin References
    /\ {MaxUses, MaxUsesPerUser, Window, MaxTime} \subseteq Nat

VARIABLES
    now,
    student,        \* who places each order; never changes
    status, reference, deadline,   \* the Purchase rows
    audit,          \* PaymentAuditLog: the statuses recorded for each order
    usage,          \* Coupon.usage_count
    redeemed,       \* history: the orders ever approved with the coupon
    lost,           \* history: a form wrote back a counter that had moved
    rewards,        \* how often the referrer was paid for this student
    purchaseLock, couponLock,
    pc, target, typed, reward, stale, event  \* the request each worker is running

rows == <<student, status, reference, deadline, audit>>
coupon == <<usage, redeemed, lost>>
locals == <<target, typed, reward, stale, event>>
vars == <<now, rows, coupon, rewards, purchaseLock, couponLock, pc, locals>>

Open == {"unpaid", "pending", "resubmission_requested", "approved"}
Final == {"rejected", "expired", "cancelled", "refunded"}
Statuses == {"none"} \cup Open \cup Final

-----------------------------------------------------------------------------
IsExpired(p) == p \notin FreeOrders /\ status[p] = "unpaid" /\ now > deadline[p]

\* The orders of p's student that carry the coupon, other than p itself.
CouponOrdersOf(p, states) ==
    {x \in CouponOrders \ {p} : student[x] = student[p] /\ status[x] \in states}

SameReference(p, ref, states) ==
    /\ ref # NoReference
    /\ \E x \in Purchases \ {p} : reference[x] = ref /\ status[x] \in states

Unlocked(p) == purchaseLock[p] = NoWorker

ReleaseLocks(w) ==
    /\ purchaseLock' = [p \in Purchases |-> IF purchaseLock[p] = w THEN NoWorker
                                            ELSE purchaseLock[p]]
    /\ couponLock' = IF couponLock = w THEN NoWorker ELSE couponLock

Finish(w) ==
    /\ pc' = [pc EXCEPT ![w] = "idle"]
    /\ target' = [target EXCEPT ![w] = NoPurchase]
    /\ typed' = [typed EXCEPT ![w] = NoReference]
    /\ reward' = [reward EXCEPT ![w] = FALSE]
    /\ stale' = [stale EXCEPT ![w] = 0]
    /\ event' = [event EXCEPT ![w] = "none"]

\* The transaction sets p's status and commits; the audit entry comes after.
Commit(w, p, new) ==
    /\ status' = [status EXCEPT ![p] = new]
    /\ pc' = [pc EXCEPT ![w] = "audit"]
    /\ target' = [target EXCEPT ![w] = p]
    /\ event' = [event EXCEPT ![w] = new]
    /\ UNCHANGED <<typed, reward, stale>>

-----------------------------------------------------------------------------
(* Placing an order *)

\* compute_price: the coupon's limits as they stand now; nothing is locked.
RequestOrder(w, p) ==
    /\ pc[w] = "idle" /\ status[p] = "none" /\ \A v \in Workers : target[v] # p
    /\ p \in CouponOrders =>
         /\ usage < MaxUses
         /\ Cardinality(CouponOrdersOf(p, Open)) < MaxUsesPerUser
    /\ pc' = [pc EXCEPT ![w] = "order"]
    /\ target' = [target EXCEPT ![w] = p]
    /\ UNCHANGED <<now, rows, coupon, rewards, purchaseLock, couponLock, typed, reward, stale, event>>

\* The row is inserted; an order with nothing to pay is activated at once.
InsertOrder(w) ==
    /\ pc[w] = "order"
    /\ status' = [status EXCEPT ![target[w]] = "unpaid"]
    /\ deadline' = [deadline EXCEPT ![target[w]] = now + Window]
    /\ IF target[w] \in FreeOrders
       THEN pc' = [pc EXCEPT ![w] = "activate"] /\ UNCHANGED locals
       ELSE Finish(w)
    /\ UNCHANGED <<now, student, reference, audit, coupon, rewards, purchaseLock, couponLock>>

-----------------------------------------------------------------------------
(* submit: the row stays locked while the screenshot is uploaded *)

BeginSubmit(w, p, ref) ==
    /\ pc[w] = "idle" /\ Unlocked(p)
    /\ status[p] \in {"unpaid", "resubmission_requested"}
    /\ ~IsExpired(p)
    /\ ~SameReference(p, ref, {"pending", "approved"})
    /\ purchaseLock' = [purchaseLock EXCEPT ![p] = w]
    /\ pc' = [pc EXCEPT ![w] = "submit"]
    /\ target' = [target EXCEPT ![w] = p]
    /\ typed' = [typed EXCEPT ![w] = ref]
    /\ UNCHANGED <<now, rows, coupon, rewards, couponLock, reward, stale, event>>

SaveSubmission(w) ==
    /\ pc[w] = "submit"
    /\ Commit(w, target[w], "pending")
    /\ reference' = [reference EXCEPT ![target[w]] = typed[w]]
    /\ ReleaseLocks(w)
    /\ UNCHANGED <<now, student, deadline, audit, coupon, rewards>>

-----------------------------------------------------------------------------
(* activate *)

\* An administrator approves: lock the row, check status and reference.
BeginActivate(w, p) ==
    /\ pc[w] = "idle" /\ Unlocked(p)
    /\ status[p] = "pending"
    /\ ~SameReference(p, reference[p], {"approved"})
    /\ purchaseLock' = [purchaseLock EXCEPT ![p] = w]
    /\ pc' = [pc EXCEPT ![w] = "coupon"]
    /\ target' = [target EXCEPT ![w] = p]
    /\ UNCHANGED <<now, rows, coupon, rewards, couponLock, typed, reward, stale, event>>

\* activate(allow_unpaid=True), for an order with nothing to pay.
FreeActivationAllowed(p) ==
    status[p] \in {"pending", "unpaid"} /\ ~SameReference(p, reference[p], {"approved"})

BeginActivateFree(w) ==
    /\ pc[w] = "activate" /\ Unlocked(target[w])
    /\ FreeActivationAllowed(target[w])
    /\ purchaseLock' = [purchaseLock EXCEPT ![target[w]] = w]
    /\ pc' = [pc EXCEPT ![w] = "coupon"]
    /\ UNCHANGED <<now, rows, coupon, rewards, couponLock, locals>>

\* Decided before the row was locked: PaymentError, nothing changes.
RefuseFree(w) ==
    /\ pc[w] = "activate" /\ Unlocked(target[w])
    /\ ~FreeActivationAllowed(target[w])
    /\ Finish(w)
    /\ UNCHANGED <<now, rows, coupon, rewards, purchaseLock, couponLock>>

\* Wrong: one redemption too many, or no limit for one student.
CouponWasNotExceeded(p) ==
    /\ usage <= MaxUses
    /\ MaxUsesPerUser > 0 => Cardinality(CouponOrdersOf(p, {"approved"})) < MaxUsesPerUser
CouponHasGlobalRoom(p) == usage < MaxUses

\* Both limits, as activate() checks them.
CouponHasRoom(p) ==
    /\ usage < MaxUses
    /\ MaxUsesPerUser > 0 => Cardinality(CouponOrdersOf(p, {"approved"})) < MaxUsesPerUser

\* SELECT ... FOR UPDATE on the coupon, then its limits.
LockCoupon(w) ==
    /\ pc[w] = "coupon"
    /\ IF target[w] \in CouponOrders
       THEN couponLock = NoWorker /\ CouponHasRoom(target[w]) /\ couponLock' = w
       ELSE UNCHANGED couponLock
    /\ pc' = [pc EXCEPT ![w] = "referral"]
    /\ UNCHANGED <<now, rows, coupon, rewards, purchaseLock, locals>>

\* A limit is reached: PaymentError rolls the activation back.
RefuseCoupon(w) ==
    /\ pc[w] = "coupon"
    /\ target[w] \in CouponOrders /\ couponLock = NoWorker /\ ~CouponHasRoom(target[w])
    /\ ReleaseLocks(w)
    /\ Finish(w)
    /\ UNCHANGED <<now, rows, coupon, rewards>>

\* _maybe_reward_referrer: is this the student's first approved purchase?
CheckReferral(w) ==
    /\ pc[w] = "referral"
    /\ LET p == target[w]
           first == ~\E x \in Purchases \ {p} : student[x] = student[p] /\ status[x] = "approved"
       IN reward' = [reward EXCEPT ![w] = student[p] \in Referred /\ first]
    /\ pc' = [pc EXCEPT ![w] = "approve"]
    /\ UNCHANGED <<now, rows, coupon, rewards, purchaseLock, couponLock, target, typed, stale, event>>

\* Commit: approved, one more redemption, the referrer's wallet credited.
CommitActivate(w) ==
    /\ pc[w] = "approve"
    /\ LET p == target[w]
       IN /\ Commit(w, p, "approved")
          /\ usage' = IF p \in CouponOrders THEN usage + 1 ELSE usage
          /\ redeemed' = IF p \in CouponOrders THEN redeemed \cup {p} ELSE redeemed
          /\ rewards' = IF reward[w] THEN [rewards EXCEPT ![student[p]] = @ + 1] ELSE rewards
    /\ ReleaseLocks(w)
    /\ UNCHANGED <<now, student, reference, deadline, audit, lost>>

-----------------------------------------------------------------------------
(* The other decisions *)

\* One locked transaction: from a status of `from` to `to`.
Decide(w, p, from, to) ==
    /\ pc[w] = "idle" /\ Unlocked(p)
    /\ status[p] \in from
    /\ Commit(w, p, to)
    /\ UNCHANGED <<now, student, reference, deadline, audit, coupon, rewards, purchaseLock, couponLock>>

\* Wrong: the row is read without FOR UPDATE.
RejectUnlocked(w, p) ==
    /\ pc[w] = "idle"
    /\ status[p] \in {"pending", "resubmission_requested"}
    /\ Commit(w, p, "rejected")
    /\ UNCHANGED <<now, student, reference, deadline, audit, coupon, rewards, purchaseLock, couponLock>>

Reject(w, p) == Decide(w, p, {"pending", "resubmission_requested"}, "rejected")
RequestResubmission(w, p) == Decide(w, p, {"pending"}, "resubmission_requested")
Cancel(w, p) == Decide(w, p, {"unpaid", "resubmission_requested"}, "cancelled")
\* The scheduled ExpireStalePaymentsView calls expire() for every stale order.
Expire(w, p) == IsExpired(p) /\ Decide(w, p, {"unpaid"}, "expired")
\* A refund leaves the coupon's count and the referrer's wallet alone.
Refund(w, p) == Decide(w, p, {"approved"}, "refunded")

RecordEvent(w) ==
    /\ pc[w] = "audit"
    /\ audit' = [audit EXCEPT ![target[w]] = @ \cup {event[w]}]
    /\ Finish(w)
    /\ UNCHANGED <<now, student, status, reference, deadline, coupon, rewards, purchaseLock, couponLock>>

-----------------------------------------------------------------------------
(* An administrator edits the coupon: CouponViewSet.update *)

\* get_object reads the row, with its counter ...
BeginEdit(w) ==
    /\ pc[w] = "idle"
    /\ pc' = [pc EXCEPT ![w] = "edit"]
    /\ stale' = [stale EXCEPT ![w] = usage]
    /\ UNCHANGED <<now, rows, coupon, rewards, purchaseLock, couponLock, target, typed, reward, event>>

\* ... and save() writes every column back.
SaveEdit(w) ==
    /\ pc[w] = "edit" /\ couponLock = NoWorker
    /\ usage' = stale[w]
    /\ lost' = (lost \/ stale[w] # usage)
    /\ Finish(w)
    /\ UNCHANGED <<now, rows, redeemed, rewards, purchaseLock, couponLock>>

-----------------------------------------------------------------------------
\* The server process dies: its transaction is rolled back.
Crash(w) ==
    /\ pc[w] # "idle"
    /\ ReleaseLocks(w)
    /\ Finish(w)
    /\ UNCHANGED <<now, rows, coupon, rewards>>

Tick ==
    /\ now < MaxTime
    /\ now' = now + 1
    /\ UNCHANGED <<rows, coupon, rewards, purchaseLock, couponLock, pc, locals>>

Init ==
    /\ now = 0
    /\ student \in [Purchases -> Users]
    /\ status = [p \in Purchases |-> "none"]
    /\ reference = [p \in Purchases |-> NoReference]
    /\ deadline = [p \in Purchases |-> 0]
    /\ audit = [p \in Purchases |-> {}]
    /\ usage = 0 /\ redeemed = {} /\ lost = FALSE
    /\ rewards = [u \in Users |-> 0]
    /\ purchaseLock = [p \in Purchases |-> NoWorker]
    /\ couponLock = NoWorker
    /\ pc = [w \in Workers |-> "idle"]
    /\ target = [w \in Workers |-> NoPurchase]
    /\ typed = [w \in Workers |-> NoReference]
    /\ reward = [w \in Workers |-> FALSE]
    /\ stale = [w \in Workers |-> 0]
    /\ event = [w \in Workers |-> "none"]

Student(w) == \E p \in Purchases :
    \/ RequestOrder(w, p) \/ Cancel(w, p)
    \/ \E ref \in References : BeginSubmit(w, p, ref)

Administrator(w) ==
    \/ \E p \in Purchases : \/ BeginActivate(w, p) \/ Reject(w, p)
                            \/ RequestResubmission(w, p) \/ Refund(w, p)
    \/ BeginEdit(w)

Cron(w) == \E p \in Purchases : Expire(w, p)

Continue(w) ==
    \/ InsertOrder(w) \/ SaveSubmission(w) \/ BeginActivateFree(w) \/ RefuseFree(w)
    \/ LockCoupon(w) \/ RefuseCoupon(w) \/ CheckReferral(w) \/ CommitActivate(w)
    \/ RecordEvent(w) \/ SaveEdit(w)

Next ==
    \/ Tick
    \/ \E w \in Workers :
         Student(w) \/ Administrator(w) \/ Cron(w) \/ Continue(w) \/ Crash(w)

Spec == Init /\ [][Next]_vars

-----------------------------------------------------------------------------
(* Properties *)

PcValues == {"idle", "order", "submit", "activate", "coupon", "referral", "approve",
             "audit", "edit"}

TypeOK ==
    /\ now \in Nat
    /\ student \in [Purchases -> Users]
    /\ status \in [Purchases -> Statuses]
    /\ reference \in [Purchases -> References \cup {NoReference}]
    /\ deadline \in [Purchases -> Nat]
    /\ audit \in [Purchases -> SUBSET Statuses]
    /\ usage \in Nat /\ redeemed \subseteq Purchases /\ lost \in BOOLEAN
    /\ rewards \in [Users -> Nat]
    /\ purchaseLock \in [Purchases -> Workers \cup {NoWorker}]
    /\ couponLock \in Workers \cup {NoWorker}
    /\ pc \in [Workers -> PcValues]
    /\ target \in [Workers -> Purchases \cup {NoPurchase}]
    /\ typed \in [Workers -> References \cup {NoReference}]
    /\ reward \in [Workers -> BOOLEAN]
    /\ stale \in [Workers -> Nat]
    /\ event \in [Workers -> Statuses]
    /\ \A w \in Workers :
         /\ pc[w] \notin {"idle", "edit"} => target[w] \in Purchases
         /\ pc[w] = "submit" => typed[w] \in References

\* "The (max_uses + 1)th approval always loses": however many orders were placed
\* with the coupon while it had room, no more than max_uses are ever approved,
\* unless the coupon's form wrote back a counter that had moved meanwhile.
CouponCap == ~lost => Cardinality(redeemed) <= MaxUses

\* No student holds more approved orders with the coupon than one student may.
CouponPerUser ==
    MaxUsesPerUser > 0 =>
        \A u \in Users :
            Cardinality({p \in CouponOrders : student[p] = u /\ status[p] = "approved"})
                <= MaxUsesPerUser

\* A decision is final: an approved order can only be refunded, and an order
\* that was rejected, expired, cancelled or refunded stays so.
DecidedOnce ==
    [][\A p \in Purchases :
          /\ status[p] \in Final => status'[p] = status[p]
          /\ status[p] = "approved" => status'[p] \in {"approved", "refunded"}]_vars

\* Whatever was approved was paid for: with proof the administrator had before
\* deciding, or with nothing to pay.
ApprovedWithProof ==
    \A p \in Purchases : status[p] \in {"approved", "refunded"} =>
        p \in FreeOrders \/ reference[p] # NoReference

-----------------------------------------------------------------------------
(* The inductive invariant *)

\* Nobody else works on an order that is being created.
CreatesAlone(w) ==
    pc[w] = "order" =>
        /\ status[target[w]] = "none"
        /\ \A v \in Workers \ {w} : target[v] # target[w]

\* submit and activate hold their order's row, whose status cannot change.
HoldsPurchase(w) ==
    /\ pc[w] \in {"submit", "coupon", "referral", "approve"} =>
         purchaseLock[target[w]] = w
    /\ pc[w] = "submit" => status[target[w]] \in {"unpaid", "resubmission_requested"}
    /\ pc[w] \in {"coupon", "referral", "approve"} =>
         \/ status[target[w]] = "pending"
         \/ status[target[w]] = "unpaid" /\ target[w] \in FreeOrders

\* Only the orders placed for nothing go on to be activated unpaid.
ActivatesFree(w) == pc[w] = "activate" => target[w] \in FreeOrders

\* An activation past the coupon check holds the coupon, which still has room.
HoldsCoupon(w) ==
    pc[w] \in {"referral", "approve"} /\ target[w] \in CouponOrders =>
        couponLock = w /\ usage < MaxUses

\* The coupon's counter counts the orders ever approved with it, until a form
\* takes it back.
CounterExact ==
    /\ redeemed \subseteq CouponOrders
    /\ \A p \in redeemed : status[p] \in {"approved", "refunded"}
    /\ ~lost => usage = Cardinality(redeemed) /\ usage <= MaxUses

\* What an administrator may still approve carries a reference or costs nothing.
ReferencedWhenPending ==
    \A p \in Purchases :
        status[p] \in {"pending", "resubmission_requested", "approved", "refunded"} =>
            p \in FreeOrders \/ reference[p] # NoReference

OrderInv ==
    /\ TypeOK
    /\ \A w \in Workers : CreatesAlone(w) /\ HoldsPurchase(w) /\ ActivatesFree(w)
    /\ ReferencedWhenPending

CouponInv == CounterExact /\ \A w \in Workers : HoldsCoupon(w)

\* Such an activation found room for its student too, and the coupon's lock keeps it.
HasStudentRoom(w) ==
    pc[w] \in {"referral", "approve"} /\ target[w] \in CouponOrders /\ MaxUsesPerUser > 0 =>
        /\ couponLock = w
        /\ Cardinality(CouponOrdersOf(target[w], {"approved"})) < MaxUsesPerUser

PerUserInv == CouponPerUser /\ \A w \in Workers : HasStudentRoom(w)

IInv == OrderInv /\ CouponInv /\ PerUserInv

=============================================================================
