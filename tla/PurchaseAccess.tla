--------------------------- MODULE PurchaseAccess ---------------------------
(***************************************************************************)
(* What an approved order gives a student and what its refund takes back:  *)
(* subscriptions that orders, manual grants and scholarships create and    *)
(* extend, access to a Grand Test, enrolment in a teacher's course, and    *)
(* the ledger of grants (PurchaseEntitlementGrant) that makes each order   *)
(* reversible.                                                             *)
(*                                                                         *)
(* Code: billing/payment_service.py (_activate_product, refund and their   *)
(* helpers), billing/views.py (GrantAccessView, ScholarshipViewSet.revoke, *)
(* the checks of PurchaseViewSet.create).                                  *)
(*                                                                         *)
(* The model is the projection on ONE student, one subscription product,   *)
(* one Grand Test and one course: rows of different ones never meet.  A    *)
(* combo is a "subscription" source, seen through the plan of this product;*)
(* a "package" is a bundle of Grand Tests that contains this one.  The     *)
(* clock readings of one request are one instant.                          *)
(***************************************************************************)
EXTENDS Integers, FiniteSets

CONSTANTS
    Sources,        \* identities of orders, manual grants and scholarships
    Durations,      \* the days a source may be for; zero is access without end
    Subscriptions,  \* identities of Subscription rows, newest = greatest
    TestRow,        \* the student's GrandTestAccess row
    CourseRow,      \* the student's CourseEnrollment row
    NoRow,
    NoEnd,          \* expires_at IS NULL
    Workers,        \* server threads
    NoSource,
    MaxTime         \* the clock stops here (bound)

OrderKinds == {"subscription", "grand_test", "package", "teacher_course"}
GrantKinds == {"manual", "scholarship"}
Rows == Subscriptions \cup {TestRow, CourseRow}

ASSUME AccessAssumption ==
    /\ Durations \subseteq Nat
    /\ Subscriptions \subseteq Nat /\ IsFiniteSet(Subscriptions)
    /\ TestRow \notin Subscriptions /\ CourseRow \notin Subscriptions \cup {TestRow}
    /\ NoRow \notin Rows /\ NoEnd \notin Nat
    /\ NoSource \notin Sources /\ MaxTime \in Nat

VARIABLES
    now,
    kind, days, \* what each source is for
    status,     \* of an order; a manual grant or a scholarship is "approved" once saved
    access,     \* the access rows, with is_active (a test's: not revoked) and expires_at
    ledger,     \* PurchaseEntitlementGrant of an order; for the others only the row
    recorded,   \* the scholarships whose Scholarship row exists
    reversals,  \* history: how often the grant of an order was reversed
    overlapped, \* history: whether two requests ever ran at the same time
    pc, target, seen    \* the request each worker is running, and what it has read

sources == <<kind, days>>
history == <<reversals, overlapped>>
locals == <<pc, target, seen>>
vars == <<now, sources, status, access, ledger, recorded, history, locals>>

Orders == {s \in Sources : kind[s] \in OrderKinds}
Renews(s) == kind[s] \in {"subscription", "manual", "scholarship"}

NoAccess == [exists |-> FALSE, active |-> FALSE, start |-> 0, end |-> NoEnd]
NoGrant == [row |-> NoRow, created |-> FALSE, previous |-> NoEnd, granted |-> NoEnd, revoked |-> FALSE]
Unseen == [row |-> NoRow, end |-> NoEnd, at |-> 0, others |-> FALSE]

-----------------------------------------------------------------------------
Lasts(end) == end = NoEnd \/ end >= now

Usable(r) == access[r].exists /\ access[r].active /\ Lasts(access[r].end)

\* Subscription.scholarship: a Scholarship row points at r.
OfScholarship(r) == \E s \in recorded : ledger[s].row = r

\* Wrong: whatever its origin.
ExtendableAny(scholarship) == {r \in Subscriptions : Usable(r)}

\* The rows a source may extend: of its own origin, active, not run out.
Extendable(scholarship) ==
    {r \in Subscriptions : Usable(r) /\ (OfScholarship(r) <=> scholarship)}

\* .first() of the rows in S, newest first.
IsNewest(r, S) == IF S = {} THEN r = NoRow ELSE r \in S /\ \A x \in S : x <= r

\* The live grants of other orders on row r.
OtherGrants(s, r) ==
    {x \in Orders \ {s} : ledger[x].row = r /\ ~ledger[x].revoked}

Free(s) == \A w \in Workers : target[w] # s

Read(w, s, step, r, others) ==
    /\ pc' = [pc EXCEPT ![w] = step]
    /\ target' = [target EXCEPT ![w] = s]
    /\ seen' = [seen EXCEPT ![w] = [row |-> r, others |-> others,
                                    end |-> IF r = NoRow THEN NoEnd ELSE access[r].end,
                                    at |-> now]]
    /\ overlapped' = (overlapped \/ \E v \in Workers \ {w} : pc[v] # "idle")

Finish(w) ==
    /\ pc' = [pc EXCEPT ![w] = "idle"]
    /\ target' = [target EXCEPT ![w] = NoSource]
    /\ seen' = [seen EXCEPT ![w] = Unseen]

-----------------------------------------------------------------------------
(* Placing an order *)

\* PurchaseViewSet.create refuses what the student has: for a Grand Test any
\* access row counts, for a course only one that is in force.
AlreadyHas(k) ==
    \/ k = "grand_test" /\ access[TestRow].exists
    \/ k = "teacher_course" /\ Usable(CourseRow)

Order(s, k, d) ==
    /\ k \in OrderKinds /\ kind[s] = "none"
    /\ ~AlreadyHas(k)
    /\ kind' = [kind EXCEPT ![s] = k] /\ days' = [days EXCEPT ![s] = d]
    /\ status' = [status EXCEPT ![s] = "ordered"]
    /\ UNCHANGED <<now, access, ledger, recorded, history, locals>>

-----------------------------------------------------------------------------
(* Granting: _activate_product under the order's lock, GrantAccessView *)

\* activate: the order's row is locked, then the row to extend is looked up,
\* without a lock.
BeginActivate(w, s) ==
    /\ pc[w] = "idle" /\ Free(s)
    /\ s \in Orders /\ status[s] = "ordered"
    /\ \E r \in Subscriptions \cup {NoRow} :
         /\ IF Renews(s) THEN IsNewest(r, Extendable(FALSE)) ELSE r = NoRow
         /\ Read(w, s, "grant", r, FALSE)
    /\ UNCHANGED <<now, sources, status, access, ledger, recorded, reversals>>

\* GrantAccessView: a manual grant, or a scholarship.
BeginGrant(w, s, k, d) ==
    /\ pc[w] = "idle"
    /\ k \in GrantKinds /\ kind[s] = "none"
    /\ kind' = [kind EXCEPT ![s] = k] /\ days' = [days EXCEPT ![s] = d]
    /\ \E r \in Subscriptions \cup {NoRow} :
         IsNewest(r, Extendable(k = "scholarship")) /\ Read(w, s, "grant", r, FALSE)
    /\ UNCHANGED <<now, status, access, ledger, recorded, reversals>>

EndAfter(from, s) == IF days[s] = 0 THEN NoEnd ELSE from + days[s]

\* Record the grant of s on row r; only an order's grant is in the ledger table.
Grant(w, s, r, row, created, previous) ==
    /\ access' = [access EXCEPT ![r] = row]
    /\ ledger' = [ledger EXCEPT ![s] = [row |-> r, created |-> created, previous |-> previous,
                                        granted |-> row.end, revoked |-> FALSE]]
    /\ status' = [status EXCEPT ![s] = "approved"]
    /\ IF kind[s] = "scholarship"
       THEN pc' = [pc EXCEPT ![w] = "record"] /\ UNCHANGED <<target, seen>>
       ELSE Finish(w)
    /\ UNCHANGED <<now, sources, recorded, history>>

\* No row to extend: a new Subscription.
CreateSubscription(w) ==
    LET s == target[w]
        new == {r \in Subscriptions : ~access[r].exists}
    IN /\ pc[w] = "grant" /\ Renews(s) /\ seen[w].row = NoRow
       /\ \E r \in new :
            /\ \A x \in new : r <= x
            /\ Grant(w, s, r,
                     [exists |-> TRUE, active |-> TRUE, start |-> seen[w].at,
                      end |-> EndAfter(seen[w].at, s)],
                     TRUE, NoEnd)

\* Extend the row that was read: from its end, or from now.  save() writes
\* every column, is_active included.
ExtendSubscription(w) ==
    LET s == target[w]
        r == seen[w].row
        from == IF seen[w].end # NoEnd /\ seen[w].end > seen[w].at THEN seen[w].end
                                                                   ELSE seen[w].at
    IN /\ pc[w] = "grant" /\ Renews(s) /\ r # NoRow
       /\ Grant(w, s, r, [access[r] EXCEPT !.active = TRUE, !.end = EndAfter(from, s)],
                FALSE, seen[w].end)

\* get_or_create on the row that is unique for student and test: it is granted
\* anew, unless a package finds it in force.
GrantTest(w) ==
    LET s == target[w]
        old == access[TestRow]
    IN /\ pc[w] = "grant" /\ kind[s] \in {"grand_test", "package"}
       /\ IF kind[s] = "package" /\ old.exists /\ old.active
          THEN /\ status' = [status EXCEPT ![s] = "approved"]
               /\ Finish(w)
               /\ UNCHANGED <<now, sources, access, ledger, recorded, history>>
          ELSE Grant(w, s, TestRow,
                     [exists |-> TRUE, active |-> TRUE, start |-> now, end |-> NoEnd],
                     ~old.exists, NoEnd)

\* get_or_create on the row that is unique for student and course; an old
\* enrolment gets its new end, counted from now.
GrantCourse(w) ==
    LET s == target[w]
        old == access[CourseRow]
        end == EndAfter(now, s)
    IN /\ pc[w] = "grant" /\ kind[s] = "teacher_course"
       /\ Grant(w, s, CourseRow,
                [exists |-> TRUE, active |-> TRUE, end |-> end,
                 start |-> IF old.exists THEN old.start ELSE now],
                ~old.exists, old.end)

\* Scholarship.objects.create, after the subscription is saved; the row is
\* unique per subscription, so a renewed scholarship ends in a server error.
RecordScholarship(w) ==
    /\ pc[w] = "record"
    /\ recorded' = IF OfScholarship(ledger[target[w]].row) THEN recorded
                                                           ELSE recorded \cup {target[w]}
    /\ Finish(w)
    /\ UNCHANGED <<now, sources, status, access, ledger, history>>

-----------------------------------------------------------------------------
(* Taking back: refund under the order's lock, ScholarshipViewSet.revoke *)

\* The row whose grant is still to be reversed.
ToReverse(s) == IF ledger[s].revoked THEN NoRow ELSE ledger[s].row

\* Wrong: the order's row is not locked.
BeginRefundUnlocked(w, s) ==
    /\ pc[w] = "idle"
    /\ s \in Orders /\ status[s] = "approved"
    /\ Read(w, s, "refund", ToReverse(s), OtherGrants(s, ledger[s].row) # {})
    /\ UNCHANGED <<now, sources, status, access, ledger, recorded, reversals>>

\* The grant's row and the other live grants on it are read; only the order
\* is locked.
BeginRefund(w, s) ==
    /\ pc[w] = "idle" /\ Free(s)
    /\ s \in Orders /\ status[s] = "approved"
    /\ Read(w, s, "refund", ToReverse(s), OtherGrants(s, ledger[s].row) # {})
    /\ UNCHANGED <<now, sources, status, access, ledger, recorded, reversals>>

\* Wrong: every grant is taken to have begun with the row.
ContributionFromStart(g) == g.granted - access[g.row].start

\* _grant_contribution: the time a grant with an end added.
Contribution(g) ==
    g.granted - IF g.previous = NoEnd THEN access[g.row].start ELSE g.previous

\* Wrong: the order that created a row takes it away, whoever paid since.
ReversedByCreator(w, s) ==
    LET old == access[seen[w].row]
    IN IF seen[w].row = TestRow \/ ledger[s].created THEN [old EXCEPT !.active = FALSE]
       ELSE IF seen[w].end = NoEnd \/ ledger[s].granted = NoEnd THEN old
       ELSE [old EXCEPT !.end = seen[w].end - Contribution(ledger[s])]

\* _reverse_grant: a Grand Test is revoked; another row goes when this order
\* alone made it, and otherwise gives back the time the order added.
Reversed(w, s) ==
    LET old == access[seen[w].row]
    IN IF seen[w].row = TestRow \/ (ledger[s].created /\ ~seen[w].others)
       THEN [old EXCEPT !.active = FALSE]
       ELSE IF seen[w].end = NoEnd \/ ledger[s].granted = NoEnd THEN old
       ELSE [old EXCEPT !.end = seen[w].end - Contribution(ledger[s])]

CommitRefund(w) ==
    LET s == target[w]
    IN /\ pc[w] = "refund"
       /\ status' = [status EXCEPT ![s] = "refunded"]
       /\ IF seen[w].row = NoRow
          THEN UNCHANGED <<access, ledger, reversals>>
          ELSE /\ access' = [access EXCEPT ![seen[w].row] = Reversed(w, s)]
               /\ ledger' = [ledger EXCEPT ![s].revoked = TRUE]
               /\ reversals' = [reversals EXCEPT ![s] = @ + 1]
       /\ Finish(w)
       /\ UNCHANGED <<now, sources, recorded, overlapped>>

\* Two saves: the scholarship, then its subscription.
BeginRevoke(w, s) ==
    /\ pc[w] = "idle" /\ s \in recorded
    /\ status' = [status EXCEPT ![s] = "refunded"]
    /\ Read(w, s, "revoke", ledger[s].row, FALSE)
    /\ UNCHANGED <<now, sources, access, ledger, recorded, reversals>>

FinishRevoke(w) ==
    /\ pc[w] = "revoke"
    /\ access' = [access EXCEPT ![seen[w].row].active = FALSE]
    /\ Finish(w)
    /\ UNCHANGED <<now, sources, status, ledger, recorded, history>>

-----------------------------------------------------------------------------
\* The server process dies; what was not committed is rolled back.
Crash(w) ==
    /\ pc[w] # "idle"
    /\ Finish(w)
    /\ UNCHANGED <<now, sources, status, access, ledger, recorded, history>>

Tick ==
    /\ now < MaxTime
    /\ now' = now + 1
    /\ UNCHANGED <<sources, status, access, ledger, recorded, history, locals>>

Init ==
    /\ now = 0
    /\ kind = [s \in Sources |-> "none"]
    /\ days = [s \in Sources |-> 0]
    /\ status = [s \in Sources |-> "none"]
    /\ access = [r \in Rows |-> NoAccess]
    /\ ledger = [s \in Sources |-> NoGrant]
    /\ recorded = {}
    /\ reversals = [s \in Sources |-> 0]
    /\ overlapped = FALSE
    /\ pc = [w \in Workers |-> "idle"]
    /\ target = [w \in Workers |-> NoSource]
    /\ seen = [w \in Workers |-> Unseen]

Next ==
    \/ Tick
    \/ \E s \in Sources, k \in OrderKinds, d \in Durations : Order(s, k, d)
    \/ \E w \in Workers :
         \/ \E s \in Sources, k \in GrantKinds, d \in Durations : BeginGrant(w, s, k, d)
         \/ \E s \in Sources : BeginActivate(w, s) \/ BeginRefund(w, s) \/ BeginRevoke(w, s)
         \/ CreateSubscription(w) \/ ExtendSubscription(w) \/ GrantTest(w) \/ GrantCourse(w)
         \/ RecordScholarship(w) \/ CommitRefund(w) \/ FinishRevoke(w) \/ Crash(w)

Spec == Init /\ [][Next]_vars

-----------------------------------------------------------------------------
(* Properties *)

Statuses == {"none", "ordered", "approved", "refunded"}
PcValues == {"idle", "grant", "record", "refund", "revoke"}
Ends == Int \cup {NoEnd}

\* The type of every variable, and what a request in hand works on.
TypeOK ==
    /\ now \in Nat
    /\ kind \in [Sources -> OrderKinds \cup GrantKinds \cup {"none"}]
    /\ days \in [Sources -> Nat]
    /\ status \in [Sources -> Statuses]
    /\ access \in [Rows -> [exists: BOOLEAN, active: BOOLEAN, start: Nat, end: Ends]]
    /\ ledger \in [Sources -> [row: Rows \cup {NoRow}, created: BOOLEAN,
                              previous: Ends, granted: Ends, revoked: BOOLEAN]]
    /\ recorded \subseteq Sources
    /\ reversals \in [Sources -> Nat]
    /\ overlapped \in BOOLEAN
    /\ pc \in [Workers -> PcValues]
    /\ target \in [Workers -> Sources \cup {NoSource}]
    /\ seen \in [Workers -> [row: Rows \cup {NoRow}, end: Ends, at: Nat, others: BOOLEAN]]
    /\ \A w \in Workers : pc[w] # "idle" => target[w] \in Sources

\* An order has a live grant exactly while it is approved (a package may have
\* found nothing to grant), and a refund reverses each grant exactly once: "so
\* no reversal is ever applied twice".
LedgerExact ==
    \A s \in Orders :
        /\ ledger[s].row # NoRow => status[s] \in {"approved", "refunded"}
        /\ status[s] \in {"approved", "refunded"} /\ kind[s] # "package" => ledger[s].row # NoRow
        /\ ledger[s].row # NoRow => (ledger[s].revoked <=> status[s] = "refunded")
        /\ reversals[s] = IF ledger[s].revoked THEN 1 ELSE 0

\* The sources still paid for on row r, and the days they are for.
Paying(r) == {s \in Sources : ledger[s].row = r /\ ~ledger[s].revoked}
DaysOf(S, d) == UNION {{s} \X (1..d[s]) : s \in S}
PaidDays(r) == DaysOf(Paying(r), days)

\* No source of row r was ever without end.
Finite(r) == \A s \in Sources : ledger[s].row = r => days[s] > 0

\* Requests that do not overlap: a subscription covers, from its start, exactly
\* the time of the sources still paid for on it, whatever was refunded between:
\* a refund takes back "only this grant's own contributed duration"
\* (_reverse_access_record).  billing/models.py still has the older rule, see
\* RestoresPrevious.
PaidTimeAdds ==
    ~overlapped =>
        \A r \in Subscriptions :
            access[r].active /\ Finite(r) =>
                access[r].end = access[r].start + Cardinality(PaidDays(r))

\* Requests that do not overlap: a refund never switches off a subscription or
\* an enrolment on which another order is still paid for.
SharedAccessKept ==
    ~overlapped =>
        \A s \in Orders :
            status[s] = "approved" /\ ledger[s].row \in Rows \ {TestRow} =>
                access[ledger[s].row].active

\* Requests that do not overlap: scholarships and orders never share a row, so
\* that revoking the one cannot take the other.
OriginsApart ==
    ~overlapped =>
        \A s \in Orders, x \in recorded :
            ledger[s].row # NoRow => ledger[s].row # ledger[x].row

-----------------------------------------------------------------------------
(* The inductive invariant behind LedgerExact *)

\* Nobody else grants or refunds the order w works on, which waits for it.
HoldsOrder(w) ==
    /\ pc[w] = "grant" =>
         /\ kind[target[w]] # "none" /\ ledger[target[w]] = NoGrant
         /\ status[target[w]] = IF target[w] \in Orders THEN "ordered" ELSE "none"
    /\ pc[w] = "refund" =>
         /\ target[w] \in Orders /\ status[target[w]] = "approved"
         /\ seen[w].row = ledger[target[w]].row
    /\ pc[w] \in {"grant", "refund"} =>
         \A v \in Workers \ {w} : pc[v] \in {"grant", "refund"} => target[v] # target[w]

\* What was never granted has no grant, and no grant of it was reversed.
NothingEarly ==
    \A s \in Sources :
        /\ kind[s] = "none" => status[s] = "none"
        /\ status[s] \in {"none", "ordered"} => ledger[s] = NoGrant /\ reversals[s] = 0

\* What a Scholarship row is or will be written for is a saved scholarship.
ScholarshipSaved(s) == kind[s] = "scholarship" /\ status[s] \in {"approved", "refunded"}

ScholarshipsSaved ==
    /\ \A s \in recorded : ScholarshipSaved(s)
    /\ \A w \in Workers : pc[w] = "record" => ScholarshipSaved(target[w])

IInv ==
    /\ TypeOK
    /\ NothingEarly /\ LedgerExact /\ ScholarshipsSaved
    /\ \A w \in Workers : HoldsOrder(w)

-----------------------------------------------------------------------------
(* The inductive invariant behind the properties of requests that do not overlap *)

\* A grant is on a row that exists, a scholarship's on a subscription; so is the
\* row that is to be extended.
RowsKnown ==
    /\ \A s \in Sources : ledger[s].row # NoRow =>
         /\ access[ledger[s].row].exists
         /\ kind[s] = "scholarship" => ledger[s].row \in Subscriptions
    /\ \A w \in Workers : pc[w] = "grant" /\ seen[w].row # NoRow =>
         seen[w].row \in Subscriptions /\ access[seen[w].row].exists

OneAtATime == \A v, w \in Workers : pc[v] # "idle" /\ pc[w] # "idle" => v = w

\* What a lone request has read still holds when it writes.
Fresh(w) ==
    LET s == target[w]
        r == seen[w].row
    IN /\ pc[w] = "grant" /\ Renews(s) /\ r # NoRow =>
            /\ access[r].active /\ seen[w].end = access[r].end
            /\ seen[w].end = NoEnd \/ seen[w].end >= seen[w].at
            /\ OfScholarship(r) <=> kind[s] = "scholarship"
       /\ pc[w] = "record" =>
            ledger[s].row # NoRow /\ \A x \in Orders : ledger[x].row # ledger[s].row
       /\ pc[w] = "refund" /\ r # NoRow =>
            /\ seen[w].end = access[r].end
            /\ seen[w].others <=> OtherGrants(s, r) # {}
       /\ pc[w] = "revoke" => s \in recorded /\ ledger[s].row = r

\* What a refund takes back of a finite subscription is what the order added.
ContributionsExact ==
    \A s \in Sources : ledger[s].row \in Subscriptions /\ Finite(ledger[s].row) =>
        ledger[s].granted # NoEnd /\ Contribution(ledger[s]) = days[s]

Sequential ==
    ~overlapped =>
        /\ OneAtATime
        /\ \A w \in Workers : Fresh(w)
        /\ ContributionsExact
        /\ \A r \in Subscriptions : IsFiniteSet(PaidDays(r))

AloneInv ==
    IInv /\ RowsKnown /\ Sequential /\ OriginsApart /\ SharedAccessKept /\ PaidTimeAdds

-----------------------------------------------------------------------------
(* What comments of the repository say, and the code does not *)

\* To destroy other purchases' "separately-paid-for" access "is exactly what a
\* refund must never do".  The refund of one order for a Grand Test revokes the
\* access another approved order paid for.
TestAccessKept ==
    \A s \in Orders :
        status[s] = "approved" /\ kind[s] \in {"grand_test", "package"} => access[TestRow].active

\* PurchaseEntitlementGrant: a purchase that created the access record is
\* deactivated by its refund; of another "refund restores previous_expires_at
\* instead".  The code asks whether other orders are alive on the record and
\* takes back the time the order added.
RestoresPrevious ==
    [][\A s \in Orders :
          LET r == ledger[s].row
          IN ledger'[s].revoked /\ ~ledger[s].revoked /\ r # TestRow =>
               IF ledger[s].created THEN ~access'[r].active
                                    ELSE access'[r].end = ledger[s].previous]_vars
=============================================================================
