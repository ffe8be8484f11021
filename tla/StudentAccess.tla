---------------------------- MODULE StudentAccess -----------------------------
(***************************************************************************)
(* What one student may open, and what it costs: the button an exam card   *)
(* shows, the gate of the start request, the Free Starter allowance, the   *)
(* quota of a Mock Test subscription, and the question bank's answer gate. *)
(*                                                                         *)
(* Code: entitlements/provisioning.py, entitlements/services.py,           *)
(* billing/access.py, tests_app/access.py, tests_app/card_access.py,       *)
(* _start_attempt (tests_app/views.py), QuestionViewSet.answer             *)
(* (academics/views.py).                                                   *)
(*                                                                         *)
(* A start decides at its gate, creates the attempt in a transaction that  *)
(* locks the user row, and charges afterwards; an answer charges before it *)
(* records.  Nothing holds the decision between those steps.  Passwords,   *)
(* and accounts of staff and authors, are left out.                        *)
(***************************************************************************)
EXTENDS Integers, FiniteSets

CONSTANTS
    Tests, Type,       \* Type[t]: Test.exam_type
    Pro,               \* the tests with is_pro
    Limit,             \* Limit[t]: Test.max_attempts
    Preview,           \* the Daily Tests with free_preview_questions > 0
    Timed,             \* the tests with a window, on the Test row or a session
    BySession,         \* those whose window is an ExamSession, of any type
    Unpublished,       \* those whose session is a draft
    SessionLimit,      \* SessionLimit[t]: ExamSession.max_attempts
    Earlier,           \* Earlier[t]: attempts in sessions before the present one
    Courses,
    CoursesOf,         \* CoursesOf[t]: Test.courses
    BatchesOf,         \* BatchesOf[t]: courses whose enrolment puts the student
                       \* in a batch the test is assigned to
    Drafts, Assigned, NeedsReview,  \* is_draft, assigned_students, needs_course_review
    Questions,         \* questions of subjects that are not free
    Policies, Quantity,  \* active FreeStarterPolicy rows and their quantity
    Quota,             \* Subscription.mock_test_quota
    Products,          \* products and Grand Tests the student may buy
    Workers, NoItem,   \* server threads
    MaxCrashes,        \* threads that die (bound)
    MaxChanges         \* changes of clock, enrolments, purchases, rows (bound)

Resources == {"mock_test", "daily_test", "pyq", "grand_test", "qbank"}
Items == Tests \cup Questions

ASSUME AccessAssumption ==
    /\ Type \in [Tests -> {"mock", "daily", "pyq", "grand"}]
    /\ Tests \cap Questions = {} /\ NoItem \notin Items
    /\ Unpublished \subseteq BySession /\ BySession \subseteq Timed /\ Timed \subseteq Tests
    /\ \A t \in Timed \ BySession : Type[t] \in {"grand", "daily"}
    /\ SessionLimit \in [BySession -> Nat] /\ Earlier \in [BySession -> Nat]
    /\ \A t \in Tests : CoursesOf[t] \subseteq Courses /\ BatchesOf[t] \subseteq Courses
    /\ Limit \in [Tests -> Nat]
    /\ Policies \subseteq Resources /\ Quantity \in [Policies -> Nat]
    /\ Quota \in Nat /\ {MaxCrashes, MaxChanges} \subseteq Nat
    /\ IsFiniteSet(Workers) /\ Workers # {}

VARIABLES
    phase,            \* phase[t]: where the clock stands in t's window
    enrolled,         \* courses of the student's enrolments in force
    bought,           \* bought[x]: "never", "active" or "over"
    quotaUsed,        \* Subscription.mock_test_used
    rows, used, lapsed,  \* FreeStarterEntitlement: rows, units used, expired or revoked
    attempts, live,   \* TestAttempt rows of t (of its session, if it has one),
                      \* and whether one has status in_progress
    overtime,         \* tests whose attempt in progress is past its deadline
    met,              \* questions with a QuestionAttempt row
    pc, item, charge, seen,  \* the request each thread is running
    charged,          \* history: units charged for each item
    opened,           \* history: first uses admitted on the allowance
    doubled,          \* history: items whose requests overlapped or were refused late
    paidStarts, raced,  \* history: starts on the quota; whether two overlapped
    crashes, changes

student == <<phase, enrolled, bought>>
starter == <<rows, used, lapsed, charged, opened, doubled>>
quota == <<quotaUsed, paidStarts, raced>>
records == <<attempts, live, overtime, met>>
request == <<pc, item, charge, seen>>
vars == <<student, starter, quota, records, request, crashes, changes>>

-----------------------------------------------------------------------------
(* Academic access: may the student know this test exists? *)

\* can_access_test
CanAccess(t) ==
    /\ t \notin Drafts
    /\ \/ t \in Assigned
       \/ BatchesOf[t] \cap enrolled # {}
       \/ IF CoursesOf[t] # {} THEN CoursesOf[t] \cap enrolled # {} ELSE t \in NeedsReview

\* Wrong: the flag alone makes a test visible.
VisibleIfFlagged(t) ==
    /\ t \notin Drafts
    /\ \/ CoursesOf[t] \cap enrolled # {}
       \/ t \in NeedsReview
       \/ BatchesOf[t] \cap enrolled # {}
       \/ t \in Assigned

\* visible_test_queryset: the tests a list page shows.
Visible(t) ==
    /\ t \notin Drafts
    /\ \/ CoursesOf[t] \cap enrolled # {}
       \/ CoursesOf[t] = {} /\ t \in NeedsReview
       \/ BatchesOf[t] \cap enrolled # {}
       \/ t \in Assigned

-----------------------------------------------------------------------------
(* Commercial access *)

Resource(i) ==
    IF i \in Questions THEN "qbank"
    ELSE CASE Type[i] = "mock"  -> "mock_test"
           [] Type[i] = "daily" -> "daily_test"
           [] Type[i] = "pyq"   -> "pyq"
           [] Type[i] = "grand" -> "grand_test"

Active(x) == x \in Products /\ bought[x] = "active"

\* _quota_subscription finds a subscription in force with uses left.
QuotaLeft == Active("mock_test") /\ quotaUsed < Quota

\* has_mock_test_access and its siblings, get_grand_test_access, has_qbank_access.
Paid(i) ==
    CASE Resource(i) = "grand_test" -> Active(i)
      [] Resource(i) = "mock_test"  -> QuotaLeft
      [] OTHER                      -> Active(Resource(i))

\* Wrong: any row counts, used up or not.
AvailableIfGranted(r) == r \in Policies /\ r \notin lapsed

\* has_free_starter_available: effective_status is "active", the row provisioned first.
Available(r) == r \in Policies /\ r \notin lapsed /\ used[r] < Quantity[r]

\* get_or_create for every active policy
ProvisionRows == rows' = rows \cup Policies

-----------------------------------------------------------------------------
(* The card and the gate of the start *)

AllAttempts(t) == IF t \in BySession THEN attempts[t] + Earlier[t] ELSE attempts[t]
CardLimit(t) == IF Limit[t] = 0 THEN 1 ELSE Limit[t]
OnCard(t) == t \in Timed /\ Type[t] \in {"grand", "daily"}

\* Wrong: the schedule is not looked at.
CardStateUnscheduled(t) ==
    IF live[t] THEN "continue"
    ELSE IF AllAttempts(t) >= CardLimit(t) THEN "used_up"
    ELSE IF t \notin Pro \/ Paid(t) \/ Available(Resource(t)) THEN "start"
    ELSE "locked"

\* resolve_card_access ("used_up" is its "review" or "attempts_exhausted"),
\* with grand_test_participation_status for the schedule of two types.  It
\* counts the attempts of every session against the limit of the test.
CardState(t) ==
    IF live[t] THEN "continue"
    ELSE IF OnCard(t) /\ attempts[t] = 0 /\ phase[t] = "before" THEN "upcoming"
    ELSE IF OnCard(t) /\ attempts[t] = 0 /\ phase[t] = "closed" THEN "missed"
    ELSE IF AllAttempts(t) >= CardLimit(t) THEN "used_up"
    ELSE IF t \notin Pro \/ Paid(t) \/ Available(Resource(t)) THEN "start"
    ELSE "locked"

StartLimit(t) == IF t \in BySession THEN SessionLimit[t] ELSE Limit[t]

InWindow(t) ==
    t \in Timed =>
        \/ phase[t] = "open"
        \/ phase[t] = "closed" /\ t \notin BySession /\ attempts[t] > 0

\* _free_starter_eligibility is asked: no paid access and no preview; a prior
\* attempt of the test lets the student through without a charge.
NeedsStarter(t) == t \in Pro /\ ~Paid(t) /\ t \notin Preview /\ AllAttempts(t) = 0

\* Everything _start_attempt checks before its transaction.
GateOpen(t) ==
    /\ CanAccess(t)
    /\ InWindow(t)
    /\ NeedsStarter(t) => Available(Resource(t))

Busy(w) == pc[w] # "idle"
Finish(w) ==
    /\ pc' = [pc EXCEPT ![w] = "idle"]
    /\ item' = [item EXCEPT ![w] = NoItem]
    /\ charge' = [charge EXCEPT ![w] = "none"]
    /\ seen' = [seen EXCEPT ![w] = 0]

Begin(w, i, step, c) ==
    /\ pc' = [pc EXCEPT ![w] = step]
    /\ item' = [item EXCEPT ![w] = i]
    /\ charge' = [charge EXCEPT ![w] = c]
    /\ UNCHANGED seen
    /\ doubled' = IF c = "starter" /\ \E v \in Workers : item[v] = i /\ charge[v] = "starter"
                  THEN doubled \cup {i} ELSE doubled
    /\ raced' = (raced \/ (c = "quota" /\ \E v \in Workers : charge[v] = "quota"))

-----------------------------------------------------------------------------
(* _start_attempt *)

RequestStart(w, t) ==
    /\ ~Busy(w)
    /\ GateOpen(t)
    /\ Begin(w, t, "start",
             IF NeedsStarter(t) THEN "starter"
             ELSE IF t \in Pro /\ Type[t] = "mock" THEN "quota" ELSE "none")
    /\ IF NeedsStarter(t) THEN ProvisionRows ELSE UNCHANGED rows
    /\ UNCHANGED <<student, used, lapsed, charged, opened, quotaUsed, paidStarts,
                   records, crashes, changes>>

Running(t) == live[t] /\ t \notin overtime
Closed(t) == t \in Timed /\ phase[t] = "closed"

\* Wrong: a resumed attempt is charged like a new one.
ResumeCharged(w) ==
    /\ pc[w] = "start" /\ Running(item[w])
    /\ pc' = [pc EXCEPT ![w] = IF charge[w] = "none" THEN "idle" ELSE "charge"]
    /\ item' = IF charge[w] = "none" THEN [item EXCEPT ![w] = NoItem] ELSE item
    /\ UNCHANGED <<student, starter, quota, records, charge, seen, crashes, changes>>

\* Under the lock of the user row an attempt in progress is handed back, ...
Resume(w) ==
    /\ pc[w] = "start" /\ Running(item[w])
    /\ Finish(w)
    /\ UNCHANGED <<student, starter, quota, records, crashes, changes>>

\* ... one past its deadline is finalized, and if the limit allows it another
\* is created; a window that has closed since the gate is its deadline.
CreateAttempt(w) ==
    LET t == item[w] IN
    /\ pc[w] = "start" /\ ~Running(t) /\ attempts[t] < StartLimit(t)
    /\ attempts' = [attempts EXCEPT ![t] = @ + 1]
    /\ live' = [live EXCEPT ![t] = TRUE]
    /\ overtime' = IF Closed(t) THEN overtime \cup {t} ELSE overtime \ {t}
    /\ opened' = IF charge[w] = "starter" THEN [opened EXCEPT ![Resource(t)] = @ + 1]
                 ELSE opened
    /\ paidStarts' = IF charge[w] = "quota" /\ Paid(t) THEN paidStarts + 1 ELSE paidStarts
    /\ IF charge[w] = "none" THEN Finish(w)
       ELSE pc' = [pc EXCEPT ![w] = "charge"] /\ UNCHANGED <<item, charge, seen>>
    /\ UNCHANGED <<student, rows, used, lapsed, charged, doubled, quotaUsed, raced, met, crashes, changes>>

\* The limit is reached; an attempt past its deadline is finalized all the same.
RefuseStart(w) ==
    /\ pc[w] = "start" /\ ~Running(item[w]) /\ attempts[item[w]] >= StartLimit(item[w])
    /\ live' = [live EXCEPT ![item[w]] = FALSE]
    /\ overtime' = overtime \ {item[w]}
    /\ Finish(w)
    /\ UNCHANGED <<student, starter, quota, attempts, met, crashes, changes>>

\* The lock of the user row is not granted (409).
NoLock(w) ==
    /\ pc[w] = "start"
    /\ Finish(w)
    /\ UNCHANGED <<student, starter, quota, records, crashes, changes>>

\* Wrong: what the gate saw is taken for granted.
ChargeStarterUnchecked(w) ==
    LET i == item[w] IN
    /\ pc[w] = "charge" /\ charge[w] = "starter"
    /\ used' = [used EXCEPT ![Resource(i)] = @ + 1]
    /\ charged' = [charged EXCEPT ![i] = @ + 1]
    /\ ProvisionRows
    /\ IF i \in Tests THEN Finish(w)
       ELSE pc' = [pc EXCEPT ![w] = "record"] /\ UNCHANGED <<item, charge, seen>>
    /\ UNCHANGED <<student, lapsed, opened, doubled, quota, records, crashes, changes>>

\* ensure_and_consume_free_starter: the row is locked and checked again.  Its
\* answer is ignored: a request that finds nothing left goes on uncharged.
ChargeStarter(w) ==
    LET i == item[w]
        r == Resource(i) IN
    /\ pc[w] = "charge" /\ charge[w] = "starter"
    /\ IF Available(r) THEN /\ used' = [used EXCEPT ![r] = @ + 1]
                            /\ charged' = [charged EXCEPT ![i] = @ + 1]
       ELSE UNCHANGED <<used, charged>>
    /\ ProvisionRows
    /\ IF i \in Tests THEN Finish(w)
       ELSE pc' = [pc EXCEPT ![w] = "record"] /\ UNCHANGED <<item, charge, seen>>
    /\ UNCHANGED <<student, lapsed, opened, doubled, quota, records, crashes, changes>>

\* consume_quota: the subscription is read, unlocked ...
ReadQuota(w) ==
    /\ pc[w] = "charge" /\ charge[w] = "quota"
    /\ IF QuotaLeft
       THEN /\ pc' = [pc EXCEPT ![w] = "quota"]
            /\ seen' = [seen EXCEPT ![w] = quotaUsed]
            /\ UNCHANGED <<item, charge>>
       ELSE Finish(w)
    /\ UNCHANGED <<student, starter, quota, records, crashes, changes>>

\* ... and saved with one use more than was read.
WriteQuota(w) ==
    /\ pc[w] = "quota"
    /\ quotaUsed' = seen[w] + 1
    /\ Finish(w)
    /\ UNCHANGED <<student, starter, paidStarts, raced, records, crashes, changes>>

-----------------------------------------------------------------------------
(* QuestionViewSet.answer *)

\* Only the first answer to a question is gated (can_view_qbank).
RequestAnswer(w, q) ==
    /\ ~Busy(w)
    /\ q \notin met /\ ~Paid(q) => Available("qbank")
    /\ IF q \notin met /\ ~Paid(q)
       THEN Begin(w, q, "charge", "starter") /\ ProvisionRows
       ELSE Begin(w, q, "record", "none") /\ UNCHANGED rows
    /\ UNCHANGED <<student, used, lapsed, charged, opened, quotaUsed, paidStarts,
                   records, crashes, changes>>

RecordAnswer(w) ==
    /\ pc[w] = "record"
    /\ met' = met \cup {item[w]}
    /\ opened' = IF charge[w] = "starter" THEN [opened EXCEPT !["qbank"] = @ + 1] ELSE opened
    /\ Finish(w)
    /\ UNCHANGED <<student, rows, used, lapsed, charged, doubled, quota, attempts, live, overtime,
                   crashes, changes>>

\* The option is not one of the question's: 404, after the charge.
RefuseOption(w) ==
    /\ pc[w] = "record"
    /\ doubled' = IF charge[w] = "starter" THEN doubled \cup {item[w]} ELSE doubled
    /\ Finish(w)
    /\ UNCHANGED <<student, rows, used, lapsed, charged, opened, quota, records, crashes, changes>>

-----------------------------------------------------------------------------
(* The world around the requests *)

Change == changes < MaxChanges /\ changes' = changes + 1

\* A bookmark, a rating of confidence, a smart practice session or an exam
\* creates the QuestionAttempt row without passing the gate.
MeetElsewhere(q) ==
    /\ Change
    /\ q \notin met
    /\ met' = met \cup {q}
    /\ UNCHANGED <<student, starter, quota, attempts, live, overtime, request, crashes>>

\* Registration, a catalogue page, or the list of the student's entitlements.
Provision ==
    /\ ~(Policies \subseteq rows)
    /\ ProvisionRows
    /\ UNCHANGED <<student, used, lapsed, charged, opened, doubled, quota, records, request, crashes, changes>>

\* validity_days run out, or an administrator revokes the row.
Lapse(r) ==
    /\ Change
    /\ r \in rows \ lapsed
    /\ lapsed' = lapsed \cup {r}
    /\ UNCHANGED <<student, rows, used, charged, opened, doubled, quota, records, request, crashes>>

\* The attempt is submitted, or a page or the sweep finalizes it.
SubmitAttempt(t) ==
    /\ live[t]
    /\ live' = [live EXCEPT ![t] = FALSE]
    /\ overtime' = overtime \ {t}
    /\ UNCHANGED <<student, starter, quota, attempts, met, request, crashes, changes>>

\* The minutes of an attempt are over; nobody has looked at it yet.
TimeIsUp(t) ==
    /\ Running(t)
    /\ overtime' = overtime \cup {t}
    /\ UNCHANGED <<student, starter, quota, attempts, live, met, request, crashes, changes>>

\* A window opens, and closes; an attempt in progress is past its deadline then.
\* A draft session stays one.
ClockTick(t) ==
    /\ Change
    /\ phase[t] \in {"before", "open"}
    /\ phase' = [phase EXCEPT ![t] = IF @ = "before" THEN "open" ELSE "closed"]
    /\ overtime' = IF phase[t] = "open" /\ live[t] THEN overtime \cup {t} ELSE overtime
    /\ UNCHANGED <<enrolled, bought, starter, quota, attempts, live, met, request, crashes>>

ChangeEnrolment(c) ==
    /\ Change
    /\ enrolled' = IF c \in enrolled THEN enrolled \ {c} ELSE enrolled \cup {c}
    /\ UNCHANGED <<phase, bought, starter, quota, records, request, crashes>>

\* A purchase is approved; later it expires or is refunded.
ChangePurchase(x) ==
    /\ Change
    /\ bought[x] # "over"
    /\ bought' = [bought EXCEPT ![x] = IF @ = "never" THEN "active" ELSE "over"]
    /\ raced' = (raced \/ \E w \in Workers : charge[w] = "quota")
    /\ UNCHANGED <<phase, enrolled, starter, quotaUsed, paidStarts, records, request, crashes>>

\* The thread dies between two of its steps.
Crash(w) ==
    /\ Busy(w) /\ crashes < MaxCrashes
    /\ crashes' = crashes + 1
    /\ raced' = (raced \/ charge[w] = "quota")
    /\ Finish(w)
    /\ doubled' = IF charge[w] = "starter" THEN doubled \cup {item[w]} ELSE doubled
    /\ UNCHANGED <<student, rows, used, lapsed, charged, opened, quotaUsed, paidStarts, records, changes>>

-----------------------------------------------------------------------------
Init ==
    /\ phase = [t \in Timed |-> IF t \in Unpublished THEN "draft" ELSE "before"]
    /\ enrolled = {} /\ bought = [x \in Products |-> "never"]
    /\ quotaUsed = 0 /\ paidStarts = 0 /\ raced = FALSE
    /\ rows = {} /\ used = [r \in Resources |-> 0] /\ lapsed = {}
    /\ attempts = [t \in Tests |-> 0] /\ live = [t \in Tests |-> FALSE]
    /\ overtime = {} /\ met = {}
    /\ pc = [w \in Workers |-> "idle"] /\ item = [w \in Workers |-> NoItem]
    /\ charge = [w \in Workers |-> "none"] /\ seen = [w \in Workers |-> 0]
    /\ charged = [i \in Items |-> 0] /\ opened = [r \in Resources |-> 0]
    /\ doubled = {} /\ crashes = 0 /\ changes = 0

Start(w) ==
    \/ \E t \in Tests : RequestStart(w, t)
    \/ Resume(w) \/ CreateAttempt(w) \/ RefuseStart(w) \/ NoLock(w)
    \/ ChargeStarter(w) \/ ReadQuota(w) \/ WriteQuota(w)

Answer(w) ==
    \/ \E q \in Questions : RequestAnswer(w, q)
    \/ RecordAnswer(w) \/ RefuseOption(w)

World ==
    \/ Provision
    \/ \E r \in Resources : Lapse(r)
    \/ \E t \in Tests : SubmitAttempt(t) \/ TimeIsUp(t)
    \/ \E t \in Timed : ClockTick(t)
    \/ \E c \in Courses : ChangeEnrolment(c)
    \/ \E x \in Products : ChangePurchase(x)
    \/ \E q \in Questions : MeetElsewhere(q)

Next == World \/ \E w \in Workers : Start(w) \/ Answer(w) \/ Crash(w)

Spec == Init /\ [][Next]_vars

-----------------------------------------------------------------------------
(* Correctness *)

TypeOK ==
    /\ phase \in [Timed -> {"draft", "before", "open", "closed"}]
    /\ enrolled \subseteq Courses
    /\ bought \in [Products -> {"never", "active", "over"}]
    /\ quotaUsed \in Nat /\ paidStarts \in Nat /\ raced \in BOOLEAN
    /\ crashes \in Nat /\ changes \in Nat
    /\ rows \subseteq Resources /\ lapsed \subseteq rows
    /\ used \in [Resources -> Nat] /\ opened \in [Resources -> Nat]
    /\ attempts \in [Tests -> Nat] /\ live \in [Tests -> BOOLEAN]
    /\ overtime \subseteq Tests
    /\ met \subseteq Questions
    /\ pc \in [Workers -> {"idle", "start", "charge", "quota", "record"}]
    /\ item \in [Workers -> Items \cup {NoItem}]
    /\ charge \in [Workers -> {"none", "starter", "quota"}]
    /\ seen \in [Workers -> Nat]
    /\ charged \in [Items -> Nat] /\ doubled \subseteq Items

\* The allowance is never overdrawn, although the check at the gate and the
\* charge are apart and requests of two tabs overlap (consume_free_starter).
StarterWithinAllowance == \A r \in Policies : used[r] <= Quantity[r]

\* Requests that passed the gate together may open more than the allowance, but
\* only as many more as there are threads beside the one that used it up, and
\* one for each thread that died before it charged.
OpensBounded ==
    \A r \in Policies : opened[r] <= Quantity[r] + Cardinality(Workers) - 1 + crashes

\* A test or question is charged once: a second unit is taken only when requests
\* for it overlapped, a thread died, or an answer was refused after its charge.
RepeatsAreFree == \A i \in Items : charged[i] > 1 => i \in doubled

\* A start on the quota that overlaps no other and no purchase is counted once.
Metering(w) == pc[w] \in {"charge", "quota"} /\ charge[w] = "quota"
QuotaExact ==
    ~raced =>
        \/ quotaUsed = paidStarts
        \/ quotaUsed + 1 = paidStarts /\ \E w \in Workers : Metering(w)

\* Where the card and the start are known to disagree: an attempt past its
\* deadline that nobody has finalized still shows "continue"; the card knows
\* nothing of a draft session, of the session of a Mock or Past Year test, of a
\* session that has ended when there was an attempt, and of a session's own
\* limit; and it reads a limit of 0 as 1.
CardDiffers(t) ==
    \/ t \in overtime
    \/ t \in Timed /\ phase[t] = "draft"
    \/ t \in BySession /\ ~OnCard(t) /\ phase[t] # "open"
    \/ t \in BySession /\ attempts[t] > 0 /\ phase[t] = "closed"
    \/ t \in BySession /\ attempts[t] >= SessionLimit[t]
    \/ Limit[t] = 0

\* A test that a page shows with a start or continue button is one the start
\* request lets through, those disagreements apart: the list filter, the card
\* and the gate are three implementations.
CardIsHonoured ==
    \A t \in Tests :
        Visible(t) /\ CardState(t) \in {"start", "continue"} =>
            \/ GateOpen(t) /\ (Running(t) \/ attempts[t] < StartLimit(t))
            \/ CardDiffers(t)

-----------------------------------------------------------------------------
(* The inductive invariant behind them *)

\* An attempt in progress is counted, and past its deadline when its window has
\* closed; nothing was attempted before its window opened, and a request past
\* the gate found it open.
AttemptsInWindow ==
    /\ \A t \in Tests : live[t] => attempts[t] > 0
    /\ \A t \in Timed : live[t] /\ phase[t] = "closed" => t \in overtime
    /\ \A t \in Timed : attempts[t] > 0 => phase[t] \notin {"draft", "before"}
    /\ \A w \in Workers :
         pc[w] = "start" /\ item[w] \in Timed => phase[item[w]] \notin {"draft", "before"}

\* The requests that want a unit for item i.
Wants(w, i) == charge[w] = "starter" /\ item[w] = i

\* An item whose requests never overlapped has one request at a time, charged
\* before nothing but its attempt or its answer can hide it from the next.
ChargeInOrder(i) ==
    /\ charged[i] <= 1
    /\ \A v, w \in Workers : Wants(v, i) /\ Wants(w, i) => v = w
    /\ \A w \in Workers : Wants(w, i) =>
         /\ pc[w] \in {"start", "charge"} => charged[i] = 0
         /\ pc[w] = "charge" /\ i \in Tests => attempts[i] > 0
         /\ pc[w] = "record" => i \in Questions
    /\ charged[i] = 1 =>
         \/ i \in Tests /\ attempts[i] > 0
         \/ i \in met
         \/ \E w \in Workers : Wants(w, i) /\ pc[w] = "record"

\* Where a single start on the quota stands between its attempt and its count.
QuotaInOrder ==
    /\ \A v, w \in Workers : charge[v] = "quota" /\ charge[w] = "quota" => v = w
    /\ (\A w \in Workers : charge[w] # "quota") => quotaUsed = paidStarts
    /\ \A w \in Workers : charge[w] = "quota" =>
         /\ item[w] \in Tests /\ Type[item[w]] = "mock"
         /\ pc[w] \in {"start", "charge", "quota"}
         /\ pc[w] = "start" => quotaUsed = paidStarts
         /\ pc[w] = "charge" => paidStarts = IF QuotaLeft THEN quotaUsed + 1 ELSE quotaUsed
         /\ pc[w] = "quota" => seen[w] = quotaUsed /\ paidStarts = quotaUsed + 1

\* The requests admitted on the allowance of r: an exam that is started and not
\* charged yet, a question that is charged and not answered yet, and all that
\* have still to open what they are for.
OnAllowance(r) == {w \in Workers : charge[w] = "starter" /\ Resource(item[w]) = r}
Unpaid(r) == {w \in OnAllowance(r) : pc[w] = "charge" /\ item[w] \in Tests}
Prepaid(r) == {w \in OnAllowance(r) : pc[w] = "record"}
Opening(r) == OnAllowance(r) \ Unpaid(r)

\* While some is left every first use but those is charged; when nothing is
\* left the requests past the gate are all that can still open anything.
OpensInv ==
    \A r \in Policies :
        /\ opened[r] + Cardinality(Opening(r)) <= Quantity[r] + Cardinality(Workers) - 1 + crashes
        /\ Available(r) =>
             opened[r] + Cardinality(Prepaid(r)) <= used[r] + Cardinality(Unpaid(r)) + crashes

\* What each step of a request knows about it.
RequestsOK ==
    \A w \in Workers :
        /\ pc[w] # "idle" => item[w] \in Items
        /\ pc[w] = "start" => item[w] \in Tests
        /\ pc[w] = "idle" => charge[w] = "none"
        /\ pc[w] = "quota" => charge[w] = "quota"
        /\ pc[w] = "record" => charge[w] # "quota" /\ item[w] \in Questions

IInv ==
    /\ TypeOK /\ RequestsOK
    /\ StarterWithinAllowance
    /\ AttemptsInWindow
    /\ \A i \in Items : i \notin doubled => ChargeInOrder(i)
    /\ ~raced => QuotaInOrder
=============================================================================
