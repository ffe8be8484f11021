----------------------- MODULE PurchaseAccessProofs -----------------------
(***************************************************************************)
(* Proofs about PurchaseAccess for any number of sources, rows and         *)
(* threads: the ledger of grants follows the orders exactly, so that every *)
(* grant is reversed once and only by the refund of its own order (IInv);  *)
(* and as long as requests do not overlap, each row covers the days of the *)
(* sources paid for on it, and refunds spare what others paid (AloneInv).  *)
(***************************************************************************)
EXTENDS PurchaseAccess, FiniteSetTheorems, TLAPS

\* The variables of the ledger's invariant, other than a worker's own request.
ledgerVars == <<sources, status, ledger, recorded, reversals>>

\* A request that ends leaves its worker idle and well-typed.
LEMMA FinishType ==
  ASSUME TypeOK, NEW w \in Workers, Finish(w)
  PROVE  /\ pc' \in [Workers -> PcValues]
         /\ target' \in [Workers -> Sources \cup {NoSource}]
         /\ seen' \in [Workers -> [row: Rows \cup {NoRow}, end: Ends, at: Nat, others: BOOLEAN]]
         /\ \A v \in Workers : pc'[v] # "idle" => target'[v] \in Sources
         /\ pc'[w] = "idle"
         /\ \A v \in Workers \ {w} : /\ pc'[v] = pc[v] /\ target'[v] = target[v]
                                     /\ seen'[v] = seen[v]
<1>1. Unseen \in [row: Rows \cup {NoRow}, end: Ends, at: Nat, others: BOOLEAN]
  BY DEF Unseen, Ends
<1> QED BY <1>1 DEF TypeOK, Finish, PcValues

\* A request that begins on source s with row r is well-typed.
LEMMA ReadType ==
  ASSUME TypeOK, NEW w \in Workers, NEW s \in Sources, NEW step \in PcValues,
         NEW r \in Rows \cup {NoRow}, NEW others \in BOOLEAN, Read(w, s, step, r, others)
  PROVE  /\ pc' \in [Workers -> PcValues]
         /\ target' \in [Workers -> Sources \cup {NoSource}]
         /\ seen' \in [Workers -> [row: Rows \cup {NoRow}, end: Ends, at: Nat, others: BOOLEAN]]
         /\ overlapped' \in BOOLEAN
         /\ \A v \in Workers : pc'[v] # "idle" => target'[v] \in Sources
         /\ pc'[w] = step /\ target'[w] = s /\ seen'[w].row = r
         /\ \A v \in Workers \ {w} : /\ pc'[v] = pc[v] /\ target'[v] = target[v]
                                     /\ seen'[v] = seen[v]
<1> DEFINE end == IF r = NoRow THEN NoEnd ELSE access[r].end
           reading == [row |-> r, others |-> others, end |-> end, at |-> now]
<1>1. end \in Ends
  BY DEF TypeOK, Ends
<1>2. reading \in [row: Rows \cup {NoRow}, end: Ends, at: Nat, others: BOOLEAN]
  BY <1>1 DEF TypeOK
<1>3. seen' = [seen EXCEPT ![w] = reading]
  BY DEF Read
<1> HIDE DEF reading, end
<1>4. seen' \in [Workers -> [row: Rows \cup {NoRow}, end: Ends, at: Nat, others: BOOLEAN]]
  BY <1>2, <1>3 DEF TypeOK
<1>5. reading.row = r
  BY DEF reading
<1> QED BY <1>3, <1>4, <1>5 DEF TypeOK, Read

\* What a granted source looks like, whatever was granted: the ledger holds it
\* and the order is approved.
LEMMA GrantKeepsLedger ==
  ASSUME IInv, NEW w \in Workers, pc[w] = "grant",
         NEW r \in Rows, NEW row, NEW created, NEW previous,
         Grant(w, target[w], r, row, created, previous),
         row \in [exists: BOOLEAN, active: BOOLEAN, start: Nat, end: Ends],
         created = TRUE \/ created = FALSE, previous \in Ends
  PROVE  IInv'
<1> DEFINE s == target[w]
           g == [row |-> r, created |-> created, previous |-> previous,
                 granted |-> row.end, revoked |-> FALSE]
<1>0. /\ TypeOK /\ NothingEarly /\ LedgerExact /\ \A v \in Workers : HoldsOrder(v)
      /\ s \in Sources
  BY DEF IInv, TypeOK
<1>1. g \in [row: Rows \cup {NoRow}, created: BOOLEAN, previous: Ends, granted: Ends, revoked: BOOLEAN]
  OBVIOUS
<1>2. g.row = r /\ g.revoked = FALSE
  OBVIOUS
<1>3. /\ ledger' = [ledger EXCEPT ![s] = g] /\ status' = [status EXCEPT ![s] = "approved"]
      /\ access' = [access EXCEPT ![r] = row]
      /\ UNCHANGED <<now, sources, recorded, history>>
  BY DEF Grant
<1> HIDE DEF g
<1>4. /\ pc' \in [Workers -> PcValues]
      /\ target' \in [Workers -> Sources \cup {NoSource}]
      /\ seen' \in [Workers -> [row: Rows \cup {NoRow}, end: Ends, at: Nat, others: BOOLEAN]]
      /\ \A v \in Workers : pc'[v] # "idle" => target'[v] \in Sources
      /\ pc'[w] \in {"idle", "record"}
      /\ \A v \in Workers \ {w} : /\ pc'[v] = pc[v] /\ target'[v] = target[v]
                                  /\ seen'[v] = seen[v]
  <2>1. CASE kind[s] = "scholarship"
    BY <1>0, <2>1 DEF Grant, TypeOK, PcValues
  <2>2. CASE kind[s] # "scholarship"
    <3>1. Finish(w)
      BY <2>2 DEF Grant
    <3> QED BY <1>0, <3>1, FinishType
  <2> QED BY <2>1, <2>2
<1>5. TypeOK'
  BY <1>0, <1>1, <1>3, <1>4 DEF TypeOK, Statuses, sources, history
<1>6. kind[s] # "none" /\ ledger[s] = NoGrant /\ (s \in Orders => status[s] = "ordered")
  BY <1>0 DEF HoldsOrder
<1>7. NothingEarly' 
  BY <1>0, <1>3, <1>6 DEF NothingEarly, sources, history, TypeOK
<1>8. r # NoRow
  BY AccessAssumption
<1>9. s \in Orders => reversals[s] = 0
  BY <1>0, <1>6 DEF LedgerExact, NoGrant
<1>10. LedgerExact'
  BY <1>0, <1>2, <1>3, <1>8, <1>9 DEF LedgerExact, sources, history, Orders, TypeOK
<1>11. ASSUME NEW v \in Workers PROVE HoldsOrder(v)'
  <2>1. CASE v = w
    BY <1>4, <2>1 DEF HoldsOrder
  <2>2. CASE v # w
    <3>1. pc[v] \in {"grant", "refund"} => target[v] # s
      BY <1>0, <2>2 DEF HoldsOrder
    <3> QED BY <1>0, <1>3, <1>4, <2>2, <3>1 DEF HoldsOrder, Orders, sources, TypeOK
  <2> QED BY <2>1, <2>2
<1>12. pc'[w] = "record" => kind[s] = "scholarship" /\ target'[w] = s
  <2>1. CASE kind[s] = "scholarship"
    BY <2>1 DEF Grant
  <2>2. CASE kind[s] # "scholarship"
    <3>1. Finish(w)
      BY <2>2 DEF Grant
    <3> QED BY <1>0, <3>1, FinishType
  <2> QED BY <2>1, <2>2
<1>13. ScholarshipsSaved'
  <2>1. ScholarshipsSaved
    BY DEF IInv
  <2>2. \A x \in Sources : ScholarshipSaved(x) => ScholarshipSaved(x)'
    BY <1>0, <1>3 DEF ScholarshipSaved, TypeOK, sources
  <2>3. pc'[w] = "record" => ScholarshipSaved(target[w])'
    BY <1>0, <1>3, <1>12 DEF ScholarshipSaved, TypeOK, sources
  <2>4. \A v \in Workers \ {w} : pc'[v] = "record" => ScholarshipSaved(target[v])'
    BY <1>0, <1>4, <2>1, <2>2 DEF ScholarshipsSaved, TypeOK
  <2>5. \A x \in recorded' : ScholarshipSaved(x)'
    BY <1>0, <1>3, <2>1, <2>2 DEF ScholarshipsSaved, TypeOK
  <2> QED BY <2>3, <2>4, <2>5 DEF ScholarshipsSaved
<1> QED BY <1>5, <1>7, <1>10, <1>11, <1>13 DEF IInv

\* A request that ends without touching orders or ledger keeps the invariant.
LEMMA FinishKeeps ==
  ASSUME IInv, NEW w \in Workers, Finish(w), UNCHANGED <<now, overlapped, ledgerVars>>,
         access' \in [Rows -> [exists: BOOLEAN, active: BOOLEAN, start: Nat, end: Ends]]
  PROVE  IInv'
<1>1. TypeOK'
  BY FinishType DEF IInv, TypeOK, ledgerVars, sources
<1>2. NothingEarly' /\ LedgerExact'
  BY DEF IInv, NothingEarly, LedgerExact, ledgerVars, sources, Orders
<1>3. ASSUME NEW v \in Workers PROVE HoldsOrder(v)'
  <2>1. CASE v = w
    BY <2>1, FinishType DEF IInv, HoldsOrder
  <2>2. CASE v # w
    BY <2>2, FinishType DEF IInv, HoldsOrder, ledgerVars, sources, Orders
  <2> QED BY <2>1, <2>2
<1>4. ScholarshipsSaved'
  BY FinishType DEF IInv, ScholarshipsSaved, ScholarshipSaved, ledgerVars, sources
<1> QED BY <1>1, <1>2, <1>3, <1>4 DEF IInv

\* A request that begins on an order nobody works on keeps the invariant.
LEMMA ReadKeeps ==
  ASSUME IInv, NEW w \in Workers, NEW s \in Sources, NEW step \in {"grant", "refund"},
         NEW r \in Rows \cup {NoRow}, NEW others \in BOOLEAN, Read(w, s, step, r, others),
         UNCHANGED <<now, access, ledgerVars>>,
         Free(s),
         step = "grant" => s \in Orders /\ status[s] = "ordered",
         step = "refund" => s \in Orders /\ status[s] = "approved" /\ r = ledger[s].row
  PROVE  IInv'
<1>a. step \in PcValues /\ TypeOK
  BY DEF PcValues, IInv
<1>0. /\ pc' \in [Workers -> PcValues]
      /\ target' \in [Workers -> Sources \cup {NoSource}]
      /\ seen' \in [Workers -> [row: Rows \cup {NoRow}, end: Ends, at: Nat, others: BOOLEAN]]
      /\ overlapped' \in BOOLEAN
      /\ \A v \in Workers : pc'[v] # "idle" => target'[v] \in Sources
      /\ pc'[w] = step /\ target'[w] = s /\ seen'[w].row = r
      /\ \A v \in Workers \ {w} : /\ pc'[v] = pc[v] /\ target'[v] = target[v]
                                  /\ seen'[v] = seen[v]
  BY <1>a, ReadType
<1>1. TypeOK'
  BY <1>a, <1>0 DEF TypeOK, ledgerVars, sources
<1>2. NothingEarly' /\ LedgerExact'
  BY DEF IInv, NothingEarly, LedgerExact, ledgerVars, sources, Orders
<1>3. ASSUME NEW v \in Workers PROVE HoldsOrder(v)'
  <2> USE DEF ledgerVars, sources
  <2>0. HoldsOrder(v) /\ TypeOK /\ NothingEarly
    BY DEF IInv
  <2>1. CASE v = w
    <3>1. step = "grant" => kind[s] # "none" /\ ledger[s] = NoGrant
      BY <2>0 DEF Orders, OrderKinds, NothingEarly
    <3> QED BY <2>1, <3>1, <1>0, <1>1, <2>0 DEF HoldsOrder, Orders, Free
  <2>2. CASE v # w
    <3>1. target[v] # s
      BY DEF Free
    <3> QED BY <1>0, <2>0, <2>2, <3>1 DEF HoldsOrder, Orders
  <2> QED BY <2>1, <2>2
<1>4. ScholarshipsSaved'
  BY <1>0 DEF IInv, ScholarshipsSaved, ScholarshipSaved, ledgerVars, sources
<1> QED BY <1>1, <1>2, <1>3, <1>4 DEF IInv

\* GrantAccessView begins on a source that does not exist yet.
LEMMA GrantBegins ==
  ASSUME IInv, NEW w \in Workers, NEW s \in Sources, NEW k \in GrantKinds, NEW d \in Durations,
         BeginGrant(w, s, k, d)
  PROVE  IInv'
<1>0. /\ TypeOK /\ NothingEarly /\ LedgerExact /\ \A v \in Workers : HoldsOrder(v)
      /\ d \in Nat
  BY AccessAssumption DEF IInv
<1>1. PICK r \in Rows \cup {NoRow} : Read(w, s, "grant", r, FALSE)
  BY DEF BeginGrant, Rows
<1>2. /\ kind[s] = "none" /\ kind' = [kind EXCEPT ![s] = k] /\ days' = [days EXCEPT ![s] = d]
      /\ UNCHANGED <<now, status, access, ledger, recorded, reversals>>
  BY DEF BeginGrant
<1>3. status[s] = "none" /\ ledger[s] = NoGrant
  BY <1>0, <1>2 DEF NothingEarly
<1>4. k \notin OrderKinds /\ k # "none"
  BY DEF GrantKinds, OrderKinds
<1>5. Orders' = Orders
  BY <1>0, <1>2, <1>4 DEF Orders, TypeOK, OrderKinds
<1>6. TypeOK'
  BY <1>0, <1>1, <1>2, ReadType DEF TypeOK, PcValues
<1>7. NothingEarly' /\ LedgerExact'
  <2>1. NothingEarly'
    BY <1>0, <1>2, <1>4 DEF NothingEarly, TypeOK
  <2>2. \A x \in Orders : kind'[x] = kind[x]
    BY <1>0, <1>2, <1>5, <1>4 DEF TypeOK, Orders, OrderKinds
  <2> QED BY <1>0, <1>2, <1>5, <2>1, <2>2 DEF LedgerExact
<1>8. ASSUME NEW v \in Workers PROVE HoldsOrder(v)'
  <2>1. \A x \in Workers : pc[x] \in {"grant", "refund"} => target[x] # s
    BY <1>0, <1>2, <1>3 DEF HoldsOrder, Orders, OrderKinds
  <2>2. s \notin Orders
    BY <1>2 DEF Orders, OrderKinds
  <2>3. CASE v = w
    <3>1. pc'[v] = "grant" /\ target'[v] = s
      BY <2>3, <1>0, <1>1, ReadType DEF PcValues
    <3>2. \A x \in Workers \ {w} : pc'[x] \in {"grant", "refund"} => target'[x] # s
      BY <1>0, <1>1, <2>1, ReadType DEF PcValues
    <3>3. kind'[s] # "none"
      BY <1>0, <1>2, <1>4 DEF TypeOK
    <3> QED BY <2>2, <2>3, <1>2, <1>3, <1>5, <3>1, <3>2, <3>3 DEF HoldsOrder
  <2>4. CASE v # w
    <3>1. pc'[v] = pc[v] /\ target'[v] = target[v] /\ seen'[v] = seen[v]
      BY <2>4, <1>0, <1>1, ReadType DEF PcValues
    <3>2. pc'[w] = "grant" /\ target'[w] = s
      BY <1>0, <1>1, ReadType DEF PcValues
    <3>3. \A x \in Workers \ {w} : pc'[x] = pc[x] /\ target'[x] = target[x]
      BY <1>0, <1>1, ReadType DEF PcValues
    <3>4. pc[v] \in {"grant", "refund"} => kind'[target[v]] = kind[target[v]]
      BY <1>0, <1>2, <2>1 DEF TypeOK
    <3> QED BY <1>0, <1>2, <1>5, <2>1, <3>1, <3>2, <3>3, <3>4 DEF HoldsOrder
  <2> QED BY <2>3, <2>4
<1>9. ScholarshipsSaved'
  <2>1. ScholarshipsSaved
    BY DEF IInv
  <2>2. s \notin recorded /\ \A v \in Workers : pc[v] = "record" => target[v] # s
    BY <1>3, <2>1 DEF ScholarshipsSaved, ScholarshipSaved
  <2>3. \A v \in Workers : pc'[v] = "record" => pc[v] = "record" /\ target'[v] = target[v]
    BY <1>0, <1>1, ReadType DEF PcValues
  <2> QED BY <1>0, <1>2, <2>1, <2>2, <2>3 DEF ScholarshipsSaved, ScholarshipSaved, TypeOK
<1> QED BY <1>6, <1>7, <1>8, <1>9 DEF IInv

\* A new end of access is a number, or none.
LEMMA EndIsTyped ==
  ASSUME TypeOK, NEW s \in Sources, NEW from \in Int
  PROVE  EndAfter(from, s) \in Ends
BY DEF TypeOK, EndAfter, Ends

LEMMA CreateNext ==
  ASSUME IInv, NEW w \in Workers, CreateSubscription(w)
  PROVE  IInv'
<1> DEFINE s == target[w]
           row == [exists |-> TRUE, active |-> TRUE, start |-> seen[w].at,
                   end |-> EndAfter(seen[w].at, s)]
<1>1. TypeOK /\ pc[w] = "grant" /\ s \in Sources /\ seen[w].at \in Nat
  BY DEF IInv, TypeOK, CreateSubscription
<1>2. row \in [exists: BOOLEAN, active: BOOLEAN, start: Nat, end: Ends]
  BY <1>1, EndIsTyped
<1>3. PICK r \in Subscriptions : Grant(w, s, r, row, TRUE, NoEnd)
  BY DEF CreateSubscription
<1> HIDE DEF row
<1> QED BY <1>1, <1>2, <1>3, GrantKeepsLedger DEF Rows, Ends

LEMMA ExtendNext ==
  ASSUME IInv, NEW w \in Workers, ExtendSubscription(w)
  PROVE  IInv'
<1> DEFINE s == target[w]
           r == seen[w].row
           from == IF seen[w].end # NoEnd /\ seen[w].end > seen[w].at THEN seen[w].end
                                                                     ELSE seen[w].at
           row == [access[r] EXCEPT !.active = TRUE, !.end = EndAfter(from, s)]
<1>1. /\ TypeOK /\ pc[w] = "grant" /\ s \in Sources /\ r \in Rows
      /\ seen[w].end \in Ends /\ seen[w].at \in Nat
  BY DEF IInv, TypeOK, ExtendSubscription
<1>2. from \in Int
  BY <1>1 DEF Ends
<1>3. EndAfter(from, s) \in Ends
  BY <1>1, <1>2, EndIsTyped
<1>4. Grant(w, s, r, row, FALSE, seen[w].end)
  BY DEF ExtendSubscription
<1> DEFINE end == EndAfter(from, s)
           old == access[r]
<1>5. row = [[old EXCEPT !.active = TRUE] EXCEPT !.end = end]
  OBVIOUS
<1>6. old \in [exists: BOOLEAN, active: BOOLEAN, start: Nat, end: Ends] /\ end \in Ends
  BY <1>1, <1>3 DEF TypeOK
<1> HIDE DEF row, old, end
<1>7. row \in [exists: BOOLEAN, active: BOOLEAN, start: Nat, end: Ends]
  BY <1>5, <1>6
<1> QED BY <1>1, <1>4, <1>7, GrantKeepsLedger

\* A package that finds the access in force is approved without a grant.
LEMMA TestNext ==
  ASSUME IInv, NEW w \in Workers, GrantTest(w)
  PROVE  IInv'
<1> DEFINE s == target[w]
           old == access[TestRow]
           row == [exists |-> TRUE, active |-> TRUE, start |-> now, end |-> NoEnd]
<1>1. /\ TypeOK /\ NothingEarly /\ LedgerExact /\ \A v \in Workers : HoldsOrder(v)
      /\ pc[w] = "grant" /\ s \in Sources
  BY DEF IInv, TypeOK, GrantTest
<1>2. CASE kind[s] = "package" /\ old.exists /\ old.active
  <2>1. /\ status' = [status EXCEPT ![s] = "approved"] /\ Finish(w)
        /\ UNCHANGED <<now, sources, access, ledger, recorded, history>>
    BY <1>2 DEF GrantTest
  <2>2. kind[s] # "none" /\ ledger[s] = NoGrant
    BY <1>1 DEF HoldsOrder
  <2>3. TypeOK'
    BY <1>1, <2>1, FinishType DEF TypeOK, Statuses, sources, history
  <2>4. NothingEarly'
    BY <1>1, <2>1, <2>2 DEF NothingEarly, TypeOK, sources, history
  <2>5. LedgerExact'
    BY <1>1, <1>2, <2>1, <2>2 DEF LedgerExact, NoGrant, TypeOK, Orders, sources, history
  <2>6. ASSUME NEW v \in Workers PROVE HoldsOrder(v)'
    <3>1. CASE v = w
      BY <1>1, <2>1, <3>1, FinishType DEF HoldsOrder
    <3>2. CASE v # w
      <4>1. pc[v] \in {"grant", "refund"} => target[v] # s
        BY <1>1, <3>2 DEF HoldsOrder
      <4> QED BY <1>1, <2>1, <3>2, <4>1, FinishType DEF HoldsOrder, Orders, sources, TypeOK
    <3> QED BY <3>1, <3>2
  <2>7. ScholarshipsSaved'
    BY <1>1, <2>1, FinishType DEF IInv, ScholarshipsSaved, ScholarshipSaved, TypeOK, sources
  <2> QED BY <2>3, <2>4, <2>5, <2>6, <2>7 DEF IInv
<1>3. CASE ~(kind[s] = "package" /\ old.exists /\ old.active)
  <2>1. Grant(w, s, TestRow, row, ~old.exists, NoEnd)
    BY <1>3 DEF GrantTest
  <2>2. row \in [exists: BOOLEAN, active: BOOLEAN, start: Nat, end: Ends]
    BY <1>1 DEF TypeOK, Ends
  <2>3. TestRow \in Rows /\ NoEnd \in Ends
    BY DEF Rows, Ends
  <2>4. old.exists \in BOOLEAN
    BY <1>1, <2>3 DEF TypeOK
  <2>5. (~old.exists) = TRUE \/ (~old.exists) = FALSE
    BY <2>4
  <2> HIDE DEF row
  <2> QED BY <1>1, <2>1, <2>2, <2>3, <2>5, GrantKeepsLedger
<1> QED BY <1>2, <1>3

LEMMA CourseNext ==
  ASSUME IInv, NEW w \in Workers, GrantCourse(w)
  PROVE  IInv'
<1> DEFINE s == target[w]
           old == access[CourseRow]
           end == EndAfter(now, s)
           row == [exists |-> TRUE, active |-> TRUE, end |-> end,
                   start |-> IF old.exists THEN old.start ELSE now]
<1>1. TypeOK /\ pc[w] = "grant" /\ s \in Sources /\ CourseRow \in Rows
  BY DEF IInv, TypeOK, GrantCourse, Rows
<1>2. end \in Ends /\ old.end \in Ends /\ old.start \in Nat /\ now \in Nat
  BY <1>1, EndIsTyped DEF TypeOK
<1>3. Grant(w, s, CourseRow, row, ~old.exists, old.end)
  BY DEF GrantCourse
<1> HIDE DEF end
<1>4. row \in [exists: BOOLEAN, active: BOOLEAN, start: Nat, end: Ends]
  BY <1>2
<1>5. (~old.exists) = TRUE \/ (~old.exists) = FALSE
  BY <1>1 DEF TypeOK
<1> HIDE DEF row
<1> QED BY <1>1, <1>2, <1>3, <1>4, <1>5, GrantKeepsLedger

\* PurchaseViewSet.create makes an order of a source that did not exist.
LEMMA OrderNext ==
  ASSUME IInv, NEW s \in Sources, NEW k \in OrderKinds, NEW d \in Durations, Order(s, k, d)
  PROVE  IInv'
<1>0. /\ TypeOK /\ NothingEarly /\ LedgerExact /\ ScholarshipsSaved
      /\ \A v \in Workers : HoldsOrder(v)
      /\ d \in Nat
  BY AccessAssumption DEF IInv
<1>1. /\ kind[s] = "none" /\ kind' = [kind EXCEPT ![s] = k] /\ days' = [days EXCEPT ![s] = d]
      /\ status' = [status EXCEPT ![s] = "ordered"]
      /\ UNCHANGED <<now, access, ledger, recorded, history, locals>>
  BY DEF Order
<1>2. status[s] = "none" /\ ledger[s] = NoGrant
  BY <1>0, <1>1 DEF NothingEarly
<1>3. s \notin Orders /\ k # "none" /\ k # "scholarship"
  BY <1>1 DEF Orders, OrderKinds
<1>4. Orders' = Orders \cup {s}
  BY <1>0, <1>1 DEF Orders, TypeOK
<1>5. TypeOK'
  BY <1>0, <1>1 DEF TypeOK, Statuses, history, locals
<1>6. NothingEarly'
  BY <1>0, <1>1, <1>2, <1>3 DEF NothingEarly, TypeOK, history
<1>7. LedgerExact'
  <2>1. reversals[s] = 0
    BY <1>0, <1>2 DEF NothingEarly
  <2> QED BY <1>0, <1>1, <1>2, <1>4, <2>1 DEF LedgerExact, NoGrant, TypeOK, history
<1>8. \A v \in Workers : pc[v] \in {"grant", "refund", "record"} => target[v] # s
  BY <1>0, <1>1, <1>2, <1>3
     DEF HoldsOrder, ScholarshipsSaved, ScholarshipSaved
<1>9. ASSUME NEW v \in Workers PROVE HoldsOrder(v)'
  <2>1. pc[v] \in {"grant", "refund"} =>
          /\ target[v] \in Sources
          /\ kind'[target[v]] = kind[target[v]] /\ status'[target[v]] = status[target[v]]
          /\ target[v] \in Orders' <=> target[v] \in Orders
    BY <1>0, <1>1, <1>4, <1>8 DEF TypeOK
  <2> QED BY <1>0, <1>1, <2>1 DEF HoldsOrder, locals
<1>10. ScholarshipsSaved'
  <2>1. s \notin recorded
    BY <1>0, <1>2 DEF ScholarshipsSaved, ScholarshipSaved
  <2> QED BY <1>0, <1>1, <1>8, <2>1 DEF ScholarshipsSaved, ScholarshipSaved, TypeOK, locals
<1> QED BY <1>5, <1>6, <1>7, <1>9, <1>10 DEF IInv

\* activate and refund begin under the lock of their order.
LEMMA ActivateBegins ==
  ASSUME IInv, NEW w \in Workers, NEW s \in Sources, BeginActivate(w, s)
  PROVE  IInv'
<1>1. PICK r \in Subscriptions \cup {NoRow} : Read(w, s, "grant", r, FALSE)
  BY DEF BeginActivate
<1>2. r \in Rows \cup {NoRow}
  BY DEF Rows
<1> QED BY <1>1, <1>2, ReadKeeps DEF BeginActivate, ledgerVars, sources

LEMMA RefundBegins ==
  ASSUME IInv, NEW w \in Workers, NEW s \in Sources, BeginRefund(w, s)
  PROVE  IInv'
<1> DEFINE others == OtherGrants(s, ledger[s].row) # {}
<1>1. /\ s \in Orders /\ status[s] = "approved" /\ Free(s)
      /\ Read(w, s, "refund", ToReverse(s), others)
      /\ UNCHANGED <<now, access, ledgerVars>>
  BY DEF BeginRefund, ledgerVars
<1>2. ledger[s].row \in Rows \cup {NoRow} /\ (ledger[s].revoked => ledger[s].row = NoRow)
  BY <1>1 DEF IInv, TypeOK, LedgerExact
<1>3. ToReverse(s) = ledger[s].row
  BY <1>2 DEF ToReverse
<1>4. others \in BOOLEAN
  OBVIOUS
<1> HIDE DEF others
<1> QED BY <1>1, <1>2, <1>3, <1>4, ReadKeeps

\* revoke begins on a recorded scholarship, which is not an order.
LEMMA RevokeBegins ==
  ASSUME IInv, NEW w \in Workers, NEW s \in Sources, BeginRevoke(w, s)
  PROVE  IInv'
<1>0. /\ TypeOK /\ NothingEarly /\ LedgerExact /\ ScholarshipsSaved
      /\ \A v \in Workers : HoldsOrder(v)
      /\ "revoke" \in PcValues
  BY DEF IInv, PcValues
<1>1. /\ s \in recorded /\ status' = [status EXCEPT ![s] = "refunded"]
      /\ Read(w, s, "revoke", ledger[s].row, FALSE)
      /\ UNCHANGED <<now, kind, days, access, ledger, recorded, reversals>>
  BY DEF BeginRevoke, sources
<1> DEFINE r == ledger[s].row
           step == "revoke"
           others == FALSE
<1>2. /\ TypeOK /\ r \in Rows \cup {NoRow}
      /\ step \in PcValues /\ step = "revoke" /\ others \in BOOLEAN
      /\ Read(w, s, step, r, others)
  BY <1>0, <1>1 DEF TypeOK
<1> HIDE DEF r, step, others
<1>3. /\ pc' \in [Workers -> PcValues]
      /\ target' \in [Workers -> Sources \cup {NoSource}]
      /\ seen' \in [Workers -> [row: Rows \cup {NoRow}, end: Ends, at: Nat, others: BOOLEAN]]
      /\ overlapped' \in BOOLEAN
      /\ \A v \in Workers : pc'[v] # "idle" => target'[v] \in Sources
      /\ pc'[w] = "revoke"
      /\ \A v \in Workers \ {w} : /\ pc'[v] = pc[v] /\ target'[v] = target[v]
                                  /\ seen'[v] = seen[v]
  BY <1>2, ReadType
<1>4. kind[s] = "scholarship" /\ status[s] \in {"approved", "refunded"} /\ s \notin Orders
  BY <1>0, <1>1 DEF ScholarshipsSaved, ScholarshipSaved, Orders, OrderKinds
<1>5. Orders' = Orders
  BY <1>1 DEF Orders
<1>6. TypeOK'
  BY <1>0, <1>1, <1>3 DEF TypeOK, Statuses
<1>7. NothingEarly' /\ LedgerExact'
  BY <1>0, <1>1, <1>4, <1>5 DEF NothingEarly, LedgerExact, TypeOK
<1>8. ASSUME NEW v \in Workers PROVE HoldsOrder(v)'
  <2>1. CASE v = w
    BY <1>3, <2>1 DEF HoldsOrder
  <2>2. CASE v # w
    <3>1. pc[v] \in {"grant", "refund"} => target[v] # s
      BY <1>0, <1>4 DEF HoldsOrder
    <3> QED BY <1>0, <1>1, <1>3, <1>5, <2>2, <3>1 DEF HoldsOrder, TypeOK
  <2> QED BY <2>1, <2>2
<1>9. ScholarshipsSaved'
  BY <1>0, <1>1, <1>3, <1>4 DEF ScholarshipsSaved, ScholarshipSaved, TypeOK
<1> QED BY <1>6, <1>7, <1>8, <1>9 DEF IInv

\* The time a grant with an end added, and so the row it leaves, are typed.
LEMMA ReversedTyped ==
  ASSUME TypeOK, NEW w \in Workers, NEW s \in Sources,
         seen[w].row \in Rows, seen[w].row = ledger[s].row
  PROVE  Reversed(w, s) \in [exists: BOOLEAN, active: BOOLEAN, start: Nat, end: Ends]
<1> DEFINE old == access[seen[w].row]
           end == seen[w].end - Contribution(ledger[s])
<1>1. old \in [exists: BOOLEAN, active: BOOLEAN, start: Nat, end: Ends]
  BY DEF TypeOK
<1>2. /\ seen[w].end \in Ends /\ ledger[s].granted \in Ends /\ ledger[s].previous \in Ends
      /\ access[ledger[s].row].start \in Nat
  BY DEF TypeOK
<1>3. seen[w].end # NoEnd /\ ledger[s].granted # NoEnd => end \in Ends
  BY <1>2 DEF Ends, Contribution
<1> HIDE DEF end
<1>4. [old EXCEPT !.active = FALSE] \in [exists: BOOLEAN, active: BOOLEAN, start: Nat, end: Ends]
  BY <1>1
<1>5. end \in Ends =>
        [old EXCEPT !.end = end] \in [exists: BOOLEAN, active: BOOLEAN, start: Nat, end: Ends]
  BY <1>1
<1>6. \/ Reversed(w, s) = [old EXCEPT !.active = FALSE]
      \/ Reversed(w, s) = old
      \/ /\ seen[w].end # NoEnd /\ ledger[s].granted # NoEnd
         /\ Reversed(w, s) = [old EXCEPT !.end = end]
  BY DEF Reversed, end
<1> QED BY <1>1, <1>3, <1>4, <1>5, <1>6

\* refund reverses the grant of the order it holds, once.
LEMMA RefundCommits ==
  ASSUME IInv, NEW w \in Workers, CommitRefund(w)
  PROVE  IInv'
<1> DEFINE s == target[w]
<1>0. /\ TypeOK /\ NothingEarly /\ LedgerExact /\ ScholarshipsSaved
      /\ \A v \in Workers : HoldsOrder(v)
  BY DEF IInv
<1>1. /\ pc[w] = "refund" /\ status' = [status EXCEPT ![s] = "refunded"] /\ Finish(w)
      /\ UNCHANGED <<now, kind, days, recorded, overlapped>>
  BY DEF CommitRefund, sources
<1>2. /\ s \in Orders /\ s \in Sources /\ status[s] = "approved"
      /\ seen[w].row = ledger[s].row /\ kind[s] # "none"
  BY <1>0, <1>1 DEF HoldsOrder, Orders, OrderKinds
<1>3. /\ access' \in [Rows -> [exists: BOOLEAN, active: BOOLEAN, start: Nat, end: Ends]]
      /\ ledger' \in [Sources -> [row: Rows \cup {NoRow}, created: BOOLEAN,
                                 previous: Ends, granted: Ends, revoked: BOOLEAN]]
      /\ reversals' \in [Sources -> Nat]
      /\ \A x \in Sources \ {s} : ledger'[x] = ledger[x] /\ reversals'[x] = reversals[x]
      /\ ledger'[s].row = ledger[s].row
      /\ ledger[s].row = NoRow => ledger'[s] = ledger[s] /\ reversals'[s] = reversals[s]
      /\ ledger[s].row # NoRow => ledger'[s].revoked = TRUE /\ reversals'[s] = reversals[s] + 1
  <2>1. CASE seen[w].row = NoRow
    BY <1>0, <1>2, <2>1 DEF CommitRefund, TypeOK
  <2>2. CASE seen[w].row # NoRow
    <3>1. seen[w].row \in Rows
      BY <1>0, <2>2 DEF TypeOK
    <3>2. /\ access' = [access EXCEPT ![seen[w].row] = Reversed(w, s)]
          /\ ledger' = [ledger EXCEPT ![s] = [ledger[s] EXCEPT !.revoked = TRUE]]
          /\ reversals' = [reversals EXCEPT ![s] = reversals[s] + 1]
      BY <2>2 DEF CommitRefund
    <3>3. Reversed(w, s) \in [exists: BOOLEAN, active: BOOLEAN, start: Nat, end: Ends]
      BY <1>0, <1>2, <3>1, ReversedTyped
    <3>4. access' \in [Rows -> [exists: BOOLEAN, active: BOOLEAN, start: Nat, end: Ends]]
      BY <1>0, <3>2, <3>3 DEF TypeOK
    <3> DEFINE g == [ledger[s] EXCEPT !.revoked = TRUE]
    <3>5. /\ g \in [row: Rows \cup {NoRow}, created: BOOLEAN,
                    previous: Ends, granted: Ends, revoked: BOOLEAN]
          /\ g.row = ledger[s].row /\ g.revoked = TRUE
      BY <1>0, <1>2 DEF TypeOK
    <3>6. ledger' = [ledger EXCEPT ![s] = g]
      BY <3>2
    <3> HIDE DEF g
    <3>7. ledger' \in [Sources -> [row: Rows \cup {NoRow}, created: BOOLEAN,
                                   previous: Ends, granted: Ends, revoked: BOOLEAN]]
      BY <1>0, <3>5, <3>6 DEF TypeOK
    <3>8. /\ \A x \in Sources \ {s} : ledger'[x] = ledger[x]
          /\ ledger'[s] = g
      BY <1>0, <1>2, <3>6 DEF TypeOK
    <3>9. /\ reversals' \in [Sources -> Nat]
          /\ \A x \in Sources \ {s} : reversals'[x] = reversals[x]
          /\ reversals'[s] = reversals[s] + 1
      BY <1>0, <1>2, <3>2 DEF TypeOK
    <3> QED BY <1>2, <2>2, <3>4, <3>5, <3>7, <3>8, <3>9
  <2> QED BY <2>1, <2>2
<1>4. TypeOK'
  BY <1>0, <1>1, <1>3, FinishType DEF TypeOK, Statuses
<1>5. NothingEarly'
  BY <1>0, <1>1, <1>2, <1>3 DEF NothingEarly, TypeOK
<1>6. LedgerExact'
  <2>1. Orders' = Orders
    BY <1>1 DEF Orders
  <2>2. ~ledger[s].revoked \/ ledger[s].row = NoRow
    BY <1>0, <1>2 DEF LedgerExact
  <2>3. ledger[s].row # NoRow => reversals[s] = 0
    BY <1>0, <1>2, <2>2 DEF LedgerExact
  <2>4. ASSUME NEW x \in Orders, x # s
        PROVE  /\ status'[x] = status[x] /\ ledger'[x] = ledger[x]
               /\ reversals'[x] = reversals[x] /\ kind'[x] = kind[x]
    BY <1>0, <1>1, <1>3, <2>4 DEF TypeOK, Orders
  <2>5. status'[s] = "refunded"
    BY <1>0, <1>1, <1>2 DEF TypeOK
  <2>6. /\ status[s] \in {"approved", "refunded"} /\ kind[s] # "package" => ledger[s].row # NoRow
        /\ reversals[s] = IF ledger[s].revoked THEN 1 ELSE 0
    BY <1>0, <1>2 DEF LedgerExact
  <2>7. /\ ledger'[s].row # NoRow => status'[s] \in {"approved", "refunded"}
        /\ status'[s] \in {"approved", "refunded"} /\ kind'[s] # "package" => ledger'[s].row # NoRow
        /\ ledger'[s].row # NoRow => (ledger'[s].revoked <=> status'[s] = "refunded")
        /\ reversals'[s] = IF ledger'[s].revoked THEN 1 ELSE 0
    BY <1>1, <1>2, <1>3, <2>3, <2>5, <2>6
  <2> QED BY <1>0, <2>1, <2>4, <2>7 DEF LedgerExact
<1>7. ASSUME NEW v \in Workers PROVE HoldsOrder(v)'
  <2>1. CASE v = w
    BY <1>0, <1>1, <2>1, FinishType DEF HoldsOrder
  <2>2. CASE v # w
    <3>1. pc[v] \in {"grant", "refund"} => target[v] # s /\ target[v] \in Sources
      BY <1>0, <1>1, <2>2 DEF HoldsOrder, TypeOK
    <3>2. /\ pc'[v] = pc[v] /\ target'[v] = target[v] /\ seen'[v] = seen[v]
          /\ \A u \in Workers \ {w} : pc'[u] = pc[u] /\ target'[u] = target[u]
          /\ pc'[w] = "idle"
      BY <1>0, <1>1, <2>2, FinishType
    <3>3. pc[v] \in {"grant", "refund"} =>
            /\ kind'[target[v]] = kind[target[v]] /\ status'[target[v]] = status[target[v]]
            /\ ledger'[target[v]] = ledger[target[v]]
      BY <1>0, <1>1, <1>3, <3>1 DEF TypeOK
    <3>4. Orders' = Orders
      BY <1>1 DEF Orders
    <3> QED BY <1>0, <2>2, <3>2, <3>3, <3>4 DEF HoldsOrder
  <2> QED BY <2>1, <2>2
<1>8. ScholarshipsSaved'
  BY <1>0, <1>1, <1>2, FinishType DEF ScholarshipsSaved, ScholarshipSaved, TypeOK
<1> QED BY <1>4, <1>5, <1>6, <1>7, <1>8 DEF IInv

\* revoke ends by switching its subscription off.
LEMMA RevokeFinishes ==
  ASSUME IInv, NEW w \in Workers, FinishRevoke(w)
  PROVE  IInv'
<1>1. /\ access' = [access EXCEPT ![seen[w].row] = [access[seen[w].row] EXCEPT !.active = FALSE]]
      /\ Finish(w) /\ UNCHANGED <<now, overlapped, ledgerVars>>
  BY DEF FinishRevoke, ledgerVars, history
<1>2. TypeOK
  BY DEF IInv
<1>3. access' \in [Rows -> [exists: BOOLEAN, active: BOOLEAN, start: Nat, end: Ends]]
  <2>1. CASE seen[w].row \in Rows
    <3> DEFINE old == access[seen[w].row]
    <3>1. old \in [exists: BOOLEAN, active: BOOLEAN, start: Nat, end: Ends]
      BY <1>2, <2>1 DEF TypeOK
    <3>2. access' = [access EXCEPT ![seen[w].row] = [old EXCEPT !.active = FALSE]]
      BY <1>1
    <3> HIDE DEF old
    <3>3. [old EXCEPT !.active = FALSE]
            \in [exists: BOOLEAN, active: BOOLEAN, start: Nat, end: Ends]
      BY <3>1
    <3> QED BY <1>2, <2>1, <3>2, <3>3 DEF TypeOK
  <2>2. CASE seen[w].row \notin Rows
    <3> DEFINE r == seen[w].row
               off == [access[r] EXCEPT !.active = FALSE]
    <3>1. access' = [access EXCEPT ![r] = off]
      BY <1>1
    <3> HIDE DEF off, r
    <3>2. r \notin Rows /\ access \in [Rows -> [exists: BOOLEAN, active: BOOLEAN, start: Nat, end: Ends]]
      BY <1>2, <2>2 DEF TypeOK, r
    <3> QED BY <3>1, <3>2
  <2> QED BY <2>1, <2>2
<1> QED BY <1>1, <1>3, FinishKeeps

\* A Scholarship row is written for the scholarship that was just saved.
LEMMA RecordNext ==
  ASSUME IInv, NEW w \in Workers, RecordScholarship(w)
  PROVE  IInv'
<1>0. /\ TypeOK /\ NothingEarly /\ LedgerExact /\ ScholarshipsSaved
      /\ \A v \in Workers : HoldsOrder(v)
  BY DEF IInv
<1>1. /\ pc[w] = "record" /\ Finish(w)
      /\ recorded' \subseteq recorded \cup {target[w]}
      /\ UNCHANGED <<now, kind, days, status, access, ledger, reversals, overlapped>>
  BY DEF RecordScholarship, sources, history
<1>2. target[w] \in Sources /\ ScholarshipSaved(target[w])
  BY <1>0, <1>1 DEF TypeOK, ScholarshipsSaved
<1>3. TypeOK'
  BY <1>0, <1>1, <1>2, FinishType DEF TypeOK
<1>4. NothingEarly' /\ LedgerExact'
  BY <1>0, <1>1 DEF NothingEarly, LedgerExact, Orders
<1>5. ASSUME NEW v \in Workers PROVE HoldsOrder(v)'
  <2>1. CASE v = w
    BY <1>0, <1>1, <2>1, FinishType DEF HoldsOrder
  <2>2. CASE v # w
    BY <1>0, <1>1, <2>2, FinishType DEF HoldsOrder, Orders
  <2> QED BY <2>1, <2>2
<1>6. ScholarshipsSaved'
  BY <1>0, <1>1, <1>2, FinishType DEF ScholarshipsSaved, ScholarshipSaved
<1> QED BY <1>3, <1>4, <1>5, <1>6 DEF IInv

\* A crash drops the request in hand.
LEMMA CrashNext ==
  ASSUME IInv, NEW w \in Workers, Crash(w)
  PROVE  IInv'
<1>1. Finish(w) /\ UNCHANGED <<now, overlapped, ledgerVars, access>>
  BY DEF Crash, ledgerVars, history
<1>2. access' \in [Rows -> [exists: BOOLEAN, active: BOOLEAN, start: Nat, end: Ends]]
  BY <1>1 DEF IInv, TypeOK
<1> QED BY <1>1, <1>2, FinishKeeps

\* The invariant holds in the initial state.
LEMMA InitHolds == Init => IInv
<1> SUFFICES ASSUME Init PROVE IInv
  OBVIOUS
<1>1. NoAccess \in [exists: BOOLEAN, active: BOOLEAN, start: Nat, end: Ends]
  BY DEF NoAccess, Ends
<1>2. NoGrant \in [row: Rows \cup {NoRow}, created: BOOLEAN,
                   previous: Ends, granted: Ends, revoked: BOOLEAN]
  BY DEF NoGrant, Ends
<1>3. Unseen \in [row: Rows \cup {NoRow}, end: Ends, at: Nat, others: BOOLEAN]
  BY DEF Unseen, Ends
<1>4. TypeOK
  BY <1>1, <1>2, <1>3 DEF Init, TypeOK, Statuses, PcValues
<1>5. NothingEarly /\ LedgerExact /\ ScholarshipsSaved
  BY DEF Init, NothingEarly, LedgerExact, ScholarshipsSaved, NoGrant, Orders, OrderKinds
<1>6. \A w \in Workers : HoldsOrder(w)
  BY DEF Init, HoldsOrder
<1> QED BY <1>4, <1>5, <1>6 DEF IInv

\* Every step preserves it.
LEMMA NextHolds == IInv /\ [Next]_vars => IInv'
<1> SUFFICES ASSUME IInv, [Next]_vars PROVE IInv'
  OBVIOUS
<1>1. CASE Tick
  BY <1>1 DEF Tick, IInv, TypeOK, NothingEarly, LedgerExact, ScholarshipsSaved,
              ScholarshipSaved, HoldsOrder, Orders, sources, history, locals
<1>2. CASE \E s \in Sources, k \in OrderKinds, d \in Durations : Order(s, k, d)
  BY <1>2, OrderNext
<1>3. CASE \E w \in Workers :
             \E s \in Sources, k \in GrantKinds, d \in Durations : BeginGrant(w, s, k, d)
  BY <1>3, GrantBegins
<1>4. CASE \E w \in Workers, s \in Sources :
             BeginActivate(w, s) \/ BeginRefund(w, s) \/ BeginRevoke(w, s)
  BY <1>4, ActivateBegins, RefundBegins, RevokeBegins
<1>5. CASE \E w \in Workers :
             CreateSubscription(w) \/ ExtendSubscription(w) \/ GrantTest(w) \/ GrantCourse(w)
  BY <1>5, CreateNext, ExtendNext, TestNext, CourseNext
<1>6. CASE \E w \in Workers :
             RecordScholarship(w) \/ CommitRefund(w) \/ FinishRevoke(w) \/ Crash(w)
  BY <1>6, RecordNext, RefundCommits, RevokeFinishes, CrashNext
<1>7. CASE UNCHANGED vars
  BY <1>7 DEF vars, IInv, TypeOK, NothingEarly, LedgerExact, ScholarshipsSaved,
              ScholarshipSaved, HoldsOrder, Orders, sources, history, locals
<1> QED BY <1>1, <1>2, <1>3, <1>4, <1>5, <1>6, <1>7 DEF Next

\* The inductive invariant holds in every reachable state.
THEOREM InvariantHolds == Spec => []IInv
BY InitHolds, NextHolds, PTL DEF Spec

\* Every variable keeps its type, and a request in hand works on a source.
THEOREM TypeCorrect == Spec => []TypeOK
<1>1. IInv => TypeOK
  BY DEF IInv
<1> QED BY InvariantHolds, <1>1, PTL

\* However many threads approve and refund, an order has a live grant exactly
\* while it is approved, and its refund reverses the grant exactly once
\* (activate and refund of payment_service.py take the order's row lock).
THEOREM LedgerExactHolds == Spec => []LedgerExact
<1>1. IInv => LedgerExact
  BY DEF IInv
<1> QED BY InvariantHolds, <1>1, PTL

-----------------------------------------------------------------------------
(* The days of a set of sources: their number adds up *)

\* A source of n days stands for n days.
LEMMA DayCount ==
  ASSUME NEW s, NEW n \in Nat
  PROVE  IsFiniteSet({s} \X (1..n)) /\ Cardinality({s} \X (1..n)) = n
<1>1. IsFiniteSet(1..n) /\ Cardinality(1..n) = n
  BY FS_Interval
<1>2. IsFiniteSet({s}) /\ Cardinality({s}) = 1
  BY FS_Singleton
<1> QED BY <1>1, <1>2, FS_Product

\* One more source adds its own days.
LEMMA AddDays ==
  ASSUME NEW S, NEW s, NEW d, s \notin S, d[s] \in Nat, IsFiniteSet(DaysOf(S, d))
  PROVE  /\ IsFiniteSet(DaysOf(S \cup {s}, d))
         /\ Cardinality(DaysOf(S, d)) \in Nat
         /\ Cardinality(DaysOf(S \cup {s}, d)) = Cardinality(DaysOf(S, d)) + d[s]
<1> DEFINE A == DaysOf(S, d)
           B == {s} \X (1..d[s])
<1>1. DaysOf(S \cup {s}, d) = A \cup B
  BY DEF DaysOf
<1>2. IsFiniteSet(B) /\ Cardinality(B) = d[s]
  BY DayCount
<1>3. A \cap B = {}
  BY DEF DaysOf
<1>4. IsFiniteSet(A \cap B) /\ Cardinality(A \cap B) = 0
  BY <1>3, FS_EmptySet
<1> HIDE DEF A, B
<1>5. IsFiniteSet(A)
  BY DEF A
<1>6. /\ IsFiniteSet(A \cup B)
      /\ Cardinality(A \cup B) = Cardinality(A) + Cardinality(B) - Cardinality(A \cap B)
  BY <1>2, <1>5, FS_Union
<1>7. Cardinality(A) \in Nat
  BY <1>5, FS_CardinalityType
<1>8. Cardinality(A \cup B) = Cardinality(A) + d[s]
  BY <1>2, <1>4, <1>6, <1>7
<1>9. DaysOf(S \cup {s}, d) = A \cup B /\ DaysOf(S, d) = A
  BY <1>1 DEF A
<1> QED BY <1>6, <1>7, <1>8, <1>9

\* One source less takes its own days along.
LEMMA RemoveDays ==
  ASSUME NEW S, NEW s \in S, NEW d, d[s] \in Nat, IsFiniteSet(DaysOf(S, d))
  PROVE  /\ IsFiniteSet(DaysOf(S \ {s}, d))
         /\ Cardinality(DaysOf(S \ {s}, d)) \in Nat
         /\ Cardinality(DaysOf(S, d)) = Cardinality(DaysOf(S \ {s}, d)) + d[s]
<1>1. DaysOf(S \ {s}, d) \subseteq DaysOf(S, d)
  BY DEF DaysOf
<1>2. IsFiniteSet(DaysOf(S \ {s}, d))
  BY <1>1, FS_Subset
<1>3. (S \ {s}) \cup {s} = S
  OBVIOUS
<1>4. s \notin S \ {s}
  OBVIOUS
<1> QED BY <1>2, <1>3, <1>4, AddDays

\* Only the days of the sources in the set count.
LEMMA SameDays ==
  ASSUME NEW S, NEW d, NEW e, \A s \in S : d[s] = e[s]
  PROVE  DaysOf(S, d) = DaysOf(S, e)
BY DEF DaysOf

-----------------------------------------------------------------------------
(* RowsKnown: grants are on rows that exist *)

\* Steps that write no grant keep it.
LEMMA KnownKeeps ==
  ASSUME IInv, RowsKnown,
         \A r \in Rows : access[r].exists => access'[r].exists,
         \A s \in Sources : /\ ledger'[s].row = ledger[s].row
                            /\ kind[s] # "none" => kind'[s] = kind[s],
         \A v \in Workers : pc'[v] = "grant" /\ seen'[v].row # NoRow =>
            \/ pc[v] = "grant" /\ seen'[v].row = seen[v].row
            \/ seen'[v].row \in Subscriptions /\ access[seen'[v].row].exists
  PROVE  RowsKnown'
<1>1. ASSUME NEW s \in Sources, ledger'[s].row # NoRow
      PROVE  /\ access'[ledger'[s].row].exists
             /\ kind'[s] = "scholarship" => ledger'[s].row \in Subscriptions
  <2>1. ledger'[s].row = ledger[s].row /\ ledger[s].row \in Rows
    BY <1>1 DEF IInv, TypeOK
  <2>2. kind[s] # "none"
    BY <2>1, <1>1 DEF IInv, NothingEarly, NoGrant
  <2> QED BY <2>1, <2>2, <1>1 DEF RowsKnown
<1>2. ASSUME NEW v \in Workers, pc'[v] = "grant", seen'[v].row # NoRow
      PROVE  seen'[v].row \in Subscriptions /\ access'[seen'[v].row].exists
  BY <1>2 DEF RowsKnown, Rows
<1> QED BY <1>1, <1>2 DEF RowsKnown

\* A grant is on a row that it leaves existing.
LEMMA KnownGrant ==
  ASSUME IInv, RowsKnown, NEW w \in Workers, pc[w] = "grant",
         NEW r \in Rows, NEW row, NEW created, NEW previous,
         Grant(w, target[w], r, row, created, previous),
         row.exists = TRUE, kind[target[w]] = "scholarship" => r \in Subscriptions
  PROVE  RowsKnown'
<1> DEFINE s == target[w]
<1>0. TypeOK /\ s \in Sources
  BY DEF IInv, TypeOK
<1>1. /\ access' = [access EXCEPT ![r] = row] /\ kind' = kind
      /\ ledger'[s].row = r /\ \A x \in Sources \ {s} : ledger'[x] = ledger[x]
  BY <1>0 DEF Grant, sources, TypeOK
<1>2. \A q \in Rows : access[q].exists => access'[q].exists
  BY <1>0, <1>1 DEF TypeOK
<1>3. \A v \in Workers : pc'[v] = "grant" => pc[v] = "grant" /\ seen'[v] = seen[v]
  <2>1. CASE kind[s] = "scholarship"
    BY <1>0, <2>1 DEF Grant, TypeOK
  <2>2. CASE kind[s] # "scholarship"
    BY <1>0, <2>2, FinishType DEF Grant
  <2> QED BY <2>1, <2>2
<1>4. ASSUME NEW x \in Sources, ledger'[x].row # NoRow
      PROVE  /\ access'[ledger'[x].row].exists
             /\ kind'[x] = "scholarship" => ledger'[x].row \in Subscriptions
  <2>1. CASE x = s
    BY <2>1, <1>0, <1>1 DEF TypeOK
  <2>2. CASE x # s
    BY <2>2, <1>0, <1>1, <1>2, <1>4 DEF RowsKnown, TypeOK
  <2> QED BY <2>1, <2>2
<1>5. ASSUME NEW v \in Workers, pc'[v] = "grant", seen'[v].row # NoRow
      PROVE  seen'[v].row \in Subscriptions /\ access'[seen'[v].row].exists
  BY <1>2, <1>3, <1>5 DEF RowsKnown, Rows
<1> QED BY <1>4, <1>5 DEF RowsKnown

\* The row a renewal reads is a subscription that may be extended.
LEMMA NewestUsable ==
  ASSUME NEW r \in Subscriptions \cup {NoRow}, NEW scholarship \in BOOLEAN,
         IsNewest(r, Extendable(scholarship)), r # NoRow
  PROVE  /\ r \in Subscriptions /\ Usable(r)
         /\ OfScholarship(r) <=> scholarship
BY DEF IsNewest, Extendable

\* A request that begins is the only one, or overlaps.
LEMMA LoneReader ==
  ASSUME TypeOK, NEW w \in Workers, NEW s \in Sources, NEW step \in PcValues,
         NEW r \in Rows \cup {NoRow}, NEW others \in BOOLEAN, Read(w, s, step, r, others)
  PROVE  /\ overlapped => overlapped'
         /\ ~overlapped' => \A v \in Workers \ {w} : pc[v] = "idle" /\ pc'[v] = "idle"
         /\ seen'[w].others = others /\ seen'[w].at = now
         /\ r # NoRow => seen'[w].end = access[r].end
<1>1. \A v \in Workers \ {w} : pc'[v] = pc[v]
  BY ReadType
<1>2. overlapped' = (overlapped \/ \E v \in Workers \ {w} : pc[v] # "idle")
  BY DEF Read
<1>3. (overlapped => overlapped') /\ (~overlapped' => \A v \in Workers \ {w} : pc[v] = "idle")
  BY <1>2
<1>4. /\ seen'[w].others = others /\ seen'[w].at = now
      /\ r # NoRow => seen'[w].end = access[r].end
  <2> DEFINE end == IF r = NoRow THEN NoEnd ELSE access[r].end
             reading == [row |-> r, others |-> others, end |-> end, at |-> now]
  <2>1. seen'[w] = reading
    BY DEF Read, TypeOK
  <2>2. reading.others = others /\ reading.at = now /\ reading.end = end
    OBVIOUS
  <2>3. r # NoRow => end = access[r].end
    OBVIOUS
  <2> HIDE DEF reading, end
  <2> QED BY <2>1, <2>2, <2>3
<1> QED BY <1>1, <1>3, <1>4

LEMMA KnownBegins ==
  ASSUME IInv, RowsKnown, NEW w \in Workers, NEW s \in Sources,
         \/ BeginActivate(w, s) \/ BeginRefund(w, s) \/ BeginRevoke(w, s)
         \/ \E k \in GrantKinds, d \in Durations : BeginGrant(w, s, k, d)
  PROVE  RowsKnown'
<1>0. /\ TypeOK /\ NothingEarly
      /\ \A step \in {"grant", "refund", "revoke"} : step \in PcValues
  BY DEF IInv, PcValues
<1>1. /\ access' = access /\ ledger' = ledger
      /\ \A x \in Sources : kind[x] # "none" => kind'[x] = kind[x]
  BY <1>0 DEF BeginActivate, BeginRefund, BeginRevoke, BeginGrant, sources, TypeOK
<1>2. PICK r \in Rows \cup {NoRow}, step \in {"grant", "refund", "revoke"}, others \in BOOLEAN :
        /\ Read(w, s, step, r, others)
        /\ step = "grant" /\ r # NoRow => r \in Subscriptions /\ access[r].exists
  <2>1. CASE BeginActivate(w, s)
    <3>1. PICK r \in Subscriptions \cup {NoRow} :
            /\ IF Renews(s) THEN IsNewest(r, Extendable(FALSE)) ELSE r = NoRow
            /\ Read(w, s, "grant", r, FALSE)
      BY <2>1 DEF BeginActivate
    <3>2. r # NoRow => r \in Subscriptions /\ access[r].exists
      BY <3>1, NewestUsable DEF Usable
    <3> QED BY <3>1, <3>2 DEF Rows
  <2>2. CASE BeginRefund(w, s)
    <3>1. ToReverse(s) \in Rows \cup {NoRow}
      BY <1>0 DEF ToReverse, TypeOK
    <3> DEFINE others == OtherGrants(s, ledger[s].row) # {}
    <3>2. Read(w, s, "refund", ToReverse(s), others) /\ others \in BOOLEAN
      BY <2>2 DEF BeginRefund
    <3> HIDE DEF others
    <3> QED BY <3>1, <3>2
  <2>3. CASE BeginRevoke(w, s)
    <3>1. ledger[s].row \in Rows \cup {NoRow}
      BY <1>0 DEF TypeOK
    <3> QED BY <2>3, <3>1 DEF BeginRevoke
  <2>4. CASE \E k \in GrantKinds, d \in Durations : BeginGrant(w, s, k, d)
    <3>1. PICK k \in GrantKinds, r \in Subscriptions \cup {NoRow} :
            IsNewest(r, Extendable(k = "scholarship")) /\ Read(w, s, "grant", r, FALSE)
      BY <2>4 DEF BeginGrant
    <3> DEFINE scholarship == k = "scholarship"
    <3>2. scholarship \in BOOLEAN /\ IsNewest(r, Extendable(scholarship))
      BY <3>1
    <3> HIDE DEF scholarship
    <3>3. r # NoRow => r \in Subscriptions /\ access[r].exists
      BY <3>1, <3>2, NewestUsable DEF Usable
    <3> QED BY <3>1, <3>3 DEF Rows
  <2> QED BY <2>1, <2>2, <2>3, <2>4
<1>3. /\ \A v \in Workers \ {w} : pc'[v] = pc[v] /\ seen'[v] = seen[v]
      /\ pc'[w] = step /\ seen'[w].row = r
  BY <1>0, <1>2, ReadType
<1>4. \A v \in Workers : pc'[v] = "grant" /\ seen'[v].row # NoRow =>
        \/ pc[v] = "grant" /\ seen'[v].row = seen[v].row
        \/ seen'[v].row \in Subscriptions /\ access[seen'[v].row].exists
  BY <1>2, <1>3
<1> QED BY <1>1, <1>4, KnownKeeps

\* A request that ends on access that stays in existence.
LEMMA KnownFinish ==
  ASSUME IInv, RowsKnown, NEW w \in Workers, Finish(w), kind' = kind,
         \A r \in Rows : access[r].exists => access'[r].exists,
         \A s \in Sources : ledger'[s].row = ledger[s].row
  PROVE  RowsKnown'
<1>1. \A v \in Workers : pc'[v] = "grant" => pc[v] = "grant" /\ seen'[v] = seen[v]
  BY FinishType DEF IInv
<1> QED BY <1>1, KnownKeeps

LEMMA KnownGranted ==
  ASSUME IInv, RowsKnown, NEW w \in Workers,
         CreateSubscription(w) \/ ExtendSubscription(w) \/ GrantTest(w) \/ GrantCourse(w)
  PROVE  RowsKnown'
<1> DEFINE s == target[w]
<1>0. TypeOK /\ s \in Sources /\ pc[w] = "grant"
  BY DEF IInv, TypeOK, CreateSubscription, ExtendSubscription, GrantTest, GrantCourse
<1>1. CASE CreateSubscription(w)
  <2> DEFINE row == [exists |-> TRUE, active |-> TRUE, start |-> seen[w].at,
                     end |-> EndAfter(seen[w].at, s)]
  <2>1. PICK r \in Subscriptions : Grant(w, s, r, row, TRUE, NoEnd)
    BY <1>1 DEF CreateSubscription
  <2>2. row.exists = TRUE
    OBVIOUS
  <2> HIDE DEF row
  <2> QED BY <1>0, <2>1, <2>2, KnownGrant DEF Rows
<1>2. CASE ExtendSubscription(w)
  <2> DEFINE r == seen[w].row
             from == IF seen[w].end # NoEnd /\ seen[w].end > seen[w].at THEN seen[w].end
                                                                       ELSE seen[w].at
             row == [access[r] EXCEPT !.active = TRUE, !.end = EndAfter(from, s)]
  <2>1. Grant(w, s, r, row, FALSE, seen[w].end) /\ r # NoRow
    BY <1>2 DEF ExtendSubscription
  <2>2. r \in Subscriptions /\ access[r].exists
    BY <1>0, <2>1 DEF RowsKnown
  <2>3. row.exists = access[r].exists
    BY <1>0, <2>2 DEF TypeOK, Rows
  <2> HIDE DEF row
  <2>4. row.exists = TRUE
    BY <2>2, <2>3, <1>0 DEF TypeOK, Rows
  <2> QED BY <1>0, <2>1, <2>2, <2>4, KnownGrant DEF Rows
<1>3. CASE GrantTest(w)
  <2> DEFINE old == access[TestRow]
             row == [exists |-> TRUE, active |-> TRUE, start |-> now, end |-> NoEnd]
  <2>1. kind[s] # "scholarship"
    BY <1>3 DEF GrantTest
  <2>2. CASE kind[s] = "package" /\ old.exists /\ old.active
    <3>1. Finish(w) /\ UNCHANGED <<kind, access, ledger>>
      BY <1>3, <2>2 DEF GrantTest, sources
    <3> QED BY <3>1, KnownFinish
  <2>3. CASE ~(kind[s] = "package" /\ old.exists /\ old.active)
    <3>1. Grant(w, s, TestRow, row, ~old.exists, NoEnd) /\ row.exists = TRUE
      BY <1>3, <2>3 DEF GrantTest
    <3> HIDE DEF row
    <3> QED BY <1>0, <2>1, <3>1, KnownGrant DEF Rows
  <2> QED BY <2>2, <2>3
<1>4. CASE GrantCourse(w)
  <2> DEFINE old == access[CourseRow]
             row == [exists |-> TRUE, active |-> TRUE, end |-> EndAfter(now, s),
                     start |-> IF old.exists THEN old.start ELSE now]
  <2>1. kind[s] # "scholarship" /\ row.exists = TRUE
    BY <1>4 DEF GrantCourse
  <2>2. Grant(w, s, CourseRow, row, ~old.exists, old.end)
    BY <1>4 DEF GrantCourse
  <2> HIDE DEF row
  <2> QED BY <1>0, <2>1, <2>2, KnownGrant DEF Rows
<1> QED BY <1>1, <1>2, <1>3, <1>4

LEMMA KnownEnds ==
  ASSUME IInv, RowsKnown, NEW w \in Workers,
         RecordScholarship(w) \/ CommitRefund(w) \/ FinishRevoke(w) \/ Crash(w)
  PROVE  RowsKnown'
<1>0. TypeOK /\ Finish(w) /\ kind' = kind
  BY DEF IInv, RecordScholarship, CommitRefund, FinishRevoke, Crash, sources
<1>1. CASE RecordScholarship(w) \/ Crash(w)
  BY <1>0, <1>1, KnownFinish DEF RecordScholarship, Crash
<1>2. CASE CommitRefund(w)
  <2> DEFINE s == target[w]
  <2>1. CASE seen[w].row = NoRow
    BY <1>0, <1>2, <2>1, KnownFinish DEF CommitRefund
  <2>2. CASE seen[w].row # NoRow
    <3>1. /\ access' = [access EXCEPT ![seen[w].row] = Reversed(w, s)]
          /\ ledger' = [ledger EXCEPT ![s] = [ledger[s] EXCEPT !.revoked = TRUE]]
          /\ seen[w].row \in Rows
      BY <1>0, <1>2, <2>2 DEF CommitRefund, TypeOK
    <3>2. Reversed(w, s).exists = access[seen[w].row].exists
      BY <1>0, <3>1 DEF Reversed, TypeOK
    <3>3. [ledger[s] EXCEPT !.revoked = TRUE].row = ledger[s].row
      BY <1>0, <1>2 DEF TypeOK, CommitRefund
    <3>4. \A r \in Rows : access[r].exists => access'[r].exists
      BY <1>0, <3>1, <3>2 DEF TypeOK
    <3>5. \A x \in Sources : ledger'[x].row = ledger[x].row
      BY <1>0, <3>1, <3>3 DEF TypeOK
    <3> QED BY <1>0, <3>4, <3>5, KnownFinish
  <2> QED BY <2>1, <2>2
<1>3. CASE FinishRevoke(w)
  <2>1. /\ access' = [access EXCEPT ![seen[w].row] = [access[seen[w].row] EXCEPT !.active = FALSE]]
        /\ ledger' = ledger
    BY <1>3 DEF FinishRevoke
  <2>2. ASSUME NEW r \in Rows PROVE access'[r].exists = access[r].exists
    <3>1. [access[r] EXCEPT !.active = FALSE].exists = access[r].exists
      BY <1>0 DEF TypeOK
    <3> QED BY <1>0, <2>1, <3>1 DEF TypeOK
  <2> QED BY <1>0, <2>1, <2>2, KnownFinish
<1> QED BY <1>1, <1>2, <1>3

LEMMA KnownNext == IInv /\ RowsKnown /\ [Next]_vars => RowsKnown'
<1> SUFFICES ASSUME IInv, RowsKnown, [Next]_vars PROVE RowsKnown'
  OBVIOUS
<1>1. CASE Tick \/ UNCHANGED vars
  BY <1>1, KnownKeeps DEF Tick, vars, sources, locals
<1>2. ASSUME NEW s \in Sources, NEW k \in OrderKinds, NEW d \in Durations, Order(s, k, d)
      PROVE  RowsKnown'
  <2>1. \A x \in Sources : kind[x] # "none" => kind'[x] = kind[x]
    BY <1>2 DEF Order, IInv, TypeOK
  <2> QED BY <1>2, <2>1, KnownKeeps DEF Order, locals
<1> QED BY <1>1, <1>2, KnownBegins, KnownGranted, KnownEnds DEF Next

-----------------------------------------------------------------------------
(* Requests that do not overlap *)

\* What the sources of subscription r say of it: its days are those of the
\* sources paid for, and each source added its own.
RowAdds(r) ==
    /\ IsFiniteSet(PaidDays(r))
    /\ Finite(r) => \A s \in Sources : ledger[s].row = r =>
                        ledger[s].granted # NoEnd /\ Contribution(ledger[s]) = days[s]
    /\ access[r].active /\ Finite(r) => access[r].end = access[r].start + Cardinality(PaidDays(r))

Kept == \A s \in Orders :
            status[s] = "approved" /\ ledger[s].row \in Rows \ {TestRow} =>
                access[ledger[s].row].active

Apart == \A s \in Orders, x \in recorded :
            ledger[s].row # NoRow => ledger[s].row # ledger[x].row

Alone ==
    /\ OneAtATime /\ \A w \in Workers : Fresh(w)
    /\ \A r \in Subscriptions : RowAdds(r)
    /\ Kept /\ Apart

LEMMA AloneMeans == AloneInv <=> IInv /\ RowsKnown /\ (~overlapped => Alone)
<1>1. (\A r \in Subscriptions : RowAdds(r)) <=>
        /\ \A r \in Subscriptions : IsFiniteSet(PaidDays(r))
        /\ ContributionsExact
        /\ \A r \in Subscriptions :
             access[r].active /\ Finite(r) =>
                 access[r].end = access[r].start + Cardinality(PaidDays(r))
  BY DEF RowAdds, ContributionsExact
<1> QED BY <1>1 DEF AloneInv, Sequential, OriginsApart, SharedAccessKept, PaidTimeAdds,
                    Alone, Kept, Apart

\* A subscription whose own sources and times a step leaves alone.
LEMMA OtherRowAdds ==
  ASSUME NEW r \in Subscriptions, RowAdds(r),
         access'[r].start = access[r].start, access'[r].end = access[r].end,
         access'[r].active => access[r].active,
         \A s \in Sources : ledger[s].row = r \/ ledger'[s].row = r =>
                               ledger'[s] = ledger[s] /\ days'[s] = days[s]
  PROVE  RowAdds(r)'
<1>1. Paying(r)' = Paying(r)
  BY DEF Paying
<1>2. DaysOf(Paying(r), days') = DaysOf(Paying(r), days)
  <2>1. \A s \in Paying(r) : days'[s] = days[s]
    BY DEF Paying
  <2> QED BY <2>1, SameDays
<1>3. PaidDays(r)' = PaidDays(r)
  BY <1>1, <1>2 DEF PaidDays
<1>4. Finite(r)' <=> Finite(r)
  BY DEF Finite
<1>5. ASSUME Finite(r), NEW s \in Sources, ledger'[s].row = r
      PROVE  ledger'[s].granted # NoEnd /\ Contribution(ledger[s])' = days'[s]
  <2>1. /\ ledger'[s] = ledger[s] /\ days'[s] = days[s] /\ ledger[s].row = r
        /\ ledger[s].granted # NoEnd /\ Contribution(ledger[s]) = days[s]
    BY <1>5 DEF RowAdds
  <2> QED BY <2>1 DEF Contribution
<1> QED BY <1>3, <1>4, <1>5 DEF RowAdds

\* A step that grants and takes back nothing, and approves only what was
\* granted before or has no grant.
LEMMA QuietKeeps ==
  ASSUME IInv, \A r \in Subscriptions : RowAdds(r), Kept, Apart,
         UNCHANGED <<access, ledger, recorded>>,
         \A s \in Sources : ledger[s].row # NoRow =>
            /\ kind'[s] = kind[s] /\ days'[s] = days[s]
            /\ status'[s] = "approved" => status[s] = "approved"
  PROVE  (\A r \in Subscriptions : RowAdds(r)') /\ Kept' /\ Apart'
<1>1. NoRow \notin Rows /\ Subscriptions \subseteq Rows
  BY AccessAssumption DEF Rows
<1>2. \A r \in Subscriptions : RowAdds(r)'
  BY <1>1, OtherRowAdds
<1>3. \A s \in Orders' : ledger[s].row # NoRow => s \in Orders
  BY DEF Orders
<1>4. Kept'
  BY <1>1, <1>3 DEF Kept, Orders
<1>5. Apart'
  BY <1>3 DEF Apart
<1> QED BY <1>2, <1>4, <1>5

\* The end of a lone request leaves nothing in hand.
LEMMA LoneEnd ==
  ASSUME TypeOK, OneAtATime, NEW w \in Workers, pc[w] # "idle", Finish(w)
  PROVE  OneAtATime' /\ \A v \in Workers : Fresh(v)'
<1>1. \A v \in Workers : pc'[v] = "idle"
  BY FinishType DEF OneAtATime
<1> QED BY <1>1 DEF OneAtATime, Fresh

\* The clock and a new order change nothing of what is granted or in hand.
LEMMA AloneOrder ==
  ASSUME IInv, Alone, NEW s \in Sources, NEW k \in OrderKinds, NEW d \in Durations, Order(s, k, d)
  PROVE  Alone'
<1>0. /\ TypeOK /\ NothingEarly /\ kind[s] = "none" /\ ledger[s] = NoGrant
      /\ UNCHANGED <<access, ledger, recorded, pc, target, seen>>
      /\ \A x \in Sources \ {s} : /\ kind'[x] = kind[x] /\ days'[x] = days[x]
                                  /\ status'[x] = status[x]
  BY DEF IInv, NothingEarly, Order, TypeOK, locals
<1>1. NoGrant.row = NoRow
  BY DEF NoGrant
<1>2. (\A r \in Subscriptions : RowAdds(r)') /\ Kept' /\ Apart'
  BY <1>0, <1>1, QuietKeeps DEF Alone
<1>3. ASSUME NEW w \in Workers PROVE Fresh(w)'
  <2>1. Fresh(w) /\ HoldsOrder(w)
    BY DEF Alone, IInv
  <2>2. pc[w] \in {"grant", "refund"} => target[w] # s
    BY <1>0, <2>1 DEF HoldsOrder, Orders, OrderKinds
  <2>3. pc[w] = "grant" => kind'[target[w]] = kind[target[w]]
    BY <1>0, <2>2 DEF TypeOK
  <2>4. \A x \in Orders' : ledger[x].row # NoRow => x \in Orders
    BY <1>0, <1>1 DEF Orders
  <2>5. \A x \in Orders : ledger[x].row # NoRow => x \in Orders'
    BY <1>0, <1>1 DEF Orders
  <2>6. seen[w].row # NoRow => OtherGrants(target[w], seen[w].row)' = OtherGrants(target[w], seen[w].row)
    BY <1>0, <2>4, <2>5 DEF OtherGrants
  <2>7. pc[w] = "grant" /\ Renews(target[w])' => Renews(target[w])
    BY <1>0, <2>3 DEF Renews
  <2>8. OfScholarship(seen[w].row)' <=> OfScholarship(seen[w].row)
    BY <1>0 DEF OfScholarship
  <2> QED BY <1>0, <2>1, <2>3, <2>4, <2>6, <2>7, <2>8 DEF Fresh
<1> QED BY <1>0, <1>2, <1>3 DEF Alone, OneAtATime

\* A lone request that begins has just read what it is to write about.
LEMMA AloneBegins ==
  ASSUME IInv, Alone, NEW w \in Workers, NEW s \in Sources, ~overlapped',
         \/ BeginActivate(w, s) \/ BeginRefund(w, s) \/ BeginRevoke(w, s)
         \/ \E k \in GrantKinds, d \in Durations : BeginGrant(w, s, k, d)
  PROVE  Alone'
<1>0. /\ TypeOK /\ NothingEarly /\ LedgerExact /\ ScholarshipsSaved
      /\ \A step \in {"grant", "refund", "revoke"} : step \in PcValues
  BY DEF IInv, PcValues
<1>1. /\ UNCHANGED <<now, access, ledger, recorded>>
      /\ \A x \in Sources : ledger[x].row # NoRow =>
            /\ kind'[x] = kind[x] /\ days'[x] = days[x]
            /\ status'[x] = "approved" => status[x] = "approved"
  <2>1. \A x \in Sources : ledger[x].row # NoRow => kind[x] # "none"
    BY <1>0 DEF NothingEarly, NoGrant
  <2> QED BY <1>0, <2>1 DEF BeginActivate, BeginRefund, BeginRevoke, BeginGrant, sources, TypeOK
<1>2. (\A r \in Subscriptions : RowAdds(r)') /\ Kept' /\ Apart'
  BY <1>1, QuietKeeps DEF Alone
<1>3. ASSUME NEW step \in {"grant", "refund", "revoke"}, NEW r \in Rows \cup {NoRow},
             NEW others \in BOOLEAN, Read(w, s, step, r, others)
      PROVE  /\ \A v \in Workers \ {w} : pc'[v] = "idle"
             /\ pc'[w] = step /\ target'[w] = s /\ seen'[w].row = r
             /\ seen'[w].others = others /\ seen'[w].at = now
             /\ r # NoRow => seen'[w].end = access[r].end
  BY <1>0, <1>3, ReadType, LoneReader
<1>4. (\A v \in Workers \ {w} : pc'[v] = "idle") /\ Fresh(w)'
  <2>1. ASSUME NEW scholarship \in BOOLEAN, NEW r \in Subscriptions \cup {NoRow},
               r = NoRow \/ IsNewest(r, Extendable(scholarship)),
               Read(w, s, "grant", r, FALSE), scholarship <=> kind'[s] = "scholarship"
        PROVE  (\A v \in Workers \ {w} : pc'[v] = "idle") /\ Fresh(w)'
    <3> DEFINE step == "grant"
               others == FALSE
    <3>1. step \in {"grant", "refund", "revoke"} /\ others \in BOOLEAN /\ r \in Rows \cup {NoRow}
      BY DEF Rows
    <3>2. Read(w, s, step, r, others)
      BY <2>1
    <3> HIDE DEF step, others
    <3>3. /\ \A v \in Workers \ {w} : pc'[v] = "idle"
          /\ pc'[w] = "grant" /\ target'[w] = s /\ seen'[w].row = r /\ seen'[w].at = now
          /\ r # NoRow => seen'[w].end = access[r].end
      BY <1>3, <3>1, <3>2 DEF step
    <3>4. r # NoRow => /\ access[r].active /\ (access[r].end = NoEnd \/ access[r].end >= now)
                       /\ OfScholarship(r) <=> scholarship
      BY <2>1, NewestUsable DEF Usable, Lasts
    <3>5. OfScholarship(r)' <=> OfScholarship(r)
      BY <1>1 DEF OfScholarship
    <3> QED BY <1>1, <2>1, <3>3, <3>4, <3>5 DEF Fresh
  <2>2. CASE BeginActivate(w, s)
    <3>1. PICK r \in Subscriptions \cup {NoRow} :
            /\ IF Renews(s) THEN IsNewest(r, Extendable(FALSE)) ELSE r = NoRow
            /\ Read(w, s, "grant", r, FALSE)
      BY <2>2 DEF BeginActivate
    <3>2. kind'[s] # "scholarship"
      BY <2>2 DEF BeginActivate, Orders, OrderKinds, sources
    <3> QED BY <2>1, <3>1, <3>2
  <2>3. CASE BeginRefund(w, s)
    <3> DEFINE step == "refund"
               r == ToReverse(s)
               others == OtherGrants(s, ledger[s].row) # {}
    <3>1. step \in {"grant", "refund", "revoke"} /\ others \in BOOLEAN /\ r \in Rows \cup {NoRow}
      BY <1>0 DEF ToReverse, TypeOK
    <3>2. Read(w, s, step, r, others)
      BY <2>3 DEF BeginRefund
    <3>3. r # NoRow => r = ledger[s].row
      BY DEF ToReverse
    <3>4. Orders' = Orders
      BY <2>3 DEF BeginRefund, Orders, sources
    <3>5. OtherGrants(s, r)' = OtherGrants(s, ToReverse(s))
      BY <1>1, <3>4 DEF OtherGrants, ToReverse
    <3>6. r # NoRow => (others <=> OtherGrants(s, r)' # {})
      BY <3>3, <3>5
    <3> HIDE DEF step, others, r
    <3>7. /\ \A v \in Workers \ {w} : pc'[v] = "idle"
          /\ pc'[w] = "refund" /\ target'[w] = s /\ seen'[w].row = r /\ seen'[w].others = others
          /\ r # NoRow => seen'[w].end = access[r].end
      BY <1>3, <3>1, <3>2 DEF step
    <3>8. OtherGrants(target[w], seen[w].row)' = OtherGrants(s, r)'
      BY <1>1, <3>7 DEF r, OtherGrants, ToReverse
    <3> QED BY <1>1, <3>6, <3>7, <3>8 DEF Fresh
  <2>4. CASE BeginRevoke(w, s)
    <3> DEFINE step == "revoke"
               r == ledger[s].row
               others == FALSE
    <3>1. step \in {"grant", "refund", "revoke"} /\ others \in BOOLEAN /\ r \in Rows \cup {NoRow}
      BY <1>0 DEF TypeOK
    <3>2. Read(w, s, step, r, others) /\ s \in recorded
      BY <2>4 DEF BeginRevoke
    <3> HIDE DEF step, others
    <3>3. /\ \A v \in Workers \ {w} : pc'[v] = "idle"
          /\ pc'[w] = "revoke" /\ target'[w] = s /\ seen'[w].row = r
      BY <1>3, <3>1, <3>2 DEF step
    <3> QED BY <1>1, <3>2, <3>3 DEF Fresh
  <2>5. CASE \E k \in GrantKinds, d \in Durations : BeginGrant(w, s, k, d)
    <3>1. PICK k \in GrantKinds, d \in Durations : BeginGrant(w, s, k, d)
      BY <2>5
    <3>2. PICK r \in Subscriptions \cup {NoRow} :
            IsNewest(r, Extendable(k = "scholarship")) /\ Read(w, s, "grant", r, FALSE)
      BY <3>1 DEF BeginGrant
    <3> DEFINE scholarship == k = "scholarship"
    <3>3. kind'[s] = k
      BY <1>0, <3>1 DEF BeginGrant, TypeOK
    <3>4. /\ scholarship \in BOOLEAN /\ IsNewest(r, Extendable(scholarship))
          /\ scholarship <=> kind'[s] = "scholarship"
      BY <3>2, <3>3
    <3> HIDE DEF scholarship
    <3> QED BY <2>1, <3>2, <3>4
  <2> QED BY <2>2, <2>3, <2>4, <2>5
<1>5. OneAtATime' /\ \A v \in Workers : Fresh(v)'
  BY <1>4 DEF OneAtATime, Fresh
<1> QED BY <1>2, <1>5 DEF Alone

\* A grant that adds its days to a subscription's end keeps its account.
LEMMA NewShare ==
  ASSUME TypeOK, NEW r \in Subscriptions, RowAdds(r), NEW s \in Sources, ledger[s].row = NoRow,
         days' = days, \A x \in Sources \ {s} : ledger'[x] = ledger[x],
         ledger'[s].row = r, ledger'[s].revoked = FALSE,
         access'[r].start \in Nat,
         access'[r].start = access[r].start \/ \A x \in Sources : ledger[x].row # r,
         Finite(r) /\ days[s] > 0 =>
            /\ ledger'[s].granted # NoEnd
            /\ Contribution(ledger[s])' = days[s]
            /\ access'[r].end = access'[r].start + Cardinality(PaidDays(r)) + days[s]
  PROVE  RowAdds(r)'
<1>0. days[s] \in Nat /\ r # NoRow /\ IsFiniteSet(DaysOf(Paying(r), days))
  BY AccessAssumption DEF TypeOK, RowAdds, Rows, PaidDays
<1>1. Paying(r)' = Paying(r) \cup {s} /\ s \notin Paying(r)
  BY <1>0 DEF Paying
<1>2. /\ IsFiniteSet(PaidDays(r)')
      /\ Cardinality(PaidDays(r)) \in Nat
      /\ Cardinality(PaidDays(r)') = Cardinality(PaidDays(r)) + days[s]
  <2>1. PaidDays(r)' = DaysOf(Paying(r) \cup {s}, days)
    BY <1>1 DEF PaidDays
  <2>2. PaidDays(r) = DaysOf(Paying(r), days)
    BY DEF PaidDays
  <2> DEFINE S == Paying(r)
  <2>3. s \notin S /\ days[s] \in Nat /\ IsFiniteSet(DaysOf(S, days))
    BY <1>0, <1>1
  <2> HIDE DEF S
  <2>4. /\ IsFiniteSet(DaysOf(S \cup {s}, days))
        /\ Cardinality(DaysOf(S, days)) \in Nat
        /\ Cardinality(DaysOf(S \cup {s}, days)) = Cardinality(DaysOf(S, days)) + days[s]
    BY <2>3, AddDays
  <2> QED BY <2>1, <2>2, <2>4 DEF S
<1>3. Finite(r)' => Finite(r) /\ days[s] > 0
  BY <1>0 DEF Finite
<1>4. access'[r].active /\ Finite(r)' =>
        access'[r].end = access'[r].start + Cardinality(PaidDays(r)')
  <2> SUFFICES ASSUME Finite(r)'
               PROVE  access'[r].end = access'[r].start + Cardinality(PaidDays(r)')
    OBVIOUS
  <2>1. access'[r].end = access'[r].start + Cardinality(PaidDays(r)) + days[s]
    BY <1>3
  <2>2. access'[r].start + Cardinality(PaidDays(r)) + days[s]
          = access'[r].start + (Cardinality(PaidDays(r)) + days[s])
    BY <1>0, <1>2
  <2> QED BY <1>2, <2>1, <2>2
<1>5. ASSUME Finite(r)', NEW x \in Sources, ledger'[x].row = r
      PROVE  ledger'[x].granted # NoEnd /\ Contribution(ledger[x])' = days'[x]
  <2>1. CASE x = s
    BY <1>3, <1>5, <2>1
  <2>2. CASE x # s
    <3>1. /\ ledger'[x] = ledger[x] /\ ledger[x].row = r
          /\ ledger[x].granted # NoEnd /\ Contribution(ledger[x]) = days[x]
      BY <1>3, <1>5, <2>2 DEF RowAdds
    <3>2. access'[r].start = access[r].start
      BY <3>1
    <3>3. Contribution(ledger[x])' = Contribution(ledger[x])
      BY <3>1, <3>2 DEF Contribution
    <3> QED BY <3>1, <3>3
  <2> QED BY <2>1, <2>2
<1> QED BY <1>2, <1>4, <1>5 DEF RowAdds

\* A lone grant on a row of its own origin whose account it keeps.
LEMMA AloneGrant ==
  ASSUME IInv, Alone, NEW w \in Workers, pc[w] = "grant",
         NEW r \in Rows, NEW row, NEW created, NEW previous,
         Grant(w, target[w], r, row, created, previous), row.active = TRUE,
         r \in Subscriptions => RowAdds(r)',
         target[w] \in Orders => ~OfScholarship(r),
         kind[target[w]] = "scholarship" => \A x \in Orders : ledger[x].row # r
  PROVE  Alone'
<1> DEFINE s == target[w]
           g == [row |-> r, created |-> created, previous |-> previous,
                 granted |-> row.end, revoked |-> FALSE]
<1>0. /\ TypeOK /\ s \in Sources /\ ledger[s] = NoGrant /\ ledger[s].row = NoRow
      /\ status[s] \notin {"approved", "refunded"} /\ NoRow \notin Rows
  <2>1. /\ TypeOK /\ HoldsOrder(w)
    BY DEF IInv
  <2>2. ledger[s] = NoGrant /\ NoGrant.row = NoRow
    BY <2>1 DEF HoldsOrder, NoGrant
  <2> QED BY <2>1, <2>2, AccessAssumption DEF TypeOK, HoldsOrder
<1>1. /\ access' = [access EXCEPT ![r] = row] /\ ledger' = [ledger EXCEPT ![s] = g]
      /\ status' = [status EXCEPT ![s] = "approved"]
      /\ UNCHANGED <<kind, days, recorded>>
  BY DEF Grant, sources
<1>2. g.row = r /\ g.revoked = FALSE
  OBVIOUS
<1> HIDE DEF g
<1>3. /\ ledger'[s].row = r /\ \A x \in Sources \ {s} : ledger'[x] = ledger[x] /\ status'[x] = status[x]
      /\ access'[r] = row /\ \A q \in Rows \ {r} : access'[q] = access[q]
  BY <1>0, <1>1, <1>2 DEF TypeOK
<1>4. \A q \in Subscriptions : RowAdds(q)'
  <2> SUFFICES ASSUME NEW q \in Subscriptions, q # r PROVE RowAdds(q)'
    OBVIOUS
  <2>1. q \in Rows
    BY DEF Rows
  <2>2. \A x \in Sources : ledger[x].row = q \/ ledger'[x].row = q => x # s
    BY <1>0, <1>3, <2>1
  <2> QED BY <1>1, <1>3, <2>1, <2>2, OtherRowAdds DEF Alone
<1>5. Orders' = Orders
  BY <1>1 DEF Orders
<1>6. Kept'
  <2> SUFFICES ASSUME NEW x \in Orders, status'[x] = "approved", ledger'[x].row \in Rows \ {TestRow}
               PROVE  access'[ledger'[x].row].active
    BY <1>5 DEF Kept
  <2>1. CASE ledger'[x].row = r
    BY <1>3, <2>1
  <2>2. CASE ledger'[x].row # r
    BY <1>3, <2>2 DEF Kept, Alone, Orders
  <2> QED BY <2>1, <2>2
<1>7. s \notin recorded
  BY <1>0 DEF IInv, ScholarshipsSaved, ScholarshipSaved
<1>8. Apart'
  <2> SUFFICES ASSUME NEW x \in Orders, NEW y \in recorded, ledger'[x].row # NoRow
               PROVE  ledger'[x].row # ledger'[y].row
    BY <1>1, <1>5 DEF Apart
  <2>1. ledger'[y] = ledger[y]
    BY <1>0, <1>3, <1>7 DEF TypeOK
  <2>2. CASE x = s
    BY <1>3, <2>1, <2>2 DEF OfScholarship
  <2>3. CASE x # s
    BY <1>3, <2>1, <2>3 DEF Alone, Apart, Orders
  <2> QED BY <2>2, <2>3
<1>9. OneAtATime' /\ \A v \in Workers : Fresh(v)'
  <2>1. CASE kind[s] # "scholarship"
    BY <1>0, <2>1, LoneEnd DEF Grant, Alone
  <2>2. CASE kind[s] = "scholarship"
    <3>1. pc' = [pc EXCEPT ![w] = "record"] /\ UNCHANGED <<target, seen>>
      BY <2>2 DEF Grant
    <3>2. pc'[w] = "record" /\ target'[w] = s /\ \A v \in Workers \ {w} : pc'[v] = "idle"
      BY <1>0, <3>1 DEF TypeOK, Alone, OneAtATime
    <3>3. s \notin Orders
      BY <2>2 DEF Orders, OrderKinds
    <3>4. \A x \in Orders' : ledger'[x].row # r
      BY <1>3, <1>5, <2>2, <3>3 DEF Orders
    <3>5. Fresh(w)'
      BY <1>0, <1>3, <3>2, <3>4 DEF Fresh
    <3> QED BY <3>2, <3>5 DEF OneAtATime, Fresh
  <2> QED BY <2>1, <2>2
<1> QED BY <1>4, <1>6, <1>8, <1>9 DEF Alone

\* What a grant does to the account of the subscription it is on.
LEMMA GrantedShare ==
  ASSUME IInv, TypeOK', NEW w \in Workers, pc[w] = "grant",
         NEW s \in Sources, s = target[w], NEW r \in Subscriptions, RowAdds(r),
         NEW row, NEW created, NEW previous,
         Grant(w, s, r, row, created, previous),
         row.start = access[r].start \/ \A x \in Sources : ledger[x].row # r,
         Finite(r) /\ days[s] > 0 =>
            /\ row.end # NoEnd
            /\ row.end - (IF previous = NoEnd THEN row.start ELSE previous) = days[s]
            /\ row.end = row.start + Cardinality(PaidDays(r)) + days[s]
  PROVE  RowAdds(r)'
<1> DEFINE g == [row |-> r, created |-> created, previous |-> previous,
                 granted |-> row.end, revoked |-> FALSE]
<1>0. TypeOK /\ r \in Rows
  BY DEF IInv, TypeOK, Rows
<1>1. ledger[s].row = NoRow
  <2>1. HoldsOrder(w)
    BY DEF IInv
  <2> QED BY <2>1 DEF HoldsOrder, NoGrant
<1>2. /\ g.row = r /\ g.revoked = FALSE /\ g.granted = row.end /\ g.previous = previous
  OBVIOUS
<1>3. ledger' = [ledger EXCEPT ![s] = g] /\ access' = [access EXCEPT ![r] = row] /\ days' = days
  BY DEF Grant, sources
<1> HIDE DEF g
<1>4. /\ ledger'[s] = g /\ access'[r] = row
      /\ \A x \in Sources \ {s} : ledger'[x] = ledger[x]
  BY <1>0, <1>3 DEF TypeOK
<1>5. Contribution(ledger[s])' = row.end - (IF previous = NoEnd THEN row.start ELSE previous)
  BY <1>2, <1>4 DEF Contribution
<1>6. access'[r].start \in Nat
  BY <1>0 DEF TypeOK
<1>7. ledger'[s].row = r /\ ledger'[s].revoked = FALSE /\ ledger'[s].granted = row.end
  BY <1>2, <1>4
<1>8. access'[r].start = row.start /\ access'[r].end = row.end
  BY <1>4
<1>9. access'[r].start = access[r].start \/ \A x \in Sources : ledger[x].row # r
  BY <1>8
<1>10. Finite(r) /\ days[s] > 0 =>
         /\ ledger'[s].granted # NoEnd
         /\ Contribution(ledger[s])' = days[s]
         /\ access'[r].end = access'[r].start + Cardinality(PaidDays(r)) + days[s]
  BY <1>5, <1>7, <1>8
<1> QED BY <1>0, <1>1, <1>3, <1>4, <1>6, <1>7, <1>9, <1>10, NewShare

\* A new subscription has no grants on it yet.
LEMMA AloneCreates ==
  ASSUME IInv, RowsKnown, Alone, TypeOK', NEW w \in Workers, CreateSubscription(w)
  PROVE  Alone'
<1> DEFINE s == target[w]
           end == EndAfter(seen[w].at, s)
           row == [exists |-> TRUE, active |-> TRUE, start |-> seen[w].at, end |-> end]
<1>0. TypeOK /\ s \in Sources /\ pc[w] = "grant" /\ seen[w].at \in Nat /\ days[s] \in Nat
  BY DEF IInv, TypeOK, CreateSubscription
<1>1. PICK r \in Subscriptions : ~access[r].exists /\ Grant(w, s, r, row, TRUE, NoEnd)
  BY DEF CreateSubscription
<1>2. row.active = TRUE /\ row.start = seen[w].at /\ row.end = end
  OBVIOUS
<1>3. r \in Rows /\ \A x \in Sources : ledger[x].row # r
  <2>1. r \in Rows /\ r # NoRow
    BY AccessAssumption DEF Rows
  <2> QED BY <1>1, <2>1 DEF RowsKnown
<1>4. Cardinality(PaidDays(r)) = 0
  <2>1. PaidDays(r) = {}
    BY <1>3 DEF PaidDays, DaysOf, Paying
  <2> QED BY <2>1, FS_EmptySet
<1>5. days[s] > 0 => end = seen[w].at + days[s]
  BY <1>0 DEF EndAfter
<1> HIDE DEF row, end
<1>6. RowAdds(r)'
  <2>1. RowAdds(r)
    BY DEF Alone
  <2>2. Finite(r) /\ days[s] > 0 =>
          /\ row.end # NoEnd
          /\ row.end - (IF NoEnd = NoEnd THEN row.start ELSE NoEnd) = days[s]
          /\ row.end = row.start + Cardinality(PaidDays(r)) + days[s]
    BY <1>0, <1>2, <1>4, <1>5, AccessAssumption
  <2> QED BY <1>0, <1>1, <1>3, <2>1, <2>2, GrantedShare
<1>7. ~OfScholarship(r)
  BY <1>0, <1>3 DEF OfScholarship, TypeOK
<1>8. \A x \in Orders : ledger[x].row # r
  BY <1>3 DEF Orders
<1> QED BY <1>0, <1>1, <1>2, <1>3, <1>6, <1>7, <1>8, AloneGrant

\* A renewal extends the subscription from the end it read, which still holds.
LEMMA AloneExtends ==
  ASSUME IInv, RowsKnown, Alone, TypeOK', NEW w \in Workers, ExtendSubscription(w)
  PROVE  Alone'
<1>a. PICK s, r : s = target[w] /\ r = seen[w].row
  OBVIOUS
<1> DEFINE from == IF seen[w].end # NoEnd /\ seen[w].end > seen[w].at THEN seen[w].end
                                                                     ELSE seen[w].at
           end == EndAfter(from, s)
           old == access[r]
           row == [old EXCEPT !.active = TRUE, !.end = end]
<1>0. /\ TypeOK /\ s \in Sources /\ pc[w] = "grant" /\ Renews(s) /\ r # NoRow
      /\ seen[w].at \in Nat /\ seen[w].end \in Ends /\ days[s] \in Nat
      /\ Grant(w, s, r, row, FALSE, seen[w].end)
  BY <1>a DEF IInv, TypeOK, ExtendSubscription
<1>1. r \in Subscriptions /\ r \in Rows
  BY <1>0, <1>a DEF RowsKnown, Rows
<1>2. /\ access[r].active /\ seen[w].end = access[r].end
      /\ seen[w].end = NoEnd \/ seen[w].end >= seen[w].at
      /\ OfScholarship(r) <=> kind[s] = "scholarship"
  BY <1>0, <1>a DEF Alone, Fresh
<1>3. RowAdds(r)
  BY <1>1 DEF Alone
<1>4. /\ access[r] \in [exists: BOOLEAN, active: BOOLEAN, start: Nat, end: Ends]
      /\ Cardinality(PaidDays(r)) \in Nat
  BY <1>0, <1>1, <1>3, FS_CardinalityType DEF TypeOK, RowAdds
<1>5. row.active = TRUE /\ row.start = access[r].start /\ row.end = end
  BY <1>4
<1>6. Finite(r) /\ days[s] > 0 =>
        /\ seen[w].end # NoEnd
        /\ end # NoEnd /\ end - seen[w].end = days[s]
        /\ end = access[r].start + Cardinality(PaidDays(r)) + days[s]
  <2> SUFFICES ASSUME Finite(r), days[s] > 0
               PROVE  /\ seen[w].end # NoEnd
                      /\ end # NoEnd /\ end - seen[w].end = days[s]
                      /\ end = access[r].start + Cardinality(PaidDays(r)) + days[s]
    OBVIOUS
  <2>1. seen[w].end = access[r].start + Cardinality(PaidDays(r))
    BY <1>2, <1>3 DEF RowAdds
  <2>2. seen[w].end \in Nat /\ seen[w].end # NoEnd
    BY <1>4, <2>1, AccessAssumption
  <2>3. from = seen[w].end
    BY <1>0, <1>2, <2>2
  <2> HIDE DEF from
  <2>4. end = seen[w].end + days[s]
    BY <1>0, <2>2, <2>3 DEF EndAfter
  <2> HIDE DEF end
  <2> QED BY <1>0, <1>4, <2>1, <2>2, <2>4, AccessAssumption
<1> HIDE DEF row, end, from
<1>7. RowAdds(r)'
  <2>1. Finite(r) /\ days[s] > 0 =>
          /\ row.end # NoEnd
          /\ row.end - (IF seen[w].end = NoEnd THEN row.start ELSE seen[w].end) = days[s]
          /\ row.end = row.start + Cardinality(PaidDays(r)) + days[s]
    BY <1>5, <1>6
  <2> QED BY <1>0, <1>1, <1>3, <1>5, <1>a, <2>1, GrantedShare
<1>8. s \in Orders => ~OfScholarship(r)
  BY <1>2 DEF Orders, OrderKinds
<1>9. kind[s] = "scholarship" => \A x \in Orders : ledger[x].row # r
  BY <1>0, <1>2 DEF OfScholarship, Alone, Apart
<1> QED BY <1>0, <1>1, <1>5, <1>7, <1>8, <1>9, <1>a, AloneGrant

\* A row of another kind is no scholarship's.
LEMMA AloneGrantsOther ==
  ASSUME IInv, RowsKnown, Alone, NEW w \in Workers, pc[w] = "grant",
         NEW r \in {TestRow, CourseRow}, NEW row, NEW created, NEW previous,
         Grant(w, target[w], r, row, created, previous), row.active = TRUE,
         kind[target[w]] # "scholarship"
  PROVE  Alone'
<1>1. r \in Rows /\ r \notin Subscriptions /\ r # NoRow
  BY AccessAssumption DEF Rows
<1>2. ~OfScholarship(r)
  BY <1>1 DEF OfScholarship, IInv, TypeOK, ScholarshipsSaved, ScholarshipSaved, RowsKnown
<1> QED BY <1>1, <1>2, AloneGrant

LEMMA AloneGrants ==
  ASSUME IInv, RowsKnown, Alone, TypeOK', NEW w \in Workers,
         CreateSubscription(w) \/ ExtendSubscription(w) \/ GrantTest(w) \/ GrantCourse(w)
  PROVE  Alone'
<1> DEFINE s == target[w]
<1>0. TypeOK /\ s \in Sources /\ pc[w] = "grant"
  BY DEF IInv, TypeOK, CreateSubscription, ExtendSubscription, GrantTest, GrantCourse
<1>1. CASE GrantTest(w)
  <2> DEFINE old == access[TestRow]
             row == [exists |-> TRUE, active |-> TRUE, start |-> now, end |-> NoEnd]
  <2>1. kind[s] # "scholarship"
    BY <1>1 DEF GrantTest
  <2>2. CASE kind[s] = "package" /\ old.exists /\ old.active
    <3>1. /\ Finish(w) /\ UNCHANGED <<kind, days, access, ledger, recorded>>
          /\ status' = [status EXCEPT ![s] = "approved"]
      BY <1>1, <2>2 DEF GrantTest, sources
    <3>2. ledger[s].row = NoRow
      BY <1>0 DEF IInv, HoldsOrder, NoGrant
    <3>3. \A x \in Sources : ledger[x].row # NoRow => status'[x] = status[x]
      BY <1>0, <3>1, <3>2 DEF TypeOK
    <3>4. (\A r \in Subscriptions : RowAdds(r)') /\ Kept' /\ Apart'
      BY <3>1, <3>3, QuietKeeps DEF Alone
    <3>5. OneAtATime' /\ \A v \in Workers : Fresh(v)'
      BY <1>0, <3>1, LoneEnd DEF Alone
    <3> QED BY <3>4, <3>5 DEF Alone
  <2>3. CASE ~(kind[s] = "package" /\ old.exists /\ old.active)
    <3>1. Grant(w, s, TestRow, row, ~old.exists, NoEnd) /\ row.active = TRUE
      BY <1>1, <2>3 DEF GrantTest
    <3> HIDE DEF row
    <3> QED BY <1>0, <2>1, <3>1, AloneGrantsOther
  <2> QED BY <2>2, <2>3
<1>2. CASE GrantCourse(w)
  <2> DEFINE old == access[CourseRow]
             row == [exists |-> TRUE, active |-> TRUE, end |-> EndAfter(now, s),
                     start |-> IF old.exists THEN old.start ELSE now]
  <2>1. kind[s] # "scholarship" /\ row.active = TRUE
    BY <1>2 DEF GrantCourse
  <2>2. Grant(w, s, CourseRow, row, ~old.exists, old.end)
    BY <1>2 DEF GrantCourse
  <2> HIDE DEF row
  <2> QED BY <1>0, <2>1, <2>2, AloneGrantsOther
<1> QED BY <1>1, <1>2, AloneCreates, AloneExtends

\* A lone refund takes the days of its order out of the account of the row, and
\* leaves the row on while another order is paid for on it.
LEMMA AloneRefunds ==
  ASSUME IInv, RowsKnown, Alone, NEW w \in Workers, CommitRefund(w)
  PROVE  Alone'
<1>a. PICK s, r : s = target[w] /\ r = seen[w].row
  OBVIOUS
<1>0. /\ TypeOK /\ LedgerExact /\ pc[w] = "refund" /\ Finish(w)
      /\ s \in Orders /\ s \in Sources /\ status[s] = "approved" /\ r = ledger[s].row
      /\ r \in Rows \cup {NoRow} /\ NoRow \notin Rows
      /\ status' = [status EXCEPT ![s] = "refunded"]
      /\ UNCHANGED <<kind, days, recorded>>
  <2>1. TypeOK /\ LedgerExact /\ HoldsOrder(w) /\ pc[w] = "refund"
    BY DEF IInv, CommitRefund
  <2> QED BY <1>a, <2>1, AccessAssumption DEF CommitRefund, HoldsOrder, sources, TypeOK, Orders
<1>1. OneAtATime' /\ \A v \in Workers : Fresh(v)'
  BY <1>0, LoneEnd DEF Alone
<1>2. Orders' = Orders
  BY <1>0 DEF Orders
<1>3. CASE r = NoRow
  <2>1. UNCHANGED <<access, ledger>>
    BY <1>a, <1>3 DEF CommitRefund
  <2>2. \A x \in Sources : status'[x] = "approved" => status[x] = "approved"
    BY <1>0 DEF TypeOK
  <2>3. (\A q \in Subscriptions : RowAdds(q)') /\ Kept' /\ Apart'
    BY <1>0, <2>1, <2>2, QuietKeeps DEF Alone
  <2> QED BY <1>1, <2>3 DEF Alone
<1>4. CASE r # NoRow
  <2> DEFINE g == [ledger[s] EXCEPT !.revoked = TRUE]
             new == Reversed(w, s)
             old == access[r]
  <2>1. /\ access' = [access EXCEPT ![r] = new] /\ ledger' = [ledger EXCEPT ![s] = g]
        /\ r \in Rows /\ ~ledger[s].revoked
    BY <1>0, <1>4, <1>a DEF CommitRefund, LedgerExact
  <2>2. /\ g.row = r /\ g.revoked = TRUE /\ g.granted = ledger[s].granted
        /\ g.previous = ledger[s].previous
    BY <1>0 DEF TypeOK
  <2>3. /\ old \in [exists: BOOLEAN, active: BOOLEAN, start: Nat, end: Ends]
        /\ seen[w].end = access[r].end /\ (seen[w].others <=> OtherGrants(s, r) # {})
    BY <1>0, <1>4, <1>a, <2>1 DEF TypeOK, Alone, Fresh
  <2>4. /\ new.start = old.start
        /\ new.active => /\ old.active /\ r # TestRow /\ ~(ledger[s].created /\ ~seen[w].others)
                         /\ new.end = IF old.end = NoEnd \/ ledger[s].granted = NoEnd THEN old.end
                                      ELSE old.end - Contribution(ledger[s])
        /\ r # TestRow /\ seen[w].others => new.active = old.active
    BY <2>3, <1>a DEF Reversed
  <2> HIDE DEF g, new
  <2>5. /\ ledger'[s] = g /\ \A x \in Sources \ {s} : ledger'[x] = ledger[x]
        /\ access'[r] = new /\ \A q \in Rows \ {r} : access'[q] = access[q]
        /\ status'[s] = "refunded" /\ \A x \in Sources \ {s} : status'[x] = status[x]
    BY <1>0, <2>1 DEF TypeOK
  <2>6. \A x \in Sources : /\ ledger'[x].row = ledger[x].row /\ ledger'[x].granted = ledger[x].granted
                           /\ ledger'[x].previous = ledger[x].previous
    BY <1>0, <2>2, <2>5
  <2>7. Apart'
    BY <1>0, <1>2, <2>6 DEF Alone, Apart, Orders, TypeOK
  <2>8. Kept'
    <3> SUFFICES ASSUME NEW x \in Orders, status'[x] = "approved", ledger'[x].row \in Rows \ {TestRow}
                 PROVE  access'[ledger'[x].row].active
      BY <1>2 DEF Kept
    <3>1. /\ x # s /\ x \in Sources /\ status[x] = "approved" /\ ledger'[x].row = ledger[x].row
          /\ access[ledger[x].row].active
      BY <2>5, <2>6 DEF Orders, Alone, Kept
    <3>2. CASE ledger[x].row # r
      BY <2>5, <3>1, <3>2
    <3>3. CASE ledger[x].row = r
      <4>1. ~ledger[x].revoked
        BY <1>0, <1>4, <3>1, <3>3 DEF LedgerExact
      <4>2. x \in OtherGrants(s, r)
        BY <3>1, <3>3, <4>1 DEF OtherGrants
      <4>3. new.active = old.active
        BY <2>3, <2>4, <3>1, <3>3, <4>2
      <4> QED BY <2>5, <3>1, <3>3, <4>3
    <3> QED BY <3>2, <3>3
  <2>9. ASSUME NEW q \in Subscriptions PROVE RowAdds(q)'
    <3>0. q \in Rows /\ RowAdds(q)
      BY DEF Rows, Alone
    <3>1. CASE q # r
      <4>1. \A x \in Sources : ledger[x].row = q \/ ledger'[x].row = q => x # s
        BY <1>0, <2>6, <3>1
      <4> QED BY <1>0, <2>5, <3>0, <3>1, <4>1, OtherRowAdds
    <3>2. CASE q = r
      <4>1. s \in Paying(r) /\ days[s] \in Nat /\ PaidDays(r) = DaysOf(Paying(r), days)
        BY <1>0, <2>1 DEF Paying, TypeOK, PaidDays
      <4>2. Paying(r)' = Paying(r) \ {s}
        BY <1>0, <2>2, <2>5 DEF Paying
      <4>3. PaidDays(r)' = DaysOf(Paying(r) \ {s}, days)
        BY <1>0, <4>2 DEF PaidDays
      <4> DEFINE S == Paying(r)
      <4>4. s \in S /\ days[s] \in Nat /\ IsFiniteSet(DaysOf(S, days))
        BY <3>0, <3>2, <4>1 DEF RowAdds
      <4> HIDE DEF S
      <4>5. /\ IsFiniteSet(DaysOf(S \ {s}, days))
            /\ Cardinality(DaysOf(S \ {s}, days)) \in Nat
            /\ Cardinality(DaysOf(S, days)) = Cardinality(DaysOf(S \ {s}, days)) + days[s]
        BY <4>4, RemoveDays
      <4>6. /\ IsFiniteSet(PaidDays(r)') /\ Cardinality(PaidDays(r)') \in Nat
            /\ Cardinality(PaidDays(r)) = Cardinality(PaidDays(r)') + days[s]
        BY <4>1, <4>3, <4>5 DEF S
      <4>7. Finite(r)' => Finite(r)
        BY <1>0, <2>6 DEF Finite
      <4>8. ASSUME Finite(r), NEW x \in Sources, ledger'[x].row = r
            PROVE  ledger'[x].granted # NoEnd /\ Contribution(ledger[x])' = days'[x]
        <5>1. ledger[x].row = r /\ ledger[x].granted # NoEnd /\ Contribution(ledger[x]) = days[x]
          BY <2>6, <3>0, <3>2, <4>8 DEF RowAdds
        <5>2. Contribution(ledger[x])' = Contribution(ledger[x])
          BY <2>4, <2>5, <2>6, <5>1 DEF Contribution
        <5> QED BY <1>0, <2>6, <5>1, <5>2
      <4>9. ASSUME access'[r].active, Finite(r)
            PROVE  access'[r].end = access'[r].start + Cardinality(PaidDays(r)')
        <5>1. /\ old.active /\ new.start = old.start
              /\ new.end = IF old.end = NoEnd \/ ledger[s].granted = NoEnd THEN old.end
                           ELSE old.end - Contribution(ledger[s])
          BY <2>4, <2>5, <4>9
        <5>2. /\ old.end = old.start + Cardinality(PaidDays(r))
              /\ ledger[s].granted # NoEnd /\ Contribution(ledger[s]) = days[s]
          BY <1>0, <3>0, <3>2, <4>9, <5>1 DEF RowAdds
        <5>3. old.start \in Nat /\ old.end \in Nat /\ old.end # NoEnd
          BY <2>3, <4>1, <4>6, <5>2, AccessAssumption
        <5>4. new.end = old.end - days[s]
          BY <5>1, <5>2, <5>3
        <5>5. new.end = new.start + Cardinality(PaidDays(r)')
          BY <4>1, <4>6, <5>1, <5>2, <5>3, <5>4
        <5> QED BY <2>5, <5>5
      <4>10. RowAdds(r)'
        BY <4>6, <4>7, <4>8, <4>9 DEF RowAdds
      <4> QED BY <3>2, <4>10
    <3> QED BY <3>1, <3>2
  <2> QED BY <1>1, <2>7, <2>8, <2>9 DEF Alone
<1> QED BY <1>3, <1>4

\* A lone revocation switches off a row that no order is on.
LEMMA AloneRevokes ==
  ASSUME IInv, RowsKnown, Alone, NEW w \in Workers, FinishRevoke(w)
  PROVE  Alone'
<1>a. PICK r, y : r = seen[w].row /\ y = target[w]
  OBVIOUS
<1> DEFINE off == [access[r] EXCEPT !.active = FALSE]
<1>0. /\ TypeOK /\ pc[w] = "revoke" /\ Finish(w) /\ NoRow \notin Rows
      /\ access' = [access EXCEPT ![r] = off]
      /\ UNCHANGED <<kind, days, status, ledger, recorded>>
      /\ y \in recorded /\ ledger[y].row = r
  BY <1>a, AccessAssumption DEF IInv, FinishRevoke, sources, Alone, Fresh
<1>1. OneAtATime' /\ \A v \in Workers : Fresh(v)'
  BY <1>0, LoneEnd DEF Alone
<1>2. r \in Rows => off.active = FALSE /\ off.start = access[r].start /\ off.end = access[r].end
  BY <1>0 DEF TypeOK
<1> HIDE DEF off
<1>3. \A q \in Rows : IF q = r THEN access'[q] = off ELSE access'[q] = access[q]
  BY <1>0 DEF TypeOK
<1>4. ASSUME NEW q \in Subscriptions PROVE RowAdds(q)'
  <2>1. q \in Rows /\ RowAdds(q)
    BY DEF Rows, Alone
  <2>2. /\ access'[q].start = access[q].start /\ access'[q].end = access[q].end
        /\ access'[q].active => access[q].active
    BY <1>2, <1>3, <2>1
  <2> QED BY <1>0, <2>1, <2>2, OtherRowAdds
<1>5. Orders' = Orders
  BY <1>0 DEF Orders
<1>6. Kept'
  <2> SUFFICES ASSUME NEW x \in Orders, status[x] = "approved", ledger[x].row \in Rows \ {TestRow}
               PROVE  access'[ledger[x].row].active
    BY <1>0, <1>5 DEF Kept
  <2>1. ledger[x].row # r
    BY <1>0 DEF Alone, Apart
  <2> QED BY <1>3, <2>1 DEF Alone, Kept
<1>7. Apart'
  BY <1>0, <1>5 DEF Alone, Apart
<1> QED BY <1>1, <1>4, <1>6, <1>7 DEF Alone

\* The scholarship that is recorded is on a row no order is on.
LEMMA AloneRecords ==
  ASSUME IInv, Alone, NEW w \in Workers, RecordScholarship(w)
  PROVE  Alone'
<1>a. PICK s : s = target[w]
  OBVIOUS
<1>0. /\ TypeOK /\ pc[w] = "record" /\ Finish(w) /\ recorded' \subseteq recorded \cup {s}
      /\ UNCHANGED <<kind, days, status, access, ledger>>
      /\ \A x \in Orders : ledger[x].row # ledger[s].row
  BY <1>a DEF IInv, RecordScholarship, sources, Alone, Fresh
<1>1. OneAtATime' /\ \A v \in Workers : Fresh(v)'
  BY <1>0, LoneEnd DEF Alone
<1>2. Orders' = Orders
  BY <1>0 DEF Orders
<1>3. \A q \in Subscriptions : RowAdds(q)'
  BY <1>0, OtherRowAdds DEF Alone
<1>4. Kept'
  BY <1>0, <1>2 DEF Alone, Kept
<1>5. Apart'
  BY <1>0, <1>2 DEF Alone, Apart
<1> QED BY <1>1, <1>3, <1>4, <1>5 DEF Alone

LEMMA AloneCrashes ==
  ASSUME IInv, Alone, NEW w \in Workers, Crash(w)
  PROVE  Alone'
<1>1. OneAtATime' /\ \A v \in Workers : Fresh(v)'
  BY LoneEnd DEF Alone, Crash, IInv
<1>2. (\A q \in Subscriptions : RowAdds(q)') /\ Kept' /\ Apart'
  BY QuietKeeps DEF Alone, Crash, sources
<1> QED BY <1>1, <1>2 DEF Alone

\* Requests that overlapped did so for ever.
LEMMA OverlapStays == TypeOK /\ [Next]_vars /\ ~overlapped' => ~overlapped
<1> SUFFICES ASSUME [Next]_vars, overlapped PROVE overlapped'
  BY DEF TypeOK
<1>1. ASSUME NEW w \in Workers, NEW s, NEW step, NEW r, NEW others, Read(w, s, step, r, others)
      PROVE  overlapped'
  BY <1>1 DEF Read
<1>2. ASSUME NEW w \in Workers, NEW s \in Sources,
             BeginActivate(w, s) \/ BeginRefund(w, s) \/ BeginRevoke(w, s)
      PROVE  overlapped'
  BY <1>1, <1>2 DEF BeginActivate, BeginRefund, BeginRevoke
<1>3. ASSUME NEW w \in Workers, NEW s \in Sources, NEW k \in GrantKinds, NEW d \in Durations,
             BeginGrant(w, s, k, d)
      PROVE  overlapped'
  BY <1>1, <1>3 DEF BeginGrant
<1>4. ASSUME NEW w \in Workers,
             \/ CreateSubscription(w) \/ ExtendSubscription(w) \/ GrantTest(w) \/ GrantCourse(w)
             \/ RecordScholarship(w) \/ CommitRefund(w) \/ FinishRevoke(w) \/ Crash(w)
      PROVE  overlapped'
  BY <1>4 DEF CreateSubscription, ExtendSubscription, GrantTest, GrantCourse, Grant,
              RecordScholarship, CommitRefund, FinishRevoke, Crash, history
<1>5. CASE Tick \/ (\E s \in Sources, k \in OrderKinds, d \in Durations : Order(s, k, d))
            \/ UNCHANGED vars
  BY <1>5 DEF Tick, Order, vars, history
<1> QED BY <1>2, <1>3, <1>4, <1>5 DEF Next

LEMMA AloneInit == Init => AloneInv
<1> SUFFICES ASSUME Init PROVE AloneInv
  OBVIOUS
<1>1. IInv
  BY InitHolds
<1>2. NoGrant.row = NoRow /\ NoRow \notin Rows /\ NoAccess.active = FALSE
  BY AccessAssumption DEF NoGrant, NoAccess
<1>3. RowsKnown /\ OneAtATime /\ \A w \in Workers : Fresh(w)
  BY <1>2 DEF Init, RowsKnown, OneAtATime, Fresh
<1>4. ASSUME NEW r \in Subscriptions PROVE RowAdds(r)
  <2>1. r \in Rows /\ r # NoRow
    BY <1>2 DEF Rows
  <2>2. Paying(r) = {}
    BY <1>2, <2>1 DEF Paying, Init
  <2>3. PaidDays(r) = {}
    BY <2>2 DEF PaidDays, DaysOf
  <2> QED BY <1>2, <2>1, <2>3, FS_EmptySet DEF RowAdds, Init
<1>5. Kept /\ Apart
  BY <1>2 DEF Kept, Apart, Init, Orders
<1> QED BY <1>1, <1>3, <1>4, <1>5, AloneMeans DEF Alone

LEMMA AloneNext == AloneInv /\ [Next]_vars => AloneInv'
<1> SUFFICES ASSUME AloneInv, [Next]_vars PROVE AloneInv'
  OBVIOUS
<1>1. IInv /\ RowsKnown /\ (~overlapped => Alone)
  BY AloneMeans
<1>2. IInv' /\ RowsKnown' /\ TypeOK /\ TypeOK'
  BY <1>1, NextHolds, KnownNext DEF IInv
<1>3. ASSUME ~overlapped' PROVE Alone'
  <2>1. Alone
    BY <1>1, <1>2, <1>3, OverlapStays
  <2>2. CASE Tick \/ UNCHANGED vars
    <3>1. /\ UNCHANGED <<kind, days, status, access, ledger, recorded, pc, target, seen>>
          /\ Orders' = Orders
      BY <2>2 DEF Tick, vars, sources, locals, Orders
    <3>2. (\A q \in Subscriptions : RowAdds(q)') /\ Kept' /\ Apart'
      BY <1>1, <2>1, <3>1, QuietKeeps DEF Alone
    <3>3. OneAtATime' /\ \A v \in Workers : Fresh(v)'
      BY <2>1, <3>1 DEF Alone, OneAtATime, Fresh, Renews, OfScholarship, OtherGrants
    <3> QED BY <3>2, <3>3 DEF Alone
  <2>3. CASE \E s \in Sources, k \in OrderKinds, d \in Durations : Order(s, k, d)
    BY <1>1, <2>1, <2>3, AloneOrder
  <2>4. CASE \E w \in Workers, s \in Sources :
               \/ \E k \in GrantKinds, d \in Durations : BeginGrant(w, s, k, d)
               \/ BeginActivate(w, s) \/ BeginRefund(w, s) \/ BeginRevoke(w, s)
    BY <1>1, <1>3, <2>1, <2>4, AloneBegins
  <2>5. CASE \E w \in Workers :
               CreateSubscription(w) \/ ExtendSubscription(w) \/ GrantTest(w) \/ GrantCourse(w)
    BY <1>1, <1>2, <2>1, <2>5, AloneGrants
  <2>6. CASE \E w \in Workers :
               RecordScholarship(w) \/ CommitRefund(w) \/ FinishRevoke(w) \/ Crash(w)
    BY <1>1, <2>1, <2>6, AloneRecords, AloneRefunds, AloneRevokes, AloneCrashes
  <2> QED BY <2>2, <2>3, <2>4, <2>5, <2>6 DEF Next
<1>4. IInv' /\ RowsKnown' /\ (~overlapped' => Alone') => AloneInv'
  BY AloneMeans, PTL
<1> QED BY <1>2, <1>3, <1>4

\* While requests do not overlap, what a lone request has read still holds when
\* it writes, and every subscription's account is exact.
THEOREM AloneHolds == Spec => []AloneInv
BY AloneInit, AloneNext, PTL DEF Spec

\* As long as no two requests overlap, a finite subscription ends as many days
\* after its start as the sources still paid for on it are for, in whatever
\* order they were granted, extended and refunded (_activate_product and
\* _reverse_grant of payment_service.py).
THEOREM PaidTimeAddsHolds == Spec => []PaidTimeAdds
<1>1. AloneInv => PaidTimeAdds
  BY DEF AloneInv
<1> QED BY AloneHolds, <1>1, PTL

\* As long as no two requests overlap, a refund never switches off a
\* subscription or an enrolment on which another order is still paid for.
THEOREM SharedAccessKeptHolds == Spec => []SharedAccessKept
<1>1. AloneInv => SharedAccessKept
  BY DEF AloneInv
<1> QED BY AloneHolds, <1>1, PTL

\* As long as no two requests overlap, scholarships and orders never share a
\* row, so that revoking the one cannot take the other.
THEOREM OriginsApartHolds == Spec => []OriginsApart
<1>1. AloneInv => OriginsApart
  BY DEF AloneInv
<1> QED BY AloneHolds, <1>1, PTL
=============================================================================
