------------------------- MODULE OrderPaymentProof --------------------------
(***************************************************************************)
(* For any number of payment pages and failures: an order kept as paid     *)
(* holds the money of one page, a cancelled order stays cancelled and its  *)
(* stock is given back once, closing an order keeps no money, and nothing  *)
(* but a cancel refunds what pays an order.                                *)
(***************************************************************************)
EXTENDS OrderPayment, TLAPS

-----------------------------------------------------------------------------
(* Inductive invariants *)

\* Stock, status and payment of the order belong together.
StatusInv ==
    /\ Kept => givenBack = 0 /\ order.payment # "refunded"
    /\ order.status = "cancelled" => givenBack = 1 /\ order.payment # "paid"
    /\ order.status \in {"accepted", "shipped", "concluded"} => order.payment = "paid"

\* An attempt's row, its page and its order.
RowInv(a) ==
    /\ row[a] = "none" <=> page[a] = "none"
    /\ row[a] = "paid" =>
          /\ page[a] = "paid" /\ a \notin wrong /\ (torn \/ a \notin refunded)
          /\ Kept /\ order.payment = "paid"
    /\ row[a] = "refunded" => page[a] = "paid" /\ a \in refunded
    /\ row[a] = "open" => order.status # "cancelled"
    /\ row[a] = "gone" => order.status = "gone"

\* One attempt pays the order, or has paid it until a torn cancel.
PaidInv ==
    /\ \A a, b \in Pages : row[a] = "paid" /\ row[b] = "paid" => a = b
    /\ Kept /\ order.payment = "paid" =>
          \E a \in Pages : row[a] = "paid" \/ (torn /\ row[a] = "refunded")

\* What is or will be refunded is money no order waits for.
RefundInv(a) ==
    /\ \A w \in Workers : a \in refunding[w] =>
          row[a] # "paid" /\ page[a] = "paid" /\ (a \in wrong \/ ~Waiting)
    /\ a \in refunded /\ ~torn => a \in wrong \/ ~Waiting

Inv ==
    /\ TypeOK /\ StatusInv /\ PaidInv
    /\ \A a \in Pages : RowInv(a)
    /\ \A a \in Pages : RefundInv(a)

-----------------------------------------------------------------------------
(* Steps that touch neither money nor stock *)

LEMMA InitInv == Init => Inv
<1> SUFFICES ASSUME Init PROVE Inv
  OBVIOUS
<1>1. TypeOK
  <2>1. scan \in [pc : {"idle", "read", "late", "postpone"}, todo : SUBSET Pages]
    BY DEF Init, Idle
  <2>2. faults \in 0 .. MaxFaults /\ givenBack \in 0 .. 1
    BY BoundsAreNaturals DEF Init
  <2>3. refunding \in [Workers -> SUBSET Pages]
    BY DEF Init
  <2> QED
    BY <2>1, <2>2, <2>3 DEF Init, TypeOK
<1>2. StatusInv /\ PaidInv
  BY DEF Init, StatusInv, PaidInv, Kept
<1>3. \A a \in Pages : RowInv(a) /\ RefundInv(a)
  BY DEF Init, RowInv, RefundInv
<1> QED
  BY <1>1, <1>2, <1>3 DEF Inv

LEMMA MoneyUntouched ==
    ASSUME Inv, TypeOK',
           UNCHANGED <<order, row, page, wrong, refunded, refunding, givenBack, torn>>
    PROVE  Inv'
BY DEF Inv, StatusInv, PaidInv, RowInv, RefundInv, Kept, Waiting

\* The fault budget.
LEMMA FaultTyped == ASSUME TypeOK, Fault PROVE faults' \in 0 .. MaxFaults
BY BoundsAreNaturals DEF TypeOK, Fault

LEMMA QuietSteps ==
    ASSUME Inv, Disconnect \/ ScanStart \/ ScanBlocked \/ ScanLateEnds
    PROVE  Inv'
<1>1. scan' \in [pc : {"idle", "read", "late", "postpone"}, todo : SUBSET Pages]
  BY DEF Inv, TypeOK, Disconnect, ScanStart, ScanBlocked, ScanLateEnds, Postponing, OpenRows
<1>2. TypeOK'
  BY <1>1, FaultTyped DEF Inv, TypeOK, Disconnect, ScanStart, ScanBlocked, ScanLateEnds
<1> QED
  BY <1>2, MoneyUntouched DEF Disconnect, ScanStart, ScanBlocked, ScanLateEnds

\* The deadline is no concern of the invariant.
LEMMA DeadlineSteps ==
    ASSUME Inv, DeadlinePasses \/ ScanPostpones
    PROVE  Inv'
<1>1. TypeOK'
  BY DEF Inv, TypeOK, DeadlinePasses, ScanPostpones, Idle
<1>2. /\ order'.status = order.status /\ order'.payment = order.payment
      /\ UNCHANGED <<row, page, wrong, refunded, refunding, givenBack, torn>>
  BY DEF Inv, TypeOK, DeadlinePasses, ScanPostpones
<1> QED
  BY <1>1, <1>2 DEF Inv, StatusInv, PaidInv, RowInv, RefundInv, Kept, Waiting

\* Pages nobody has paid yet come, go, are paid and settle.
LEMMA PageSteps ==
    ASSUME Inv, NEW a \in Pages,
           StartCheckout \/ CustomerPays(a) \/ CaptureSettles(a) \/ PageAges(a)
    PROVE  Inv'
<1>1. TypeOK'
  BY FaultTyped DEF Inv, TypeOK, StartCheckout, CustomerPays, CaptureSettles, PageAges
<1>2. UNCHANGED <<order, refunded, refunding, givenBack, torn>> /\ wrong \subseteq wrong'
  BY DEF StartCheckout, CustomerPays, CaptureSettles, PageAges
<1>3. \A b \in Pages :
         /\ page[b] = "paid" => row'[b] = row[b] /\ page'[b] = "paid" /\ (b \in wrong' => b \in wrong)
         /\ row'[b] = row[b] \/ (row[b] = "none" /\ row'[b] = "open" /\ order.status = "pending")
         /\ row'[b] = "none" <=> page'[b] = "none"
  BY DEF Inv, TypeOK, RowInv, StartCheckout, CustomerPays, CaptureSettles, PageAges, Waiting
<1>4. StatusInv' /\ PaidInv'
  BY <1>2, <1>3 DEF Inv, StatusInv, PaidInv, RowInv, Kept
<1>5. \A b \in Pages : RowInv(b)' /\ RefundInv(b)'
  BY <1>2, <1>3 DEF Inv, RowInv, RefundInv, Kept, Waiting
<1> QED
  BY <1>1, <1>4, <1>5 DEF Inv

\* Only a paid order is accepted.
LEMMA StoreSteps == ASSUME Inv, Accept \/ Ship \/ Conclude PROVE Inv'
<1>1. TypeOK'
  BY DEF Inv, TypeOK, Accept, Ship, Conclude
<1>2. /\ order.status # "cancelled" /\ Kept /\ Kept'
      /\ order'.payment = order.payment /\ order.payment = "paid"
      /\ order'.status \in {"accepted", "shipped", "concluded"}
      /\ UNCHANGED <<row, page, wrong, refunded, refunding, givenBack, torn>>
  BY DEF Inv, TypeOK, StatusInv, Accept, Ship, Conclude, Kept
<1> QED
  BY <1>1, <1>2 DEF Inv, StatusInv, PaidInv, RowInv, RefundInv, Kept, Waiting

-----------------------------------------------------------------------------
(* Reading a page back *)

\* What reading page a may do without a payment: a capture moves the page, a
\* closed page expires its attempt.
ReadsNothing(a) ==
    /\ UNCHANGED <<order, refunding>>
    /\ \E p : /\ page' = [page EXCEPT ![a] = p]
              /\ p = page[a] \/ (page[a] = "approved" /\ p \in {"paid", "processing"})
    /\ row' = row \/ (row[a] = "open" /\ row' = [row EXCEPT ![a] = "expired"])

ReadsPaid(a) == page' = [page EXCEPT ![a] = "paid"] /\ page[a] # "none"

\* A payment is recorded.
Records(a) == ReadsPaid(a) /\ Pays(a) /\ MarkPaid(a) /\ UNCHANGED refunding

\* Money nobody waits for will go back.
SendsBack(w, a) ==
    /\ ReadsPaid(a) /\ ~Pays(a) /\ ~Settled(a)
    /\ refunding' = [refunding EXCEPT ![w] = @ \union {a}]
    /\ UNCHANGED <<order, row>>

LEMMA SyncCases ==
    ASSUME Inv, NEW w \in Workers, NEW a \in Pages, NEW p \in {page[a]} \union Captures(a),
           Sync(w, a, p)
    PROVE  ReadsNothing(a) \/ Records(a) \/ SendsBack(w, a)
<1>1. p = page[a] \/ (page[a] = "approved" /\ p \in {"paid", "processing"})
  BY DEF Captures
<1>2. CASE Settled(a)
  BY <1>1, <1>2 DEF Sync, ReadsNothing
<1>3. CASE ~Settled(a) /\ Answer(a, p) # "paid"
  <2>1. Apply(w, a, p) /\ page' = [page EXCEPT ![a] = p]
    BY <1>3 DEF Sync
  <2>2. /\ UNCHANGED <<order, refunding>>
        /\ row' = row \/ (row[a] = "open" /\ row' = [row EXCEPT ![a] = "expired"])
    BY <1>3, <2>1 DEF Apply
  <2> QED
    BY <1>1, <2>1, <2>2 DEF ReadsNothing
<1>4. CASE ~Settled(a) /\ Answer(a, p) = "paid"
  <2>1. p = "paid"
    BY <1>4 DEF Answer
  <2>2. ReadsPaid(a)
    BY <1>1, <2>1 DEF Sync, ReadsPaid
  <2>3. CASE Pays(a)
    BY <1>4, <2>2, <2>3 DEF Sync, Apply, Records
  <2>4. CASE ~Pays(a)
    BY <1>4, <2>2, <2>4 DEF Sync, Apply, SendsBack
  <2> QED
    BY <2>3, <2>4
<1> QED
  BY <1>2, <1>3, <1>4

LEMMA ReadsNothingKeeps ==
    ASSUME Inv, NEW a \in Pages, ReadsNothing(a), TypeOK',
           UNCHANGED <<wrong, refunded, givenBack, torn>>
    PROVE  Inv'
<1>1. \A b \in Pages :
         /\ page[b] = "paid" => page'[b] = "paid"
         /\ row'[b] = row[b] \/ (row[b] = "open" /\ row'[b] = "expired")
         /\ page[b] = "none" <=> page'[b] = "none"
  BY DEF Inv, TypeOK, ReadsNothing
<1>2. UNCHANGED <<order, refunding>>
  BY DEF ReadsNothing
<1>3. StatusInv' /\ PaidInv'
  BY <1>1, <1>2 DEF Inv, StatusInv, PaidInv, Kept
<1>4. \A b \in Pages : RowInv(b)' /\ RefundInv(b)'
  BY <1>1, <1>2 DEF Inv, RowInv, RefundInv, Kept, Waiting
<1> QED
  BY <1>3, <1>4 DEF Inv

LEMMA RecordsKeeps ==
    ASSUME Inv, NEW a \in Pages, Records(a), TypeOK',
           UNCHANGED <<wrong, refunded, givenBack, torn>>
    PROVE  Inv'
<1>1. \A b \in Pages : row[b] # "paid" /\ (b # a => row'[b] = row[b] /\ page'[b] = page[b])
  BY DEF Inv, TypeOK, RowInv, Records, ReadsPaid, Pays, Waiting, MarkPaid
<1>2. row'[a] = "paid" /\ page'[a] = "paid" /\ page[a] # "none" /\ a \notin wrong
  BY DEF Inv, TypeOK, Records, ReadsPaid, MarkPaid, Pays
<1>3. /\ order.status = "pending" /\ order.payment = "unpaid" /\ order'.status = "pending"
      /\ order'.payment = "paid" /\ UNCHANGED refunding
  BY DEF Inv, TypeOK, Records, Pays, Waiting, MarkPaid
<1>4. StatusInv' /\ PaidInv'
  BY <1>1, <1>2, <1>3 DEF Inv, StatusInv, PaidInv, Kept
<1>5. \A b \in Pages : RowInv(b)'
  BY <1>1, <1>2, <1>3 DEF Inv, RowInv, RefundInv, Kept, Waiting
<1>6. \A b \in Pages : RefundInv(b)'
  BY <1>1, <1>2, <1>3 DEF Inv, RefundInv, Waiting
<1> QED
  BY <1>4, <1>5, <1>6 DEF Inv

LEMMA SendsBackKeeps ==
    ASSUME Inv, NEW w \in Workers, NEW a \in Pages, SendsBack(w, a), TypeOK',
           UNCHANGED <<wrong, refunded, givenBack, torn>>
    PROVE  Inv'
<1>1. /\ UNCHANGED <<order, row>> /\ page'[a] = "paid" /\ row[a] # "paid" /\ page[a] # "none"
      /\ a \in wrong \/ ~Waiting
      /\ \A b \in Pages : b # a => page'[b] = page[b]
  BY DEF Inv, TypeOK, SendsBack, ReadsPaid, Pays, Settled
<1>2. \A b \in Pages, v \in Workers : b \in refunding'[v] => b \in refunding[v] \/ b = a
  BY DEF Inv, TypeOK, SendsBack
<1>3. StatusInv' /\ PaidInv'
  BY <1>1 DEF Inv, StatusInv, PaidInv, Kept
<1>4. \A b \in Pages : RowInv(b)' /\ RefundInv(b)'
  BY <1>1, <1>2 DEF Inv, RowInv, RefundInv, Kept, Waiting
<1> QED
  BY <1>3, <1>4 DEF Inv

LEMMA ReadingTyped ==
    ASSUME TypeOK, NEW w \in Workers, NEW a \in Pages,
           ReadsNothing(a) \/ Records(a) \/ SendsBack(w, a)
    PROVE  /\ order' \in [status : {"pending", "accepted", "shipped", "concluded", "cancelled", "gone"},
                           payment : {"unpaid", "paid", "refunded"},
                           due : {"later", "past", "none"}]
           /\ row' \in [Pages -> {"none", "open", "paid", "expired", "refunded", "gone"}]
           /\ page' \in [Pages -> {"none", "open", "approved", "processing", "paid", "closed"}]
           /\ refunding' \in [Workers -> SUBSET Pages]
<1>1. CASE ReadsNothing(a)
  BY <1>1 DEF TypeOK, ReadsNothing
<1>2. CASE Records(a)
  BY <1>2 DEF TypeOK, Records, ReadsPaid, MarkPaid
<1>3. CASE SendsBack(w, a)
  BY <1>3 DEF TypeOK, SendsBack, ReadsPaid
<1> QED
  BY <1>1, <1>2, <1>3

LEMMA ReadingKeeps ==
    ASSUME Inv, NEW w \in Workers, NEW a \in Pages,
           ReadsNothing(a) \/ Records(a) \/ SendsBack(w, a), TypeOK',
           UNCHANGED <<wrong, refunded, givenBack, torn>>
    PROVE  Inv'
BY ReadsNothingKeeps, RecordsKeeps, SendsBackKeeps

\* Reading a page never moves the order's status.
LEMMA SyncKeepsStatus ==
    ASSUME Inv, NEW w \in Workers, NEW a \in Pages, NEW p \in {page[a]} \union Captures(a),
           Sync(w, a, p)
    PROVE  order'.status = order.status
BY SyncCases DEF ReadsNothing, Records, SendsBack, MarkPaid, Inv, TypeOK

\* A read that fails may still have captured the page.
LEMMA SyncFailsCases ==
    ASSUME Inv, NEW a \in Pages, SyncFails(a), UNCHANGED order
    PROVE  ReadsNothing(a)
BY DEF SyncFails, ReadsNothing, Captures

LEMMA WebhookKeeps == ASSUME Inv, NEW a \in Pages, Webhook(a) PROVE Inv'
<1>1. "webhook" \in Workers
  BY DEF Workers
<1>2. ReadsNothing(a) \/ Records(a) \/ SendsBack("webhook", a)
  BY <1>1, SyncCases, SyncFailsCases DEF Webhook
<1>3. faults' \in 0 .. MaxFaults
  BY FaultTyped DEF Inv, TypeOK, Webhook, SyncFails
<1>4. TypeOK'
  BY <1>1, <1>2, <1>3, ReadingTyped DEF Inv, TypeOK, Webhook
<1> QED
  BY <1>1, <1>2, <1>4, ReadingKeeps DEF Webhook

LEMMA ScanReadsKeeps == ASSUME Inv, NEW a \in Pages, ScanReads(a) PROVE Inv'
<1>1. "scan" \in Workers
  BY DEF Workers
<1>2. ReadsNothing(a) \/ Records(a) \/ SendsBack("scan", a)
  <2>1. CASE \E p \in {page[a]} \union Captures(a) : Sync("scan", a, p)
    BY <1>1, <2>1, SyncCases
  <2>2. CASE UNCHANGED <<order, row, page, refunding>>
    BY <2>2 DEF Inv, TypeOK, ReadsNothing
  <2>3. CASE SyncFails(a) /\ UNCHANGED order
    BY <2>3, SyncFailsCases
  <2> QED
    BY <2>1, <2>2, <2>3 DEF ScanReads
<1>3. faults' \in 0 .. MaxFaults
  BY FaultTyped DEF Inv, TypeOK, ScanReads, SyncFails
<1>4. scan' \in [pc : {"idle", "read", "late", "postpone"}, todo : SUBSET Pages]
  <2>1. scan' \in {Idle, Postponing, [scan EXCEPT !.todo = @ \ {a}]}
    BY DEF ScanReads
  <2> QED
    BY <2>1 DEF Inv, TypeOK, Idle, Postponing
<1>5. TypeOK'
  BY <1>1, <1>2, <1>3, <1>4, ReadingTyped DEF Inv, TypeOK, ScanReads
<1> QED
  BY <1>1, <1>2, <1>5, ReadingKeeps DEF ScanReads

LEMMA SweepReadsKeeps == ASSUME Inv, NEW a \in Pages, SweepReads(a) PROVE Inv'
<1>1. "sweep" \in Workers
  BY DEF Workers
<1>2. ReadsNothing(a) \/ Records(a) \/ SendsBack("sweep", a)
  <2>1. CASE \E p \in Captures(a) : Sync("sweep", a, p)
    BY <1>1, <2>1, SyncCases
  <2>2. CASE UNCHANGED <<order, row, page, refunding>>
    BY <2>2 DEF Inv, TypeOK, ReadsNothing
  <2>3. CASE SyncFails(a) /\ UNCHANGED order
    BY <2>3, SyncFailsCases
  <2> QED
    BY <2>1, <2>2, <2>3 DEF SweepReads
<1>3. faults' \in 0 .. MaxFaults
  BY FaultTyped DEF Inv, TypeOK, SweepReads, SyncFails
<1>4. sweeping' \subseteq Pages
  BY DEF Inv, TypeOK, SweepReads
<1>5. TypeOK'
  BY <1>1, <1>2, <1>3, <1>4, ReadingTyped DEF Inv, TypeOK, SweepReads
<1> QED
  BY <1>1, <1>2, <1>5, ReadingKeeps DEF SweepReads

LEMMA SweepMarksKeeps == ASSUME Inv, SweepMarks PROVE Inv'
<1>1. TypeOK'
  BY DEF Inv, TypeOK, SweepMarks
<1>2. \A b \in Pages : row'[b] = row[b] \/ (row[b] = "open" /\ row'[b] = "expired")
  BY DEF Inv, TypeOK, SweepMarks
<1>3. UNCHANGED <<order, page, wrong, refunded, refunding, givenBack, torn>>
  BY DEF SweepMarks
<1> QED
  BY <1>1, <1>2, <1>3 DEF Inv, StatusInv, PaidInv, RowInv, RefundInv, Kept, Waiting

-----------------------------------------------------------------------------
(* Refunds, cancels and deletions *)

LEMMA RefundKeeps == ASSUME Inv, NEW w \in Workers, NEW a \in Pages, Refund(w, a) PROVE Inv'
<1>1. TypeOK'
  <2>1. faults' \in 0 .. MaxFaults
    BY FaultTyped DEF Inv, TypeOK, Refund
  <2>2. scan' \in [pc : {"idle", "read", "late", "postpone"}, todo : SUBSET Pages]
    BY DEF Inv, TypeOK, Refund, Postponing
  <2>3. row' \in [Pages -> {"none", "open", "paid", "expired", "refunded", "gone"}]
    BY DEF Inv, TypeOK, Refund, Recorded
  <2>4. refunding' \in [Workers -> SUBSET Pages] /\ refunded' \subseteq Pages
    BY DEF Inv, TypeOK, Refund
  <2> QED
    BY <2>1, <2>2, <2>3, <2>4 DEF Inv, TypeOK, Refund
<1>2. /\ UNCHANGED <<order, page, wrong, givenBack, torn>>
      /\ row[a] # "paid" /\ page[a] = "paid" /\ (a \in wrong \/ ~Waiting)
      /\ refunded \subseteq refunded' /\ refunded' \subseteq refunded \union {a}
  BY DEF Inv, TypeOK, RefundInv, Refund
<1>3. \A b \in Pages :
         \/ row'[b] = row[b]
         \/ b = a /\ row[a] # "gone" /\ row'[a] = "refunded" /\ a \in refunded'
  BY DEF Inv, TypeOK, Refund, Recorded
<1>4. \A b \in Pages, v \in Workers : b \in refunding'[v] => b \in refunding[v]
  BY DEF Inv, TypeOK, Refund
<1>5. StatusInv' /\ PaidInv'
  BY <1>2, <1>3 DEF Inv, StatusInv, PaidInv, Kept
<1>6. \A b \in Pages : RowInv(b)'
  BY <1>2, <1>3 DEF Inv, RowInv, Kept
<1>7. \A b \in Pages : RefundInv(b)'
  BY <1>2, <1>3, <1>4 DEF Inv, RefundInv, Waiting
<1> QED
  BY <1>1, <1>5, <1>6, <1>7 DEF Inv

LEMMA CancelSucceedsKeeps ==
    ASSUME Inv, NEW late \in BOOLEAN, CancelSucceeds(late), TypeOK',
           UNCHANGED <<wrong, refunding, torn>>
    PROVE  Inv'
<1>1. order.status \in OpenStatuses /\ Kept
  BY DEF CancelSucceeds, Kept, OpenStatuses
<1>2. PICK R \in {ToRefund, {}} : Cancelled(R) /\ (R = {} => \A a \in Pages : row[a] # "paid")
  BY DEF CancelSucceeds, ToRefund
<1>3. \A a \in Pages :
         /\ row'[a] = IF a \in R THEN "refunded" ELSE IF row[a] = "open" THEN "expired" ELSE row[a]
         /\ a \in R => page[a] = "paid"
         /\ row[a] = "paid" => a \in R
  BY <1>2 DEF Cancelled, OpenRows, ToRefund, PaidPages, Answer, Inv, RowInv
<1>4. /\ order'.status = "cancelled" /\ order'.payment # "paid"
      /\ refunded' = refunded \union R
      /\ givenBack' = 1
  <2>1. order'.payment = IF \E a \in Pages : row'[a] = "refunded" THEN "refunded" ELSE order.payment
    BY <1>2 DEF Cancelled, Inv, TypeOK
  <2>2. order.payment = "paid" => \E a \in Pages : row'[a] = "refunded"
    BY <1>1, <1>3 DEF Inv, PaidInv
  <2> QED
    BY <1>1, <1>2, <2>1, <2>2 DEF Cancelled, Inv, TypeOK, StatusInv
<1>5. \A a \in Pages :
         /\ page[a] = "paid" => page'[a] = "paid"
         /\ page[a] = "none" <=> page'[a] = "none"
  BY DEF CancelSucceeds, Closing, Inv, TypeOK
<1>6. ~Kept' /\ ~Waiting' /\ StatusInv'
  BY <1>4 DEF Kept, Waiting, StatusInv
<1>7. \A a \in Pages : row'[a] # "paid" /\ row'[a] # "open"
  BY <1>3
<1>8. ASSUME NEW a \in Pages PROVE RowInv(a)'
  <2>1. row[a] # "gone" /\ row'[a] # "gone"
    BY <1>1, <1>3 DEF Inv, RowInv, Kept
  <2>2. row'[a] = "none" <=> page'[a] = "none"
    BY <1>3, <1>5 DEF Inv, RowInv
  <2>3. row'[a] = "refunded" => page'[a] = "paid" /\ a \in refunded'
    <3>1. row'[a] = "refunded" => a \in R \/ row[a] = "refunded"
      BY <1>3
    <3> QED
      BY <3>1, <1>3, <1>4, <1>5 DEF Inv, RowInv
  <2> QED
    BY <1>7, <2>1, <2>2, <2>3 DEF RowInv
<1>9. \A a \in Pages : RefundInv(a)'
  BY <1>4, <1>5, <1>7 DEF Inv, RefundInv, Waiting
<1> QED
  BY <1>6, <1>7, <1>8, <1>9 DEF Inv, PaidInv

\* A cancel that was refused or failed closes pages and may have refunded.
LEMMA CancelUndoneKeeps ==
    ASSUME Inv, NEW late \in BOOLEAN, CancelRefused(late) \/ CancelFails(late), TypeOK',
           UNCHANGED <<order, wrong, refunding, givenBack>>
    PROVE  Inv'
<1>1. \A a \in Pages :
         /\ page[a] = "paid" => page'[a] = "paid"
         /\ page[a] = "none" <=> page'[a] = "none"
  BY DEF CancelRefused, CancelFails, Closing, Inv, TypeOK
<1>2. CASE UNCHANGED <<row, refunded, torn>>
  BY <1>1, <1>2 DEF Inv, StatusInv, PaidInv, RowInv, RefundInv, Kept, Waiting
<1>3. CASE ~UNCHANGED <<row, refunded, torn>>
  <2>1. torn'
    BY <1>3 DEF CancelRefused, CancelFails
  <2>2. PICK R \in SUBSET ToRefund, S \in SUBSET ToRefund :
           R \subseteq S /\ refunded' = refunded \union S /\ row' = Recorded(R)
    BY <1>3 DEF CancelRefused, CancelFails
  <2>3. \A a \in R : page[a] = "paid" /\ a \in refunded'
    BY <2>2 DEF ToRefund, PaidPages, OpenRows, Answer, Inv, RowInv
  <2>4. \A a \in Pages :
           \/ row'[a] = row[a]
           \/ a \in R /\ row[a] # "gone" /\ row'[a] = "refunded"
    BY <2>2 DEF Recorded
  <2>5. StatusInv' /\ PaidInv'
    BY <2>1, <2>4 DEF Inv, StatusInv, PaidInv, Kept
  <2>6. \A a \in Pages : RowInv(a)'
    BY <1>1, <2>1, <2>2, <2>3, <2>4 DEF Inv, RowInv, Kept
  <2>7. \A a \in Pages : RefundInv(a)'
    BY <1>1, <2>1, <2>4 DEF Inv, RefundInv, Waiting
  <2> QED
    BY <2>5, <2>6, <2>7 DEF Inv
<1> QED
  BY <1>2, <1>3

\* The parts of a cancel keep their types, and stock comes back to an order
\* that has not given it back yet.
LEMMA CancelTyped ==
    ASSUME Inv, NEW late \in BOOLEAN,
           \/ CancelSucceeds(late) /\ UNCHANGED <<torn, faults>>
           \/ (CancelRefused(late) \/ CancelFails(late)) /\ UNCHANGED <<order, givenBack>>
    PROVE  /\ order' \in [status : {"pending", "accepted", "shipped", "concluded", "cancelled", "gone"},
                           payment : {"unpaid", "paid", "refunded"},
                           due : {"later", "past", "none"}]
           /\ row' \in [Pages -> {"none", "open", "paid", "expired", "refunded", "gone"}]
           /\ page' \in [Pages -> {"none", "open", "approved", "processing", "paid", "closed"}]
           /\ refunded' \subseteq Pages
           /\ givenBack' \in 0 .. 1 /\ faults' \in 0 .. MaxFaults
           /\ torn' \in BOOLEAN
<1>1. ToRefund \subseteq Pages
  BY DEF ToRefund, PaidPages, OpenRows
<1>2. page' \in [Pages -> {"none", "open", "approved", "processing", "paid", "closed"}]
  BY DEF CancelSucceeds, CancelRefused, CancelFails, Closing, Inv, TypeOK
<1>3. CASE CancelSucceeds(late) /\ UNCHANGED <<torn, faults>>
  <2>1. order.status \in OpenStatuses
    BY <1>3 DEF CancelSucceeds
  <2>2. PICK R \in SUBSET Pages : Cancelled(R)
    BY <1>1, <1>3 DEF CancelSucceeds
  <2>3. givenBack' = 1
    BY <2>1, <2>2 DEF Cancelled, Inv, TypeOK, StatusInv, Kept, OpenStatuses
  <2>4. /\ row' \in [Pages -> {"none", "open", "paid", "expired", "refunded", "gone"}]
        /\ refunded' \subseteq Pages
    BY <2>2 DEF Cancelled, Inv, TypeOK
  <2>5. order' \in [status : {"pending", "accepted", "shipped", "concluded", "cancelled", "gone"},
                    payment : {"unpaid", "paid", "refunded"},
                    due : {"later", "past", "none"}]
    BY <2>2 DEF Cancelled, Inv, TypeOK
  <2> QED
    BY <1>2, <1>3, <2>3, <2>4, <2>5 DEF Inv, TypeOK
<1>4. CASE (CancelRefused(late) \/ CancelFails(late)) /\ UNCHANGED <<order, givenBack>>
  <2>1. /\ row' \in [Pages -> {"none", "open", "paid", "expired", "refunded", "gone"}]
        /\ refunded' \subseteq Pages
    BY <1>1, <1>4 DEF CancelRefused, CancelFails, Recorded, Inv, TypeOK
  <2>2. faults' \in 0 .. MaxFaults
    BY <1>4, FaultTyped DEF CancelRefused, CancelFails, Inv, TypeOK
  <2>3. torn' \in BOOLEAN
    BY <1>4 DEF CancelRefused, CancelFails, Inv, TypeOK
  <2> QED
    BY <1>2, <1>4, <2>1, <2>2, <2>3 DEF Inv, TypeOK
<1> QED
  BY <1>3, <1>4

LEMMA CancelOrderKeeps == ASSUME Inv, CancelOrder PROVE Inv'
<1>1. TypeOK'
  BY CancelTyped DEF CancelOrder, Inv, TypeOK
<1> QED
  BY <1>1, CancelSucceedsKeeps, CancelUndoneKeeps DEF CancelOrder, CancelRefused, CancelFails

LEMMA ScanCancelsKeeps == ASSUME Inv, ScanCancels PROVE Inv'
<1>1. scan' \in [pc : {"idle", "read", "late", "postpone"}, todo : SUBSET Pages]
  <2>1. scan' \in {Idle, Postponing, [pc |-> "late", todo |-> OpenRows]}
    BY DEF ScanCancels
  <2> QED
    BY <2>1 DEF Idle, Postponing, OpenRows
<1>2. CASE UNCHANGED <<order, row, page, refunded, givenBack, torn, faults>>
  <2>1. TypeOK'
    BY <1>1, <1>2 DEF ScanCancels, Inv, TypeOK
  <2> QED
    BY <1>2, <2>1, MoneyUntouched DEF ScanCancels
<1>3. CASE \/ CancelSucceeds(TRUE) /\ UNCHANGED <<torn, faults>>
           \/ (CancelRefused(TRUE) \/ CancelFails(TRUE)) /\ UNCHANGED <<order, givenBack>>
  <2>1. TypeOK'
    BY <1>1, <1>3, CancelTyped DEF ScanCancels, Inv, TypeOK
  <2> QED
    BY <1>3, <2>1, CancelSucceedsKeeps, CancelUndoneKeeps DEF ScanCancels
<1> QED
  BY <1>2, <1>3 DEF ScanCancels

LEMMA DeleteOrderKeeps == ASSUME Inv, DeleteOrder PROVE Inv'
<1>1. CASE UNCHANGED <<order, row, givenBack>>
  <2>1. \A a \in Pages :
           /\ page[a] = "paid" => page'[a] = "paid"
           /\ page[a] = "none" <=> page'[a] = "none"
    BY DEF DeleteOrder, Closing, Inv, TypeOK
  <2>2. TypeOK'
    <3>1. page' \in [Pages -> {"none", "open", "approved", "processing", "paid", "closed"}]
      BY DEF DeleteOrder, Closing, Inv, TypeOK
    <3>2. faults' \in 0 .. MaxFaults
      BY FaultTyped DEF DeleteOrder, Inv, TypeOK
    <3> QED
      BY <1>1, <3>1, <3>2 DEF DeleteOrder, Inv, TypeOK
  <2> QED
    BY <1>1, <2>1, <2>2
    DEF DeleteOrder, Inv, StatusInv, PaidInv, RowInv, RefundInv, Kept, Waiting
<1>2. CASE ~UNCHANGED <<order, row, givenBack>>
  <2>1. /\ order' = [status |-> "gone", payment |-> order.payment, due |-> "none"]
        /\ row' = [a \in Pages |-> IF row[a] = "none" THEN "none" ELSE "gone"]
        /\ givenBack' = givenBack + (IF order.status \in OpenStatuses THEN 1 ELSE 0)
        /\ UNCHANGED <<provider, connected, age, wrong, refunded, refunding, scan,
                       sweeping, torn, faults>>
    BY <1>2 DEF DeleteOrder
  <2>2. \E S \in SUBSET Pages : page' = Closing(S)
    BY DEF DeleteOrder, OpenRows
  <2>3. \A a \in Pages :
           /\ page[a] = "paid" => page'[a] = "paid"
           /\ page[a] = "none" <=> page'[a] = "none"
    BY <2>2 DEF Closing, Inv, TypeOK
  <2>4. TypeOK'
    <3>1. page' \in [Pages -> {"none", "open", "approved", "processing", "paid", "closed"}]
      BY <2>2 DEF Closing, Inv, TypeOK
    <3>2. givenBack' \in 0 .. 1
      BY <2>1 DEF Inv, TypeOK, StatusInv, Kept, OpenStatuses
    <3>3. row' \in [Pages -> {"none", "open", "paid", "expired", "refunded", "gone"}]
      BY <2>1
    <3>4. order' \in [status : {"pending", "accepted", "shipped", "concluded", "cancelled", "gone"},
                      payment : {"unpaid", "paid", "refunded"},
                      due : {"later", "past", "none"}]
      BY <2>1 DEF Inv, TypeOK
    <3> QED
      BY <2>1, <3>1, <3>2, <3>3, <3>4 DEF Inv, TypeOK
  <2>5. order'.status = "gone"
    BY <2>1
  <2>6. \A a \in Pages : row'[a] \in {"none", "gone"} /\ (row'[a] = "none" <=> row[a] = "none")
    BY <2>1
  <2>7. StatusInv' /\ PaidInv'
    BY <2>5, <2>6 DEF StatusInv, PaidInv, Kept
  <2>8. \A a \in Pages : RowInv(a)'
    BY <2>3, <2>5, <2>6 DEF Inv, RowInv
  <2>9. \A a \in Pages : RefundInv(a)'
    BY <2>1, <2>3, <2>5, <2>6 DEF Inv, RefundInv, Waiting
  <2> QED
    BY <2>4, <2>7, <2>8, <2>9 DEF Inv
<1> QED
  BY <1>1, <1>2

-----------------------------------------------------------------------------
(* Theorems *)

LEMMA NextKeeps == ASSUME Inv, [Next]_vars PROVE Inv'
<1>1. CASE Customer
  <2>1. StartCheckout => Pages # {}
    BY DEF StartCheckout
  <2> QED
    BY <1>1, <2>1, PageSteps, WebhookKeeps DEF Customer
<1>2. CASE Provider
  BY <1>2, QuietSteps, PageSteps DEF Provider
<1>3. CASE Time
  BY <1>3, DeadlineSteps, PageSteps DEF Time
<1>4. CASE Store
  BY <1>4, StoreSteps, CancelOrderKeeps, DeleteOrderKeeps DEF Store
<1>5. CASE Crons
  BY <1>5, QuietSteps, DeadlineSteps, ScanCancelsKeeps, ScanReadsKeeps, SweepReadsKeeps,
     SweepMarksKeeps DEF Crons
<1>6. CASE \E w \in Workers, a \in Pages : Refund(w, a)
  BY <1>6, RefundKeeps
<1>7. CASE UNCHANGED vars
  <2>1. TypeOK'
    BY <1>7 DEF Inv, TypeOK, vars
  <2> QED
    BY <1>7, <2>1, MoneyUntouched DEF vars
<1> QED
  BY <1>1, <1>2, <1>3, <1>4, <1>5, <1>6, <1>7 DEF Next

\* The strengthening is inductive: status, stock, attempts and pending refunds
\* of an order stay consistent whatever order its payments settle in.
THEOREM InvCorrect == Spec => []Inv
BY InitInv, NextKeeps, PTL DEF Spec

\* Every variable of an order's payment keeps its type, and stock and code are
\* given back once at most.
THEOREM TypeCorrect == Spec => []TypeOK
<1>1. Inv => TypeOK
  BY DEF Inv
<1> QED
  BY <1>1, InvCorrect, PTL

\* An order kept as paid holds the money of exactly one of its pages, of the
\* right amount, and nothing unpaid is fulfilled.
THEOREM PaidOrderHoldsItsMoneyCorrect == Spec => []PaidOrderHoldsItsMoney
<1>1. Inv => PaidOrderHoldsItsMoney
  BY DEF Inv, StatusInv, PaidInv, RowInv, PaidOrderHoldsItsMoney, Held, Kept
<1> QED
  BY <1>1, InvCorrect, PTL

\* A cancelled order stays cancelled, its stock given back once.
THEOREM CancelledOrderIsOverCorrect == Spec => []CancelledOrderIsOver
<1>1. Inv => CancelledOrderIsOver
  BY DEF Inv, StatusInv, RowInv, CancelledOrderIsOver, Kept
<1> QED
  BY <1>1, InvCorrect, PTL

\* A refund that is still to be made is not of the payment an order keeps, so
\* only a cancel takes that money back.
THEOREM OnlyACancelRefundsTheOrderCorrect == Spec => OnlyACancelRefundsTheOrder
<1>1. ASSUME Inv, [Next]_vars
      PROVE  \A a \in Pages : row[a] = "paid" /\ a \in refunded' \ refunded
                => order'.status = "cancelled" \/ torn'
  <2> SUFFICES ASSUME NEW a \in Pages, row[a] = "paid", a \in refunded' \ refunded
               PROVE  order'.status = "cancelled" \/ torn'
    OBVIOUS
  <2>1. CASE \E w \in Workers, b \in Pages : Refund(w, b)
    <3>1. PICK w \in Workers, b \in Pages : Refund(w, b)
      BY <2>1
    <3>2. a = b
      BY <1>1, <3>1 DEF Refund
    <3>3. FALSE
      BY <1>1, <3>1, <3>2 DEF Inv, RefundInv, Refund
    <3> QED
      BY <3>3
  <2>2. CASE \E late \in BOOLEAN : CancelSucceeds(late)
    BY <1>1, <2>2 DEF CancelSucceeds, Cancelled, Inv, TypeOK
  <2>3. CASE \E late \in BOOLEAN : CancelFails(late)
    BY <1>1, <2>3 DEF CancelFails
  <2>4. CASE refunded' = refunded
    BY <1>1, <2>4
  <2> QED
    BY <1>1, <2>1, <2>2, <2>3, <2>4
    DEF Next, Customer, Provider, Time, Store, Crons, vars, StartCheckout, CustomerPays,
        Webhook, CaptureSettles, Disconnect, DeadlinePasses, PageAges, Accept, Ship, Conclude,
        CancelOrder, CancelRefused, DeleteOrder, ScanStart, ScanBlocked, ScanReads, ScanCancels,
        ScanLateEnds, ScanPostpones, SweepReads, SweepMarks
<1> QED
  BY <1>1, InvCorrect, PTL DEF Spec, OnlyACancelRefundsTheOrder

\* Cancelling or deleting an order gives its stock back once, keeps no money
\* and closes every page that could still charge the customer.
THEOREM ClosedOrderKeepsNoMoneyCorrect == Spec => ClosedOrderKeepsNoMoney
<1> DEFINE Closes == order.status \in OpenStatuses /\ order'.status \in {"cancelled", "gone"}
           Clean ==
              /\ givenBack' = 1
              /\ \A a \in Pages : row[a] = "paid" => ~Held(a)'
              /\ \A a \in Pages : connected /\ row[a] # "expired" =>
                    /\ ~Held(a)' /\ page'[a] # "processing"
                    /\ provider = "stripe" => page'[a] # "open"
<1>1. ASSUME Inv, Inv', NEW late \in BOOLEAN, CancelSucceeds(late), Closes PROVE Clean
  <2>1. givenBack' = 1
    BY <1>1 DEF CancelSucceeds, Cancelled, Inv, StatusInv, Kept, OpenStatuses
  <2>2. CASE ~connected
    BY <1>1, <2>1, <2>2 DEF CancelSucceeds
  <2>3. CASE connected
    <3>1. /\ page' = Closing(OpenRows) /\ refunded' = refunded \union ToRefund
          /\ SettlingPages = {}
      BY <1>1, <2>3 DEF CancelSucceeds, Cancelled
    <3>2. ASSUME NEW a \in Pages, row[a] # "expired"
          PROVE  /\ ~Held(a)' /\ page'[a] # "processing"
                 /\ provider = "stripe" => page'[a] # "open"
      <4>1. row[a] \in {"none", "open", "paid", "refunded"}
        BY <1>1, <3>2 DEF Inv, TypeOK, RowInv, OpenStatuses
      <4>2. CASE row[a] = "open"
        <5>1. page[a] # "processing" /\ a \in OpenRows
          BY <3>1, <4>2 DEF SettlingPages, OpenRows
        <5>2. page[a] = "paid" => a \in refunded'
          BY <3>1, <5>1 DEF ToRefund, PaidPages, Answer
        <5> QED
          BY <1>1, <3>1, <5>1, <5>2 DEF Closing, Held, Inv, TypeOK
      <4>3. CASE row[a] # "open"
        BY <1>1, <3>1, <4>1, <4>3 DEF Closing, OpenRows, ToRefund, Held, Inv, TypeOK, RowInv
      <4> QED
        BY <4>2, <4>3
    <3> QED
      BY <2>1, <3>2
  <2> QED
    BY <2>2, <2>3
<1>2. ASSUME Inv, DeleteOrder, Closes PROVE Clean
  <2> DEFINE asked == IF connected THEN OpenRows ELSE {}
  <2>1. /\ order.payment # "paid" /\ order.status \in OpenStatuses
        /\ \A a \in asked : Answer(a, page[a]) \notin {"paid", "processing"}
        /\ page' = Closing(asked) /\ givenBack' = givenBack + 1
        /\ UNCHANGED refunded
    BY <1>2 DEF DeleteOrder, OpenStatuses
  <2>2. givenBack' = 1 /\ \A a \in Pages : row[a] # "paid"
    BY <1>2, <2>1 DEF Inv, TypeOK, StatusInv, RowInv, Kept, OpenStatuses
  <2>3. ASSUME NEW a \in Pages, connected, row[a] # "expired"
        PROVE  /\ ~Held(a)' /\ page'[a] # "processing"
               /\ provider = "stripe" => page'[a] # "open"
    <3>1. row[a] \in {"none", "open", "refunded"}
      BY <1>2, <2>2, <2>3 DEF Inv, TypeOK, RowInv, OpenStatuses
    <3>2. CASE row[a] = "open"
      <4>1. a \in asked /\ page[a] # "processing" /\ (page[a] = "paid" => a \in refunded)
        BY <2>1, <2>3, <3>2 DEF OpenRows, Answer
      <4> QED
        BY <1>2, <2>1, <4>1 DEF Closing, Held, Inv, TypeOK
    <3>3. CASE row[a] # "open"
      BY <1>2, <2>1, <3>1, <3>3 DEF Closing, OpenRows, Held, Inv, TypeOK, RowInv
    <3> QED
      BY <3>2, <3>3
  <2> QED
    BY <2>2, <2>3
<1>3. ASSUME Inv, Inv', [Next]_vars PROVE Closes => Clean
  <2> SUFFICES ASSUME Closes PROVE Clean
    OBVIOUS
  <2>1. order'.status # order.status
    BY DEF OpenStatuses
  <2>2. (\E late \in BOOLEAN : CancelSucceeds(late)) \/ DeleteOrder
    <3>1. ~Customer
      <4>1. \A a \in Pages : Webhook(a) => order'.status = order.status
        BY <1>3, SyncKeepsStatus DEF Webhook, Workers
      <4> QED
        BY <2>1, <4>1 DEF Customer, StartCheckout, CustomerPays
    <3>2. ~Provider /\ ~Time
      BY <1>3, <2>1 DEF Provider, Time, Disconnect, CaptureSettles, DeadlinePasses, PageAges,
         Inv, TypeOK
    <3>3. \A w \in Workers, a \in Pages : ~Refund(w, a)
      BY <1>3, <2>1 DEF Refund
    <3>4. Store => CancelOrder \/ DeleteOrder
      BY <1>3 DEF Store, Accept, Ship, Conclude, Inv, TypeOK
    <3>5. Crons => ScanCancels
      <4>1. \A a \in Pages : ScanReads(a) \/ SweepReads(a) => order'.status = order.status
        BY <1>3, SyncKeepsStatus DEF ScanReads, SweepReads, Workers
      <4> QED
        BY <1>3, <2>1, <4>1
        DEF Crons, ScanStart, ScanBlocked, ScanLateEnds, ScanPostpones, SweepMarks, Inv, TypeOK
    <3> QED
      BY <1>3, <2>1, <3>1, <3>2, <3>3, <3>4, <3>5 DEF Next, vars, CancelOrder, ScanCancels
  <2> QED
    BY <1>1, <1>2, <1>3, <2>2
<1>4. Inv /\ Inv' /\ [Next]_vars => (Closes => Clean)
  BY <1>3
<1> QED
  BY <1>4, InvCorrect, PTL DEF Spec, ClosedOrderKeepsNoMoney

=============================================================================
