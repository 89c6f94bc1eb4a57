---------------------------- MODULE OrderPayment ----------------------------
(***************************************************************************)
(* One order of a web shop that is paid online.  The customer pays on a    *)
(* page of the provider (Stripe or PayPal); the provider's webhooks, the   *)
(* customer's return, the expiry scan and the sweep of stale attempts each *)
(* read the page back and apply what they find, while the store accepts,   *)
(* cancels or deletes the order.  Every database change is made under the  *)
(* order's row lock, so a transaction is one step, together with the       *)
(* provider calls it makes: while it runs, only the customer can move at   *)
(* the provider, and that commutes with a call made earlier or later.      *)
(* Outside the lock are the refund after a commit, the reads that start a  *)
(* scan, and everything between two transactions.                          *)
(***************************************************************************)
EXTENDS Naturals, FiniteSets

CONSTANTS
    MaxPages,   \* provider pages the order gets at most
    MaxFaults   \* calls that fail, crashes, blocked scans, wrong amounts

ASSUME BoundsAreNaturals == MaxPages \in Nat /\ MaxFaults \in Nat

VARIABLES
    provider,   \* Order.paymentMethod
    connected,  \* the store's provider account is still connected
    order,      \* Order: status, payment (paymentStatus), due (paymentExpiresAt)
    row,        \* row[a]: OrderPayment.status of the a-th page
    page,       \* page[a]: where the page stands at the provider
    age,        \* age[a]: how far the page is from its end (expiresAt)
    wrong,      \* pages paid with an amount that is not the order's
    refunded,   \* pages whose money the provider has sent back
    refunding,  \* refunding[w]: refunds a worker makes after its commit
    scan,       \* expireOrder: where it stands and the attempts left to read
    sweeping,   \* the attempt settleStaleAttempt is about to mark expired
    givenBack,  \* how often stock and discount code were given back
    torn,       \* history: a cancel failed after it had refunded
    faults

vars == <<provider, connected, order, row, page, age, wrong, refunded,
          refunding, scan, sweeping, givenBack, torn, faults>>

Pages == 1 .. MaxPages
Workers == {"webhook", "scan", "sweep"}

\* The statuses in which an order still holds the money and the stock.
OpenStatuses == {"pending", "accepted", "shipped"}

Exists == order.status # "gone"

\* An order a payment may still settle.
Waiting == order.status = "pending" /\ order.payment = "unpaid"

OpenRows == {a \in Pages : row[a] = "open"}

\* The store has the money of the page.
Held(a) == page[a] = "paid" /\ a \notin refunded

\* What the provider answers about a page that stands at p.  PayPal reports an
\* approved order as open and a refunded capture as closed; a Stripe session
\* stays paid.
Answer(a, p) ==
    CASE p = "approved" -> "open"
      [] p = "paid" /\ a \in refunded /\ provider = "paypal" -> "closed"
      [] OTHER -> p

Fault == faults < MaxFaults /\ faults' = faults + 1

-----------------------------------------------------------------------------
(* The customer, the provider and time.                                    *)

\* A page with time left is offered again; otherwise a new one is opened.
StartCheckout ==
    /\ Waiting /\ order.due = "later" /\ connected
    /\ \A a \in OpenRows : age[a] \notin {"fresh", "ripe"}
    /\ \E a \in Pages :
        /\ page[a] = "none" /\ \A b \in Pages : b < a => page[b] # "none"
        /\ row' = [row EXCEPT ![a] = "open"]
        /\ page' = [page EXCEPT ![a] = "open"]
        /\ age' = [age EXCEPT ![a] = "fresh"]
    /\ UNCHANGED <<provider, connected, order, wrong, refunded, refunding,
                   scan, sweeping, givenBack, torn, faults>>

\* Stripe takes the money on its page, PayPal waits for the capture.
CustomerPays(a) ==
    /\ page[a] = "open"
    /\ page' = [page EXCEPT ![a] = IF provider = "stripe" THEN "paid" ELSE "approved"]
    /\ \/ UNCHANGED <<wrong, faults>>
       \/ Fault /\ wrong' = wrong \union {a}
    /\ UNCHANGED <<provider, connected, order, row, age, refunded, refunding,
                   scan, sweeping, givenBack, torn>>

CaptureSettles(a) ==
    /\ page[a] = "processing"
    /\ \E p \in {"paid", "closed"} : page' = [page EXCEPT ![a] = p]
    /\ UNCHANGED <<provider, connected, order, row, age, wrong, refunded,
                   refunding, scan, sweeping, givenBack, torn, faults>>

\* The deadline a page was opened under passes before the page ends.
DeadlinePasses ==
    /\ order.due = "later"
    /\ order' = [order EXCEPT !.due = "past"]
    /\ age' = [a \in Pages |-> CASE age[a] = "fresh" -> "ripe"
                                 [] age[a] = "short" -> "ending"
                                 [] OTHER -> age[a]]
    /\ UNCHANGED <<provider, connected, row, page, wrong, refunded, refunding,
                   scan, sweeping, givenBack, torn, faults>>

\* A page soon at its end is not offered again (REUSE_MARGIN_MS): "short", a
\* little before the deadline, or "ending", after it.  At its end a Stripe page
\* closes, and the sweep looks at it some time later.
PageAges(a) ==
    /\ \/ /\ age[a] = "fresh" /\ order.due = "later"
          /\ age' = [age EXCEPT ![a] = "short"]
          /\ UNCHANGED page
       \/ /\ age[a] = "ripe" \/ (age[a] \in {"fresh", "short"} /\ order.due = "none")
          /\ age' = [age EXCEPT ![a] = "ending"]
          /\ UNCHANGED page
       \/ /\ age[a] = "ending"
          /\ age' = [age EXCEPT ![a] = "stale"]
          /\ page' = IF provider = "stripe" /\ page[a] = "open"
                     THEN [page EXCEPT ![a] = "closed"] ELSE page
    /\ UNCHANGED <<provider, connected, order, row, wrong, refunded, refunding,
                   scan, sweeping, givenBack, torn, faults>>

\* disconnect is refused while the order needs the account; Stripe may also
\* tell that the store has disconnected the platform from its own dashboard.
Disconnect ==
    /\ connected
    /\ \/ provider = "stripe"
       \/ ~(order.status \in OpenStatuses /\ order.payment \in {"unpaid", "paid"})
    /\ connected' = FALSE
    /\ UNCHANGED <<provider, order, row, page, age, wrong, refunded, refunding,
                   scan, sweeping, givenBack, torn, faults>>

-----------------------------------------------------------------------------
(* syncAttempt: read one page back and apply it.                           *)

\* An approved PayPal order is captured while the order waits for its money;
\* a capture may be declined, and then another card may be tried.
Captures(a) ==
    IF page[a] = "approved" /\ Waiting THEN {"paid", "processing", "approved"}
    ELSE {page[a]}

MarkPaid(a) ==
    /\ order' = [order EXCEPT !.payment = "paid", !.due = "none"]
    /\ row' = [row EXCEPT ![a] = "paid"]

\* Mutant: the amount is not compared.
PaysAnyAmount(a) == Waiting

\* The right amount for an order that waits for it.
Pays(a) == Waiting /\ a \notin wrong

\* applyStatus once the page stands at p, and the refund that afterSync makes
\* when this has committed.
Apply(w, a, p) ==
    CASE Answer(a, p) # "paid" ->
            /\ row' = IF Answer(a, p) = "closed" /\ row[a] = "open"
                      THEN [row EXCEPT ![a] = "expired"] ELSE row
            /\ UNCHANGED <<order, refunding>>
      [] Answer(a, p) = "paid" /\ Pays(a) ->
            MarkPaid(a) /\ UNCHANGED refunding
      [] OTHER ->
            /\ refunding' = [refunding EXCEPT ![w] = @ \union {a}]
            /\ UNCHANGED <<order, row>>

\* Mutants: a paid attempt is read again, an expired one no more.
SettledOnceRefunded(a) == row[a] \in {"refunded", "gone"}
SettledOnceExpired(a) == row[a] \in {"paid", "refunded", "gone", "expired"}

\* An attempt paid or refunded is settled, and so is one gone with its order.
Settled(a) == row[a] \in {"paid", "refunded", "gone"}

\* The page ends at p; what a settled attempt reads changes nothing.
Sync(w, a, p) ==
    /\ connected
    /\ IF Settled(a) THEN p = page[a] /\ UNCHANGED <<order, row, refunding>>
       ELSE p \in Captures(a) /\ Apply(w, a, p)
    /\ page' = [page EXCEPT ![a] = p]

\* The provider does not answer, or the transaction is lost after a capture.
SyncFails(a) ==
    /\ Fault
    /\ \E p \in IF Settled(a) THEN {page[a]} ELSE Captures(a) :
          page' = [page EXCEPT ![a] = p]
    /\ UNCHANGED <<row, refunding>>

\* The job of a webhook, possibly late or repeated, and the customer's return.
Webhook(a) ==
    /\ row[a] # "none" /\ ~Settled(a)
    /\ \/ (\E p \in Captures(a) : Sync("webhook", a, p)) /\ UNCHANGED faults
       \/ connected /\ SyncFails(a) /\ UNCHANGED order
    /\ UNCHANGED <<provider, connected, age, wrong, refunded, scan, sweeping,
                   givenBack, torn>>

\* refundAttempt: the refund key makes a second refund a refund already made,
\* and an attempt is marked whatever became of it meanwhile.
Recorded(S) == [a \in Pages |-> IF a \in S /\ row[a] # "gone" THEN "refunded" ELSE row[a]]

Idle == [pc |-> "idle", todo |-> {}]
Postponing == [pc |-> "postpone", todo |-> {}]

\* A refund fails, or is made and not recorded; the scan then tries again later.
Refund(w, a) ==
    /\ a \in refunding[w]
    /\ refunding' = [refunding EXCEPT ![w] = @ \ {a}]
    /\ \/ /\ refunded' = refunded \union {a} /\ row' = Recorded({a})
          /\ UNCHANGED <<order, scan, faults>>
       \/ /\ refunded' \in {refunded} \union (IF connected THEN {refunded \union {a}} ELSE {})
          /\ IF connected THEN Fault ELSE UNCHANGED faults
          /\ scan' = IF w = "scan" THEN Postponing ELSE scan
          /\ UNCHANGED <<order, row>>
    /\ UNCHANGED <<provider, connected, page, age, wrong, sweeping, givenBack, torn>>

-----------------------------------------------------------------------------
(* The store.                                                              *)

Accept ==
    /\ order.status = "pending" /\ order.payment # "unpaid"
    /\ order' = [order EXCEPT !.status = "accepted"]
    /\ UNCHANGED <<provider, connected, row, page, age, wrong, refunded,
                   refunding, scan, sweeping, givenBack, torn, faults>>

Ship ==
    /\ order.status = "accepted"
    /\ order' = [order EXCEPT !.status = "shipped"]
    /\ UNCHANGED <<provider, connected, row, page, age, wrong, refunded,
                   refunding, scan, sweeping, givenBack, torn, faults>>

Conclude ==
    /\ order.status \in {"accepted", "shipped"}
    /\ order' = [order EXCEPT !.status = "concluded"]
    /\ UNCHANGED <<provider, connected, row, page, age, wrong, refunded,
                   refunding, scan, sweeping, givenBack, torn, faults>>

\* expireCheckout closes an open Stripe page for good; a PayPal page only
\* reads as closed, since nobody will capture it.
Closing(S) ==
    [a \in Pages |-> IF a \in S /\ page[a] = "open" /\ provider = "stripe"
                     THEN "closed" ELSE page[a]]

PaidPages == {a \in OpenRows : Answer(a, page[a]) = "paid"}
SettlingPages == {a \in OpenRows : page[a] = "processing"}

\* Mutant: what was paid while the pages were closed is forgotten.
RecordedPayments == {a \in Pages : row[a] = "paid"}

\* The refunds settlePaymentsForCancel has to make.
ToRefund == {a \in Pages : row[a] = "paid"} \union PaidPages

\* The expiry scan's cancel keeps an order it finds paid as it closes a page.
PaidLate(late) == late /\ order.payment # "paid" /\ PaidPages # {}

\* What a cancel writes once every page is closed and every refund is made.
Cancelled(refunds) ==
    /\ refunded' = refunded \union refunds
    /\ row' = [a \in Pages |-> IF a \in refunds THEN "refunded"
                               ELSE IF a \in OpenRows THEN "expired" ELSE row[a]]
    /\ order' = [order EXCEPT !.status = "cancelled", !.due = "none",
                    !.payment = IF \E a \in Pages : row'[a] = "refunded"
                                THEN "refunded" ELSE @]
    /\ givenBack' = givenBack + 1

\* Mutant: the status is not read again under the lock.
CancelUnguarded(late) ==
    connected /\ SettlingPages = {} /\ page' = Closing(OpenRows) /\ Cancelled(ToRefund)

\* transition to cancelled, with settlePaymentsForCancel in its transaction.
CancelSucceeds(late) ==
    /\ order.status \in OpenStatuses
    /\ \/ /\ connected /\ SettlingPages = {} /\ ~PaidLate(late)
          /\ page' = Closing(OpenRows)
          /\ Cancelled(ToRefund)
       \/ /\ ~connected /\ \A a \in Pages : row[a] # "paid"
          /\ Cancelled({})
          /\ UNCHANGED page

\* A payment still settling, or a paid one whose account is gone, refuses the
\* cancel, some pages already closed.
CancelRefused(late) ==
    /\ order.status \in OpenStatuses
    /\ \/ connected /\ (SettlingPages # {} \/ PaidLate(late))
       \/ ~connected /\ \E a \in Pages : row[a] = "paid"
    /\ \E S \in SUBSET OpenRows : page' = IF connected THEN Closing(S) ELSE page
    /\ UNCHANGED <<row, refunded, torn, faults>>

\* A call fails half way: pages are closed, refunds made and recorded (each at
\* once), the last one perhaps made and not recorded; the order stays.
CancelFails(late) ==
    /\ Fault
    /\ order.status \in OpenStatuses /\ connected
    /\ SettlingPages = {} /\ ~PaidLate(late)
    /\ \/ /\ \E S \in SUBSET OpenRows : page' = Closing(S)
          /\ UNCHANGED <<row, refunded, torn>>
       \/ /\ page' = Closing(OpenRows)
          /\ \E R \in SUBSET ToRefund, S \in SUBSET ToRefund :
                /\ R \subseteq S /\ S # {} /\ Cardinality(S \ R) <= 1
                /\ refunded' = refunded \union S
                /\ row' = Recorded(R)
          /\ torn' = TRUE

CancelOrder ==
    /\ \/ CancelSucceeds(FALSE) /\ UNCHANGED <<torn, faults>>
       \/ (CancelRefused(FALSE) \/ CancelFails(FALSE)) /\ UNCHANGED <<order, givenBack>>
    /\ UNCHANGED <<provider, connected, age, wrong, refunding, scan, sweeping>>

\* delete: an open order that is or turns out paid is refused; its pages are
\* closed, and its attempts go with it.
DeleteOrder ==
    /\ Exists
    /\ LET asked == IF order.status \in OpenStatuses /\ connected THEN OpenRows ELSE {} IN
       \/ /\ ~(order.status \in OpenStatuses /\ order.payment = "paid")
          /\ \A a \in asked : Answer(a, page[a]) \notin {"paid", "processing"}
          /\ page' = Closing(asked)
          /\ order' = [status |-> "gone", payment |-> order.payment, due |-> "none"]
          /\ row' = [a \in Pages |-> IF row[a] = "none" THEN "none" ELSE "gone"]
          /\ givenBack' = givenBack + (IF order.status \in OpenStatuses THEN 1 ELSE 0)
          /\ UNCHANGED faults
       \/ /\ order.payment # "paid" /\ asked # {}
          /\ \/ /\ \E a \in asked : Answer(a, page[a]) \in {"paid", "processing"}
                /\ UNCHANGED faults
             \/ Fault
          /\ \E S \in SUBSET asked : page' = Closing(S)
          /\ UNCHANGED <<order, row, givenBack>>
    /\ UNCHANGED <<provider, connected, age, wrong, refunded, refunding, scan,
                   sweeping, torn>>

-----------------------------------------------------------------------------
(* expireUnpaidOrders.                                                     *)

\* listOverdue and the first reads of expireOrder, which take no lock.
ScanStart ==
    /\ scan.pc = "idle" /\ Waiting /\ order.due = "past"
    /\ scan' = [pc |-> "read", todo |-> OpenRows]
    /\ UNCHANGED <<provider, connected, order, row, page, age, wrong, refunded,
                   refunding, sweeping, givenBack, torn, faults>>

\* The order of a blocked owner is looked at later.
ScanBlocked ==
    /\ scan.pc = "idle" /\ Waiting /\ order.due = "past"
    /\ Fault
    /\ scan' = Postponing
    /\ UNCHANGED <<provider, connected, order, row, page, age, wrong, refunded,
                   refunding, sweeping, givenBack, torn>>

\* An attempt is read back: a payment ends the scan, one still settling
\* postpones it, and an account gone tells nothing.
ScanReads(a) ==
    /\ scan.pc \in {"read", "late"} /\ a \in scan.todo /\ refunding["scan"] = {}
    /\ \/ \E p \in {page[a]} \union Captures(a) :
            /\ Sync("scan", a, p)
            /\ scan' = CASE row'[a] = "paid" /\ row[a] # "paid" -> Idle
                         [] scan.pc = "read" /\ p = "processing" /\ ~Settled(a) -> Postponing
                         [] OTHER -> [scan EXCEPT !.todo = @ \ {a}]
            /\ UNCHANGED faults
       \/ /\ ~connected
          /\ scan' = [scan EXCEPT !.todo = @ \ {a}]
          /\ UNCHANGED <<order, row, page, refunding, faults>>
       \/ /\ connected /\ SyncFails(a)
          /\ scan' = Postponing
          /\ UNCHANGED order
    /\ UNCHANGED <<provider, connected, age, wrong, refunded, sweeping, givenBack, torn>>

\* Nothing came in: the order is cancelled, unless the cancel finds it paid.
ScanCancels ==
    /\ scan = [pc |-> "read", todo |-> {}] /\ refunding["scan"] = {}
    /\ \/ CancelSucceeds(TRUE) /\ scan' = Idle /\ UNCHANGED <<torn, faults>>
       \/ /\ order.status \notin OpenStatuses
          /\ scan' = Idle
          /\ UNCHANGED <<order, row, page, refunded, givenBack, torn, faults>>
       \/ /\ CancelRefused(TRUE)
          /\ \/ PaidLate(TRUE) /\ scan' = [pc |-> "late", todo |-> OpenRows]
             \/ (SettlingPages # {} \/ ~connected) /\ scan' = Postponing
          /\ UNCHANGED <<order, givenBack>>
       \/ CancelFails(TRUE) /\ scan' = Postponing /\ UNCHANGED <<order, givenBack>>
    /\ UNCHANGED <<provider, connected, age, wrong, refunding, sweeping>>

\* settleLatePayment found no payment it could record.
ScanLateEnds ==
    /\ scan = [pc |-> "late", todo |-> {}] /\ refunding["scan"] = {}
    /\ scan' = Postponing
    /\ UNCHANGED <<provider, connected, order, row, page, age, wrong, refunded,
                   refunding, sweeping, givenBack, torn, faults>>

\* Mutant: the deadline is cleared rather than moved.
ScanClearsDeadline ==
    /\ scan.pc = "postpone"
    /\ scan' = Idle
    /\ order' = [order EXCEPT !.due = "none"]
    /\ UNCHANGED <<provider, connected, row, page, age, wrong, refunded,
                   refunding, sweeping, givenBack, torn, faults>>

\* postponeExpiry looks at the payment, not at the status.
ScanPostpones ==
    /\ scan.pc = "postpone"
    /\ scan' = Idle
    /\ order' = IF Exists /\ order.payment = "unpaid" THEN [order EXCEPT !.due = "later"] ELSE order
    /\ UNCHANGED <<provider, connected, row, page, age, wrong, refunded,
                   refunding, sweeping, givenBack, torn, faults>>

\* settleStaleAttempt reads an open attempt past its page's end once more.
SweepReads(a) ==
    /\ row[a] = "open" /\ age[a] = "stale" /\ sweeping = {} /\ refunding["sweep"] = {}
    /\ \/ \E p \in Captures(a) :
            /\ Sync("sweep", a, p)
            /\ sweeping' = IF Answer(a, p) = "open" THEN {a} ELSE {}
            /\ UNCHANGED faults
       \/ /\ ~connected
          /\ sweeping' = {a}
          /\ UNCHANGED <<order, row, page, refunding, faults>>
       \/ connected /\ SyncFails(a) /\ UNCHANGED <<order, sweeping>>
    /\ UNCHANGED <<provider, connected, age, wrong, refunded, scan, givenBack, torn>>

\* A page nobody paid, or whose account is gone, is marked expired if nothing
\* has settled it since.
SweepMarks ==
    /\ sweeping # {}
    /\ row' = [a \in Pages |-> IF a \in sweeping /\ row[a] = "open" THEN "expired" ELSE row[a]]
    /\ sweeping' = {}
    /\ UNCHANGED <<provider, connected, order, page, age, wrong, refunded,
                   refunding, scan, givenBack, torn, faults>>

-----------------------------------------------------------------------------
\* place: an order that costs something, its stock and code taken.
Init ==
    /\ provider \in {"stripe", "paypal"}
    /\ connected = TRUE
    /\ order = [status |-> "pending", payment |-> "unpaid", due |-> "later"]
    /\ row = [a \in Pages |-> "none"]
    /\ page = [a \in Pages |-> "none"]
    /\ age = [a \in Pages |-> "fresh"]
    /\ wrong = {} /\ refunded = {}
    /\ refunding = [w \in Workers |-> {}]
    /\ scan = Idle
    /\ sweeping = {}
    /\ givenBack = 0
    /\ torn = FALSE
    /\ faults = 0

Customer == StartCheckout \/ \E a \in Pages : CustomerPays(a) \/ Webhook(a)
Provider == Disconnect \/ \E a \in Pages : CaptureSettles(a)
Time == DeadlinePasses \/ \E a \in Pages : PageAges(a)
Store == Accept \/ Ship \/ Conclude \/ CancelOrder \/ DeleteOrder
Crons ==
    \/ ScanStart \/ ScanBlocked \/ ScanCancels \/ ScanLateEnds \/ ScanPostpones
    \/ SweepMarks
    \/ \E a \in Pages : ScanReads(a) \/ SweepReads(a)

Next ==
    \/ Customer \/ Provider \/ Time \/ Store \/ Crons
    \/ \E w \in Workers, a \in Pages : Refund(w, a)

Spec == Init /\ [][Next]_vars

\* The crons run every minute, time passes, the provider settles what it has
\* captured and calls back about money it has taken.  Nobody has to pay, accept,
\* cancel or delete.
FairSpec ==
    /\ Spec
    /\ WF_vars(DeadlinePasses)
    /\ WF_vars(ScanStart) /\ WF_vars(ScanCancels) /\ WF_vars(ScanLateEnds)
    /\ WF_vars(ScanPostpones) /\ WF_vars(SweepMarks)
    /\ \A a \in Pages :
          /\ WF_vars(PageAges(a)) /\ WF_vars(CaptureSettles(a))
          /\ WF_vars(ScanReads(a)) /\ WF_vars(SweepReads(a))
          /\ WF_vars(page[a] = "paid" /\ Webhook(a))
          /\ \A w \in Workers : WF_vars(Refund(w, a))

-----------------------------------------------------------------------------
TypeOK ==
    /\ provider \in {"stripe", "paypal"} /\ connected \in BOOLEAN
    /\ order \in [status : {"pending", "accepted", "shipped", "concluded", "cancelled", "gone"},
                  payment : {"unpaid", "paid", "refunded"},
                  due : {"later", "past", "none"}]
    /\ row \in [Pages -> {"none", "open", "paid", "expired", "refunded", "gone"}]
    /\ page \in [Pages -> {"none", "open", "approved", "processing", "paid", "closed"}]
    /\ age \in [Pages -> {"fresh", "short", "ripe", "ending", "stale"}]
    /\ wrong \subseteq Pages /\ refunded \subseteq Pages
    /\ refunding \in [Workers -> SUBSET Pages]
    /\ scan \in [pc : {"idle", "read", "late", "postpone"}, todo : SUBSET Pages]
    /\ sweeping \subseteq Pages
    /\ givenBack \in 0 .. 1 /\ torn \in BOOLEAN /\ faults \in 0 .. MaxFaults

Kept == order.status \in {"pending", "accepted", "shipped", "concluded"}

\* An order that is kept as paid holds the money of exactly one of its pages,
\* of the right amount, and its stock; nothing unpaid is ever fulfilled.  A
\* cancel that failed over its refunds is the exception.
PaidOrderHoldsItsMoney ==
    ~torn /\ Kept =>
        /\ givenBack = 0
        /\ order.status # "pending" => order.payment = "paid"
        /\ order.payment = "paid" =>
              \E a \in Pages :
                 /\ Held(a) /\ row[a] = "paid" /\ a \notin wrong
                 /\ \A b \in Pages : row[b] = "paid" => b = a

\* A cancelled order gave its stock back once, and no late webhook, scan or
\* sweep opens it again or keeps money for it.
CancelledOrderIsOver ==
    order.status = "cancelled" =>
        /\ givenBack = 1
        /\ order.payment # "paid"
        /\ \A a \in Pages : row[a] \notin {"open", "paid"}

\* Only a cancel takes back the money that pays an order.
OnlyACancelRefundsTheOrder ==
    [][\A a \in Pages : row[a] = "paid" /\ a \in refunded' \ refunded
          => order'.status = "cancelled" \/ torn']_vars

\* Cancelling or deleting an order gives its stock back once, keeps no money
\* and leaves no page that could still charge the customer, but for an attempt
\* already marked expired, and with the account gone for pages still open.
ClosedOrderKeepsNoMoney ==
    [][order.status \in OpenStatuses /\ order'.status \in {"cancelled", "gone"} =>
          /\ givenBack' = 1
          /\ \A a \in Pages : row[a] = "paid" => ~Held(a)'
          /\ \A a \in Pages : connected /\ row[a] # "expired" =>
                /\ ~Held(a)' /\ page'[a] # "processing"
                /\ provider = "stripe" => page'[a] # "open"]_vars

\* The expiry scan cancels no order that was paid in time.
ExpiryKeepsAPaidOrder ==
    [][scan.pc = "read" /\ scan'.pc = "idle" /\ order.payment = "paid"
          => order'.status = order.status]_vars

\* An order past its deadline is paid, cancelled or deleted in the end.
OverdueSettles == (Waiting /\ order.due = "past") ~> ~Waiting

\* Money that does not pay the order goes back to the customer.
ExtraMoneyGoesBack ==
    \A a \in Pages :
        Held(a) /\ row[a] # "paid" ~> ~Held(a) \/ row[a] \in {"paid", "gone"} \/ ~connected
=============================================================================
