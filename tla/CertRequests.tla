---------------------------- MODULE CertRequests ----------------------------
(***************************************************************************)
(* CertRequests: the paid roof certificates.  The office books a request,  *)
(* an inspector works and approves, and an hourly sweep delivers: a job,   *)
(* an invoice, a link and a revenue entry, each in a transaction of its    *)
(* own, guarded by what the row said when the delivery read it.  People    *)
(* book and decline meanwhile.  Every update of the row is by id alone.    *)
(***************************************************************************)
EXTENDS Naturals, FiniteSets, Sequences

CONSTANTS
    Requests,    \* rows of table cert_request
    Bookings,    \* bookings by the office, each with the inspection it may start (bound)
    MaxDeaths,   \* sweeps that throw, or whose process dies (bound)
    Unset

ASSUME CertAssumption == MaxDeaths \in Nat /\ Unset \notin Requests \cup Bookings

VARIABLES
    stripe,      \* tenant.stripe_account_id is set
    request,     \* table cert_request
    inspection,  \* inspection.status of the inspection a booking started
    booking,     \* calls of bookCertRequest
    declining,   \* the call of declineCertRequest under way
    certSweep,   \* the sweep under way: the rows it listed and the one it delivers
    bills,       \* invoices created for a request, in order
    links,       \* booking_link rows of a request
    entries,     \* <<request, kind>> for the source refs in partner_ledger_entry
    deaths,      \* sweeps that ended early
    past         \* what happened to the deliveries of a request (history)

people == <<booking, declining>>
sales  == <<bills, links, entries>>
certVars == <<stripe, request, inspection, people, certSweep, sales, deaths, past>>

-----------------------------------------------------------------------------
Status == {"requested", "booked", "inspected", "delivered", "declined"}
Fieldwork == {"none", "in_progress", "pending_approval", "approved"}
Delivering == {"job", "invoice", "stamp", "send", "code", "link", "revenue", "finish"}

RequestRow == [status : Status, inspection : Bookings \cup {Unset}, job : BOOLEAN,
               invoice : 0..MaxDeaths + 1,    \* which of its bills invoice_id names, 0 for none
               code : BOOLEAN]

BookingRow == [pc : {"idle", "appoint", "start", "done"}, of : Requests \cup {Unset}]
SweepRow == [pc : {"idle", "inspections", "loop"} \cup Delivering, todo : SUBSET Requests,
             listed : [Requests -> RequestRow], found : [Requests -> Fieldwork],
             at : Requests \cup {Unset}, row : RequestRow]
PastRow == [unstamped : Nat, unsent : BOOLEAN, stripeless : BOOLEAN,
            torn : BOOLEAN, declined : BOOLEAN, raced : BOOLEAN]

CertTypeOK ==
    /\ stripe \in BOOLEAN
    /\ request \in [Requests -> RequestRow]
    /\ inspection \in [Bookings -> Fieldwork]
    /\ booking \in [Bookings -> BookingRow]
    /\ declining \in [of : Requests \cup {Unset}, produced : BOOLEAN]
    /\ certSweep \in SweepRow
    /\ bills \in [Requests -> Seq({"draft", "sent"})]
    /\ \A c \in Requests : Len(bills[c]) <= MaxDeaths + 1
    /\ links \in [Requests -> Nat]
    /\ entries \subseteq Requests \X {"cert_sale", "cert_cost"}
    /\ deaths \in 0..MaxDeaths
    /\ past \in [Requests -> PastRow]

NewRequest == [status |-> "requested", inspection |-> Unset, job |-> FALSE, invoice |-> 0, code |-> FALSE]
NoSweep == [pc |-> "idle", todo |-> {}, listed |-> [c \in Requests |-> NewRequest],
            found |-> [c \in Requests |-> "none"], at |-> Unset, row |-> NewRequest]
NoDecline == [of |-> Unset, produced |-> FALSE]

CertInit ==
    /\ stripe \in BOOLEAN
    /\ request = [c \in Requests |-> NewRequest]
    /\ inspection = [b \in Bookings |-> "none"]
    /\ booking = [b \in Bookings |-> [pc |-> "idle", of |-> Unset]]
    /\ declining = NoDecline
    /\ certSweep = NoSweep
    /\ bills = [c \in Requests |-> <<>>] /\ links = [c \in Requests |-> 0] /\ entries = {}
    /\ deaths = 0
    /\ past = [c \in Requests |-> [unstamped |-> 0, unsent |-> FALSE, stripeless |-> FALSE,
                                   torn |-> FALSE, declined |-> FALSE, raced |-> FALSE]]

FieldworkOf(b) == IF b = Unset THEN "none" ELSE inspection[b]
IsCompleted(b) == FieldworkOf(b) \in {"pending_approval", "approved"}
IsApproved(b) == FieldworkOf(b) = "approved"
SweepTo(pc) == certSweep' = [certSweep EXCEPT !.pc = pc]

-----------------------------------------------------------------------------
(* The office and the inspector.                                           *)

ConnectAccount ==
    /\ ~stripe /\ stripe' = TRUE
    /\ UNCHANGED <<request, inspection, people, certSweep, sales, deaths, past>>

BookRead(b, c) ==
    /\ booking[b].pc = "idle" /\ request[c].status = "requested"
    /\ booking' = [booking EXCEPT ![b] = [pc |-> "appoint", of |-> c]]
    /\ UNCHANGED <<stripe, request, inspection, declining, certSweep, sales, deaths, past>>

\* bookAppointment commits, or throws: the slot is taken, no license.
Appoint(b) ==
    /\ booking[b].pc = "appoint"
    /\ \E pc \in {"start", "done"} : booking' = [booking EXCEPT ![b].pc = pc]
    /\ UNCHANGED <<stripe, request, inspection, declining, certSweep, sales, deaths, past>>

StartInspection(b) ==
    LET c == booking[b].of IN
    /\ booking[b].pc = "start"
    /\ inspection' = [inspection EXCEPT ![b] = "in_progress"]
    /\ request' = [request EXCEPT ![c].status = "booked", ![c].inspection = b]
    /\ booking' = [booking EXCEPT ![b].pc = "done"]
    /\ past' = [past EXCEPT ![c].raced = @ \/ request[c].status # "requested"]
    /\ UNCHANGED <<stripe, declining, certSweep, sales, deaths>>

CompleteInspection(b) ==
    /\ inspection[b] = "in_progress"
    /\ inspection' = [inspection EXCEPT ![b] = "pending_approval"]
    /\ UNCHANGED <<stripe, request, people, certSweep, sales, deaths, past>>

ApproveInspection(b) ==
    /\ inspection[b] = "pending_approval"
    /\ inspection' = [inspection EXCEPT ![b] = "approved"]
    /\ UNCHANGED <<stripe, request, people, certSweep, sales, deaths, past>>

DeclineRead(c) ==
    /\ declining.of = Unset /\ request[c].status \notin {"delivered", "declined"}
    /\ declining' = [of |-> c, produced |-> IsCompleted(request[c].inspection)]
    /\ UNCHANGED <<stripe, request, inspection, booking, certSweep, sales, deaths, past>>

\* The sweep found c booked, and its fieldwork done if it has looked at that yet.
Marking(c) ==
    /\ certSweep.listed[c].status = "booked"
    /\ certSweep.pc = "inspections" \/ certSweep.found[c] = "pending_approval"

\* Something that read c before the decline may write it yet, or has sold it already.
OthersAct(c) ==
    \/ \E b \in Bookings : booking[b].of = c /\ booking[b].pc \in {"appoint", "start"}
    \/ certSweep.pc \in Delivering /\ certSweep.at = c
    \/ c \in certSweep.todo /\ Marking(c)
    \/ request[c].status = "delivered"

DeclineWrite ==
    LET c == declining.of IN
    /\ c # Unset
    /\ request' = [request EXCEPT ![c].status = "declined"]
    /\ entries' = IF declining.produced THEN entries \cup {<<c, "cert_cost">>} ELSE entries
    /\ past' = [past EXCEPT ![c].declined = TRUE, ![c].raced = @ \/ OthersAct(c)]
    /\ declining' = NoDecline
    /\ UNCHANGED <<stripe, inspection, booking, certSweep, bills, links, deaths>>

-----------------------------------------------------------------------------
(* sweepCertRequests: one at a time, an hour apart.                        *)

OpenBug == {c \in Requests : request[c].status = "inspected"}     \* mutant: booked rows are left out
Open == {c \in Requests : request[c].status \in {"booked", "inspected"}}

List ==
    /\ certSweep.pc = "idle" /\ Open # {}
    /\ certSweep' = [certSweep EXCEPT !.pc = "inspections", !.todo = Open, !.listed = request]
    /\ UNCHANGED <<stripe, request, inspection, people, sales, deaths, past>>

ReadInspections ==
    /\ certSweep.pc = "inspections"
    /\ certSweep' = [certSweep EXCEPT !.pc = "loop",
          !.found = [c \in Requests |-> FieldworkOf(certSweep.listed[c].inspection)]]
    /\ UNCHANGED <<stripe, request, inspection, people, sales, deaths, past>>

Marks(c) == certSweep.found[c] = "pending_approval" /\ certSweep.listed[c].status = "booked"

\* Done with the row it delivers.
Onward == [certSweep EXCEPT !.pc = "loop", !.at = Unset, !.row = NewRequest]

\* Advances the row, or leaves it alone.
Mark(c) ==
    /\ certSweep.pc = "loop" /\ c \in certSweep.todo /\ certSweep.found[c] # "approved"
    /\ IF Marks(c) THEN request' = [request EXCEPT ![c].status = "inspected"] ELSE UNCHANGED request
    /\ certSweep' = [certSweep EXCEPT !.todo = @ \ {c}]
    /\ UNCHANGED <<stripe, inspection, people, sales, deaths, past>>

SweepEnds ==
    /\ certSweep.pc = "loop" /\ certSweep.todo = {}
    /\ certSweep' = NoSweep
    /\ UNCHANGED <<stripe, request, inspection, people, sales, deaths, past>>

-----------------------------------------------------------------------------
(* deliverCertRequest.  What the row says is read once, at the start.      *)

Refused(row) == row.status = "declined" \/ ~IsApproved(row.inspection)

DeliverRow(c) ==
    /\ certSweep.pc = "loop" /\ c \in certSweep.todo /\ certSweep.found[c] = "approved"
    /\ certSweep' = IF Refused(request[c]) THEN [certSweep EXCEPT !.todo = @ \ {c}]
                    ELSE [certSweep EXCEPT !.todo = @ \ {c}, !.at = c, !.row = request[c], !.pc = "job"]
    /\ UNCHANGED <<stripe, request, inspection, people, sales, deaths, past>>

CreateJob ==
    /\ certSweep.pc = "job"
    /\ IF certSweep.row.job THEN UNCHANGED request ELSE request' = [request EXCEPT ![certSweep.at].job = TRUE]
    /\ SweepTo("invoice")
    /\ UNCHANGED <<stripe, inspection, people, sales, deaths, past>>

BilledBug(row) == FALSE                                   \* mutant: the stamp is not looked at
Billed(row) == row.invoice # 0

CreateBill ==
    LET c == certSweep.at IN
    /\ certSweep.pc = "invoice"
    /\ bills' = IF Billed(certSweep.row) THEN bills ELSE [bills EXCEPT ![c] = Append(@, "draft")]
    /\ SweepTo(IF Billed(certSweep.row) THEN "code" ELSE "stamp")
    /\ UNCHANGED <<stripe, request, inspection, people, links, entries, deaths, past>>

StampBill ==
    LET c == certSweep.at IN
    /\ certSweep.pc = "stamp"
    /\ request' = [request EXCEPT ![c].invoice = Len(bills[c])]
    /\ SweepTo("send")
    /\ UNCHANGED <<stripe, inspection, people, sales, deaths, past>>

\* sendInvoice; StripeNotConnectedError is swallowed.
SendBill ==
    LET c == certSweep.at IN
    /\ certSweep.pc = "send"
    /\ bills' = [bills EXCEPT ![c][Len(bills[c])] = IF stripe THEN "sent" ELSE "draft"]
    /\ past' = [past EXCEPT ![c].stripeless = ~stripe]
    /\ SweepTo("code")
    /\ UNCHANGED <<stripe, request, inspection, people, links, entries, deaths>>

\* A row of the same token is found before another code is minted.
Minted(c) == links[c] > 0
MintCode ==
    LET c == certSweep.at IN
    /\ certSweep.pc = "code"
    /\ IF certSweep.row.code \/ Minted(c) THEN UNCHANGED links ELSE links' = [links EXCEPT ![c] = @ + 1]
    /\ SweepTo(IF certSweep.row.code THEN "revenue" ELSE "link")
    /\ UNCHANGED <<stripe, request, inspection, people, bills, entries, deaths, past>>

StampCode ==
    /\ certSweep.pc = "link"
    /\ request' = [request EXCEPT ![certSweep.at].code = TRUE]
    /\ SweepTo("revenue")
    /\ UNCHANGED <<stripe, inspection, people, sales, deaths, past>>

AccrueSale ==
    /\ certSweep.pc = "revenue"
    /\ entries' = entries \cup {<<certSweep.at, "cert_sale">>}
    /\ SweepTo("finish")
    /\ UNCHANGED <<stripe, request, inspection, people, bills, links, deaths, past>>

Finish ==
    /\ certSweep.pc = "finish"
    /\ request' = [request EXCEPT ![certSweep.at].status = "delivered"]
    /\ certSweep' = Onward
    /\ UNCHANGED <<stripe, inspection, people, sales, deaths, past>>

\* What an early end leaves behind: a bill nobody names, a bill nobody sends.
Leaves(row, pc) ==
    [row EXCEPT !.unstamped = IF pc = "stamp" THEN @ + 1 ELSE @,
                !.unsent = @ \/ pc = "send", !.torn = @ \/ pc \in Delivering \ {"job"}]

\* Five codes in a row are taken: link_generation_failed, and the loop goes on.
NoCode ==
    /\ certSweep.pc = "code" /\ ~certSweep.row.code /\ ~Minted(certSweep.at)
    /\ deaths < MaxDeaths /\ deaths' = deaths + 1
    /\ past' = [past EXCEPT ![certSweep.at] = Leaves(@, "code")]
    /\ certSweep' = Onward
    /\ UNCHANGED <<stripe, request, inspection, people, sales>>

SweepDies ==
    /\ certSweep.pc # "idle"
    /\ deaths < MaxDeaths /\ deaths' = deaths + 1
    /\ past' = IF certSweep.pc \in Delivering
                  THEN [past EXCEPT ![certSweep.at] = Leaves(@, certSweep.pc)] ELSE past
    /\ certSweep' = NoSweep
    /\ UNCHANGED <<stripe, request, inspection, people, sales>>

-----------------------------------------------------------------------------
CertSweepStep ==
    \/ List \/ ReadInspections \/ SweepEnds
    \/ \E c \in Requests : Mark(c) \/ DeliverRow(c)
    \/ CreateJob \/ CreateBill \/ StampBill \/ SendBill \/ MintCode \/ StampCode
    \/ AccrueSale \/ Finish

CertNext ==
    \/ ConnectAccount
    \/ \E b \in Bookings : \/ \E c \in Requests : BookRead(b, c)
                           \/ Appoint(b) \/ StartInspection(b)
                           \/ CompleteInspection(b) \/ ApproveInspection(b)
    \/ \E c \in Requests : DeclineRead(c)
    \/ DeclineWrite
    \/ CertSweepStep \/ NoCode \/ SweepDies

CertSpec == CertInit /\ [][CertNext]_certVars
\* The cron comes every hour, and a sweep that failed is followed by the next one.
CertFairSpec == CertSpec /\ WF_certVars(CertSweepStep)

-----------------------------------------------------------------------------
\* What is delivered was inspected and approved, has its job, its bill and one link, and is
\* in the partner's ledger, whatever died on the way and whoever booked again meanwhile.
DeliveredIsComplete ==
    \A c \in Requests : request[c].status = "delivered" =>
        /\ request[c].job /\ request[c].invoice \in 1..Len(bills[c]) /\ request[c].code /\ links[c] = 1
        /\ <<c, "cert_sale">> \in entries
        /\ \E b \in Bookings : booking[b].of = c /\ IsApproved(b)

\* Replays bill a request once, but for each death before the bill was named in the row; and
\* the bill it names stays a draft only if Stripe was missing or the sending failed.
BilledOncePerDeath ==
    \A c \in Requests :
        /\ Len(bills[c]) <= past[c].unstamped + 1
        /\ Cardinality({n \in 1..Len(bills[c]) : bills[c][n] = "sent"}) <= 1
        /\ request[c].status = "delivered" /\ bills[c][request[c].invoice] = "draft" =>
              past[c].unsent \/ past[c].stripeless

\* A decline stands, unless a booking, a sweep or a delivery had read the row before it, or a
\* second booking reopened it; and what stands declined was sold in part at most, by a delivery
\* that failed half way.
DeclineStands ==
    \A c \in Requests : past[c].declined /\ ~past[c].raced =>
        /\ request[c].status = "declined"
        /\ ~past[c].torn => ~request[c].job /\ bills[c] = <<>> /\ links[c] = 0
                            /\ <<c, "cert_sale">> \notin entries

\* The cost of a certificate is the partner's only if it was produced and declined.
CostIsProduced ==
    \A c \in Requests : <<c, "cert_cost">> \in entries =>
        past[c].declined /\ \E b \in Bookings : booking[b].of = c /\ IsCompleted(b)

-----------------------------------------------------------------------------
(* What makes those invariants inductive.                                  *)

Freed(c) == ~(certSweep.pc \in Delivering /\ certSweep.at = c)
At(c, pc) == certSweep.pc = pc /\ certSweep.at = c
NothingSold(c) == ~request[c].job /\ bills[c] = <<>> /\ links[c] = 0 /\ <<c, "cert_sale">> \notin entries

\* A booking under way knows its request, and a row names an inspection its booking started.
BookingsLinked ==
    \A b \in Bookings :
        /\ booking[b].pc # "idle" => booking[b].of \in Requests
        /\ inspection[b] # "none" => booking[b].pc = "done"
        /\ \A c \in Requests : request[c].inspection = b =>
              booking[b].of = c /\ booking[b].pc = "done" /\ inspection[b] # "none"

\* The stamps a delivery has set by the step it has reached, and those it read.
DeliveryLinked ==
    LET c == certSweep.at IN
    certSweep.pc \in Delivering =>
        /\ c \in Requests \ certSweep.todo /\ request[c].status # "delivered"
        /\ certSweep.row.inspection \in Bookings /\ IsApproved(certSweep.row.inspection)
        /\ booking[certSweep.row.inspection].of = c
        /\ certSweep.pc # "job" \/ certSweep.row.job => request[c].job
        /\ certSweep.pc \in {"job", "invoice"} => certSweep.row.invoice = request[c].invoice
        /\ certSweep.pc = "stamp" => request[c].invoice = 0
        /\ certSweep.pc \in {"send", "code", "link", "revenue", "finish"} => request[c].invoice # 0
        /\ certSweep.row.code => request[c].code
        /\ certSweep.pc = "link" => links[c] = 1
        /\ certSweep.pc \in {"revenue", "finish"} => request[c].code
        /\ certSweep.pc = "finish" => <<c, "cert_sale">> \in entries

\* The row names the last bill or none; a bill more than that was left by a death.
BillNamed(c) ==
    /\ request[c].invoice \in {0, Len(bills[c])}
    /\ Len(bills[c]) = past[c].unstamped
                        + IF request[c].invoice # 0 \/ At(c, "stamp") THEN 1 ELSE 0
    /\ past[c].unstamped <= deaths

BillSent(c) ==
    /\ \A n \in 1..Len(bills[c]) : bills[c][n] = "sent" => n = request[c].invoice
    /\ request[c].invoice # 0 /\ bills[c][request[c].invoice] = "draft" =>
          past[c].unsent \/ past[c].stripeless \/ At(c, "send")

LinkedOnce(c) == links[c] <= 1 /\ (request[c].code => links[c] = 1)

\* Nothing is sold before a delivery, nor by one that died at once; and a decline nobody
\* raced leaves nobody about to write the row.
SoldByDelivery(c) ==
    ~past[c].torn /\ ~past[c].raced /\ request[c].status # "delivered"
        /\ (Freed(c) \/ At(c, "job")) => NothingSold(c)

DeclineLasts(c) ==
    past[c].declined /\ ~past[c].raced =>
        /\ request[c].status = "declined" /\ Freed(c)
        /\ c \in certSweep.todo => ~Marking(c)

ProducedLinked ==
    declining.produced => \E b \in Bookings : booking[b].of = declining.of /\ IsCompleted(b)

NotYetDelivered == \A c \in certSweep.todo : request[c].status # "delivered"

CertsInductive ==
    /\ CertTypeOK /\ BookingsLinked /\ DeliveryLinked /\ ProducedLinked /\ NotYetDelivered
    /\ \A c \in Requests :
          BillNamed(c) /\ BillSent(c) /\ LinkedOnce(c) /\ SoldByDelivery(c) /\ DeclineLasts(c)
    /\ DeliveredIsComplete /\ CostIsProduced

-----------------------------------------------------------------------------
\* Certificate requests, their bills and the partner ledger agree through deaths of the sweep
\* and overlapping bookings and declines.
CertsInv == CertTypeOK /\ DeliveredIsComplete /\ BilledOncePerDeath /\ DeclineStands /\ CostIsProduced

\* "Delivery is automatic, never a button someone forgets": an approved inspection is
\* delivered in the end, unless the request is declined or booked on another inspection.
ApprovedIsDelivered ==
    \A c \in Requests :
        (request[c].status \in {"booked", "inspected"} /\ IsApproved(request[c].inspection))
            ~> (request[c].status \in {"delivered", "declined"} \/ ~IsApproved(request[c].inspection))

-----------------------------------------------------------------------------
(* What a comment says and the code does not do.                           *)

\* "Every step is stamp-guarded, so a replay or crash-resume is free": a certificate
\* delivered by a tenant that is connected to Stripe, and was when the invoice was to be sent,
\* has it sent.
DeliveredIsBilled ==
    \A c \in Requests : request[c].status = "delivered" /\ stripe /\ ~past[c].stripeless =>
        bills[c][request[c].invoice] = "sent"
=============================================================================
