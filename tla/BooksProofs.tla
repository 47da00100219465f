----------------------------- MODULE BooksProofs -----------------------------
(***************************************************************************)
(* The CRM's rows and the documents in QuickBooks agree, for any number of *)
(* invoices, payments, runs, attempts and failures; then the rows of agent *)
(* runs, and the suppliers' side of the books.                             *)
(*                                                                         *)
(* That a stored row is not copied again is a statement about counting: a  *)
(* copy is paid for either by a failed attempt or by a run that has moved  *)
(* past the call that creates it, and each attempt that found the row      *)
(* without a qbo_id creates at most one.  So are the claims against the    *)
(* suppliers: each start of a guard pays for one e-mail, one claim and one *)
(* credit, and each event still to come for one start.                     *)
(***************************************************************************)
EXTENDS Books, SupplierInvoices, FiniteSetTheorems, SequenceTheorems, TLAPS

\* The id is that of a document QBO holds of row w; no id stands for no row.
Refers(id, w) ==
    IF w = None THEN id = None
    ELSE id \in DocId /\ id[1] = w /\ \E e \in books : e.id = id

\* The row whose document a document of w refers to, or None.
Target(w) ==
    IF w \in Invoices THEN CustomerOf[w] ELSE IF w \in Payments THEN w[1] ELSE None

\* The ids a run carries from one call to the next are those of documents it found or made.
Linked(r) ==
    LET i == run[r].invoice
        c == CustomerOf[i] IN
    /\ run[r].pc # "idle" => i \in Invoices
    /\ run[r].pc \in {"ensure", "customer"} => run[r].customer = None
    /\ run[r].pc \in {"storeCustomer", "invoice", "storeInvoice"} => Refers(run[r].customer, c)
    /\ run[r].pc = "storeCustomer" => c # None
    /\ run[r].wrote => run[r].pc \in {"invoice", "storeInvoice"} /\ c # None
    /\ run[r].pc = "storeInvoice" => Refers(run[r].doc, i)
    /\ run[r].pc \in {"memo"} \cup PaymentPc => Refers(run[r].ensured, i) /\ stored[i] # None
    /\ run[r].pc = "storePayment" => Refers(run[r].doc, <<i, 1>>)

RunsAreLinked == \A r \in Runs : Linked(r)

\* Where a run may still come to create a document of w.
Before(w) ==
    CASE w \in Customers -> {"idle", "ensure", "customer"}
      [] w \in Invoices  -> {"idle", "ensure", "customer", "storeCustomer", "invoice"}
      [] OTHER           -> {"idle", "payment"} \cup EnsurePc

\* The runs past that point, and those that found invoice w without a qbo_id and have not
\* created its document yet.
Makers(w) == {r \in Runs : run[r].pc \notin Before(w)}
Pending(w) ==
    {r \in Runs : run[r].invoice = w /\ run[r].pc \in {"customer", "storeCustomer", "invoice"}}

\* What a copy is paid for with.
CopiesAreCounted ==
    /\ IsFiniteSet(books)
    /\ \A d \in books : d.id[2] <= Cardinality(Copies(d.id[1]))
    /\ \A w \in Rows : Cardinality(Copies(w)) <= failures + Cardinality(Makers(w))
    /\ \A w \in Rows : Cardinality(Copies(w)) + Cardinality(Pending(w)) <= missing[w]

\* The inductive invariant.
BooksInductive ==
    /\ received \in [Invoices -> Nat]
    /\ TypeOK
    /\ RunsAreLinked
    /\ CopiesAreCounted
    /\ BooksAreLinked
    /\ StoredIsBooked

-----------------------------------------------------------------------------
(* The rows.                                                               *)

LEMMA InvoiceRows ==
  ASSUME NEW i \in Invoices
  PROVE  /\ i \in Rows /\ i # None /\ i \notin Customers /\ i \notin Payments
         /\ <<i, 1>> \in Payments /\ <<i, 1>> \in Rows
         /\ <<i, 1>> \notin Invoices /\ <<i, 1>> \notin Customers
         /\ CustomerOf[i] \in Customers \cup {None}
         /\ Target(i) = CustomerOf[i] /\ Target(<<i, 1>>) = i
<1>1. 1 \in 1..Installments[i]
  BY InstallmentsAssumption
<1>2. <<i, 1>> \in Payments
  BY <1>1 DEF Payments
<1>3. QED
  BY <1>2, RowsAssumption, CustomerAssumption DEF Rows, Target

LEMMA CustomerRows ==
  ASSUME NEW c \in Customers
  PROVE  c \in Rows /\ c # None /\ c \notin Invoices /\ c \notin Payments /\ Target(c) = None
BY RowsAssumption DEF Rows, Target

LEMMA PaymentRows ==
  ASSUME NEW p \in Payments
  PROVE  /\ p[1] \in Invoices /\ p \in Rows /\ p \notin Customers /\ p \notin Invoices
         /\ Target(p) = p[1]
<1>1. PICK i \in Invoices : \E k \in 1..Installments[i] : p = <<i, k>>
  BY DEF Payments
<1>2. QED
  BY <1>1, RowsAssumption DEF Rows, Target

(* The books are linked when every document refers to its target.          *)
LEMMA LinkedBooks ==
  ASSUME TypeOK
  PROVE  BooksAreLinked <=> \A d \in books : Refers(d.ref, Target(d.id[1]))
<1>1. \A d \in books : d.ref \in DocId \cup {None}
  BY DEF TypeOK, Doc
<1>2. QED
  BY <1>1, DocsAssumption DEF BooksAreLinked, Refers, Target

LEMMA LinkedBooksPrime ==
  ASSUME TypeOK'
  PROVE  BooksAreLinked' <=> \A d \in books' : Refers(d.ref, Target(d.id[1]))'
<1>1. \A d \in books' : d.ref \in DocId \cup {None}
  BY DEF TypeOK, Doc
<1>2. QED
  BY <1>1, DocsAssumption DEF BooksAreLinked, Refers, Target

(* Documents stay in the books.                                            *)
LEMMA RefersStays ==
  ASSUME NEW id, NEW w, Refers(id, w), books \subseteq books'
  PROVE  Refers(id, w)'
BY DEF Refers

-----------------------------------------------------------------------------
(* Counting runs and copies.                                               *)

LEMMA RunSubsets ==
  ASSUME NEW S \in SUBSET Runs, NEW T \in SUBSET Runs
  PROVE  /\ Cardinality(S) \in Nat
         /\ S \subseteq T => Cardinality(S) <= Cardinality(T)
<1>1. IsFiniteSet(S) /\ IsFiniteSet(T)
  BY LimitsAssumption, FS_Subset
<1>2. Cardinality(S) \in Nat
  BY <1>1, FS_CardinalityType
<1>3. ASSUME S \subseteq T PROVE Cardinality(S) <= Cardinality(T)
  BY <1>1, <1>3, FS_Subset
<1>4. QED BY <1>2, <1>3

LEMMA RunSets ==
  ASSUME NEW S \in SUBSET Runs, NEW T \in SUBSET Runs, NEW r \in Runs
  PROVE  /\ S \subseteq T \cup {r} => Cardinality(S) <= Cardinality(T) + 1
         /\ (S \cup {r} \subseteq T /\ r \notin S) => Cardinality(S) + 1 <= Cardinality(T)
<1>1. IsFiniteSet(S) /\ IsFiniteSet(T) /\ Cardinality(S) \in Nat /\ Cardinality(T) \in Nat
  BY LimitsAssumption, FS_Subset, RunSubsets
<1>2. Cardinality(T \cup {r}) \in {Cardinality(T), Cardinality(T) + 1}
  BY <1>1, FS_AddElement
<1>3. r \notin S => Cardinality(S \cup {r}) = Cardinality(S) + 1
  BY <1>1, FS_AddElement
<1>4. Cardinality(S) \in Nat /\ Cardinality(S \cup {r}) \in Nat
  BY RunSubsets
<1>5. S \subseteq T \cup {r} => Cardinality(S) <= Cardinality(T \cup {r})
  BY RunSubsets
<1>6. S \cup {r} \subseteq T => Cardinality(S \cup {r}) <= Cardinality(T)
  BY RunSubsets
<1>7. QED BY <1>1, <1>2, <1>3, <1>4, <1>5, <1>6

(* The copies of a row are finitely many, and their number is one QBO counts. *)
LEMMA CopiesFinite ==
  ASSUME TypeOK, CopiesAreCounted, NEW w \in Rows
  PROVE  /\ IsFiniteSet(Copies(w))
         /\ Cardinality(Copies(w)) \in Nat
         /\ Cardinality(Makers(w)) \in 0..Cardinality(Runs)
         /\ Cardinality(Pending(w)) \in Nat
<1>1. IsFiniteSet(Copies(w))
  BY FS_Subset DEF Copies, CopiesAreCounted
<1>2. Cardinality(Copies(w)) \in Nat
  BY <1>1, FS_CardinalityType
<1>3. IsFiniteSet(Makers(w)) /\ Cardinality(Makers(w)) <= Cardinality(Runs)
  BY LimitsAssumption, FS_Subset DEF Makers
<1>4. IsFiniteSet(Pending(w))
  BY LimitsAssumption, FS_Subset DEF Pending
<1>5. Cardinality(Runs) \in Nat /\ Cardinality(Makers(w)) \in Nat /\ Cardinality(Pending(w)) \in Nat
  BY <1>3, <1>4, LimitsAssumption, FS_CardinalityType
<1>6. QED BY <1>1, <1>2, <1>3, <1>5

(* A call that creates a document of w, made by a run that had not created   *)
(* one: QBO gives it an id it has not given.                                 *)
LEMMA CreateFacts ==
  ASSUME TypeOK, CopiesAreCounted, NEW w \in Rows, NEW r \in Runs, run[r].pc \in Before(w),
         NEW ref \in DocId \cup {None}, Create(w, ref)
  PROVE  /\ NewId(w) \in DocId /\ NewId(w)[1] = w
         /\ books' \subseteq Doc /\ books \subseteq books' /\ IsFiniteSet(books')
         /\ \E e \in books' : e.id = NewId(w)
         /\ Cardinality(Copies(w)') = Cardinality(Copies(w)) + 1
         /\ \A v \in Rows \ {w} : Copies(v)' = Copies(v)
         /\ \A d \in books' : d.id[2] <= Cardinality(Copies(d.id[1])')
<1> DEFINE n == Cardinality(Copies(w))
           new == [id |-> NewId(w), ref |-> ref]
<1>1. IsFiniteSet(Copies(w)) /\ n \in Nat /\ Cardinality(Makers(w)) \in 0..Cardinality(Runs)
  BY CopiesFinite
<1>2. /\ Makers(w) \in SUBSET Runs /\ Runs \in SUBSET Runs
      /\ Makers(w) \cup {r} \subseteq Runs /\ r \notin Makers(w)
  BY DEF Makers
<1>3. Cardinality(Runs) \in Nat /\ Cardinality(Makers(w)) + 1 <= Cardinality(Runs)
  BY <1>2, RunSubsets, RunSets
<1>4. n <= failures + Cardinality(Makers(w)) /\ failures \in 0..MaxFailures
  BY DEF CopiesAreCounted, TypeOK
<1>5. n + 1 \in 1..MaxFailures + Cardinality(Runs)
  BY <1>1, <1>3, <1>4, LimitsAssumption
<1>6. NewId(w) \in DocId /\ NewId(w)[1] = w /\ NewId(w)[2] = n + 1
  BY <1>5 DEF NewId, DocId
<1>7. new \in Doc /\ new.id = NewId(w)
  BY <1>6 DEF Doc
<1>8. books' = books \cup {new} /\ books \subseteq Doc /\ IsFiniteSet(books)
  BY DEF Create, TypeOK, CopiesAreCounted
<1>9. IsFiniteSet(books')
  BY <1>8, FS_AddElement
<1>10. new \notin Copies(w)
  BY <1>1, <1>6, <1>7 DEF Copies, CopiesAreCounted
<1>11. Copies(w)' = Copies(w) \cup {new}
  BY <1>6, <1>7, <1>8 DEF Copies
<1>12. Cardinality(Copies(w)') = n + 1
  BY <1>1, <1>10, <1>11, FS_AddElement
<1>13. \A v \in Rows \ {w} : Copies(v)' = Copies(v)
  BY <1>6, <1>7, <1>8 DEF Copies
<1>14. ASSUME NEW d \in books' PROVE d.id[2] <= Cardinality(Copies(d.id[1])')
  <2>1. CASE d = new
    BY <1>1, <1>6, <1>7, <1>12, <2>1
  <2>2. CASE d \in books
    <3>1. d.id[2] <= Cardinality(Copies(d.id[1])) /\ d.id[1] \in Rows /\ d.id[2] \in Nat
      BY <1>8, <2>2 DEF CopiesAreCounted, Doc, DocId
    <3>2. CASE d.id[1] = w
      <4>1. d.id[2] <= n BY <3>1, <3>2
      <4>2. QED BY <1>1, <1>12, <3>1, <3>2, <4>1
    <3>3. CASE d.id[1] # w
      BY <1>13, <3>1, <3>3
    <3>4. QED BY <3>2, <3>3
  <2>3. QED BY <1>8, <2>1, <2>2
<1>15. QED
  BY <1>6, <1>7, <1>8, <1>9, <1>12, <1>13, <1>14

-----------------------------------------------------------------------------
(* What each step of a run writes in its row.                              *)

Pcs == EnsurePc \cup PaymentPc \cup Ended \cup {"idle"}
OthersStay(r) == \A q \in Runs \ {r} : run'[q] = run[q]

\* The row of r takes the program counter pc and is otherwise as it was.
Moved(r, pc) ==
    /\ run' \in [Runs -> RunRow] /\ OthersStay(r)
    /\ run'[r].pc = pc /\ run'[r].event = run[r].event /\ run'[r].invoice = run[r].invoice
    /\ run'[r].tries = run[r].tries

(* A step writes one row of the table.                                     *)
LEMMA AnyRow ==
  ASSUME run \in [Runs -> RunRow], NEW r \in Runs, NEW row \in RunRow, run' = [run EXCEPT ![r] = row]
  PROVE  run' \in [Runs -> RunRow] /\ OthersStay(r) /\ run'[r] = row
BY DEF OthersStay

(* What the writes of the steps leave of the row, each with the part it sets. *)
LEMMA MoveRow ==
  ASSUME run \in [Runs -> RunRow], NEW r \in Runs, NEW pc \in Pcs,
         run' = [run EXCEPT ![r].pc = pc]
  PROVE  /\ Moved(r, pc)
         /\ run'[r].customer = run[r].customer /\ run'[r].wrote = run[r].wrote
         /\ run'[r].doc = run[r].doc /\ run'[r].ensured = run[r].ensured
<1> DEFINE row == [run[r] EXCEPT !.pc = pc]
<1>1. /\ row \in RunRow /\ row.pc = pc /\ row.event = run[r].event
      /\ row.invoice = run[r].invoice /\ row.tries = run[r].tries
      /\ row.customer = run[r].customer /\ row.wrote = run[r].wrote
      /\ row.doc = run[r].doc /\ row.ensured = run[r].ensured
  BY DEF RunRow, Pcs
<1>2. run' = [run EXCEPT ![r] = row]
  OBVIOUS
<1> HIDE DEF row
<1>3. run' \in [Runs -> RunRow] /\ OthersStay(r) /\ run'[r] = row
  BY <1>1, <1>2, AnyRow
<1>4. QED BY <1>1, <1>3 DEF Moved

LEMMA CustomerRow ==
  ASSUME run \in [Runs -> RunRow], NEW r \in Runs, NEW pc \in Pcs, NEW id \in DocId \cup {None},
         run' = [run EXCEPT ![r].pc = pc, ![r].customer = id]
  PROVE  /\ Moved(r, pc)
         /\ run'[r].customer = id /\ run'[r].wrote = run[r].wrote
         /\ run'[r].doc = run[r].doc /\ run'[r].ensured = run[r].ensured
<1> DEFINE row == [run[r] EXCEPT !.pc = pc, !.customer = id]
<1>1. /\ row \in RunRow /\ row.pc = pc /\ row.event = run[r].event
      /\ row.invoice = run[r].invoice /\ row.tries = run[r].tries
      /\ row.customer = id /\ row.wrote = run[r].wrote
      /\ row.doc = run[r].doc /\ row.ensured = run[r].ensured
  BY DEF RunRow, Pcs
<1>2. run' = [run EXCEPT ![r] = row]
  OBVIOUS
<1> HIDE DEF row
<1>3. run' \in [Runs -> RunRow] /\ OthersStay(r) /\ run'[r] = row
  BY <1>1, <1>2, AnyRow
<1>4. QED BY <1>1, <1>3 DEF Moved

LEMMA DocRow ==
  ASSUME run \in [Runs -> RunRow], NEW r \in Runs, NEW pc \in Pcs, NEW id \in DocId \cup {None},
         run' = [run EXCEPT ![r].pc = pc, ![r].doc = id]
  PROVE  /\ Moved(r, pc)
         /\ run'[r].customer = run[r].customer /\ run'[r].wrote = run[r].wrote
         /\ run'[r].doc = id /\ run'[r].ensured = run[r].ensured
<1> DEFINE row == [run[r] EXCEPT !.pc = pc, !.doc = id]
<1>1. /\ row \in RunRow /\ row.pc = pc /\ row.event = run[r].event
      /\ row.invoice = run[r].invoice /\ row.tries = run[r].tries
      /\ row.customer = run[r].customer /\ row.wrote = run[r].wrote
      /\ row.doc = id /\ row.ensured = run[r].ensured
  BY DEF RunRow, Pcs
<1>2. run' = [run EXCEPT ![r] = row]
  OBVIOUS
<1> HIDE DEF row
<1>3. run' \in [Runs -> RunRow] /\ OthersStay(r) /\ run'[r] = row
  BY <1>1, <1>2, AnyRow
<1>4. QED BY <1>1, <1>3 DEF Moved

LEMMA EnsuredRow ==
  ASSUME run \in [Runs -> RunRow], NEW r \in Runs, NEW pc \in Pcs, NEW id \in DocId \cup {None},
         run' = [run EXCEPT ![r].pc = pc, ![r].ensured = id]
  PROVE  /\ Moved(r, pc)
         /\ run'[r].customer = run[r].customer /\ run'[r].wrote = run[r].wrote
         /\ run'[r].doc = run[r].doc /\ run'[r].ensured = id
<1> DEFINE row == [run[r] EXCEPT !.pc = pc, !.ensured = id]
<1>1. /\ row \in RunRow /\ row.pc = pc /\ row.event = run[r].event
      /\ row.invoice = run[r].invoice /\ row.tries = run[r].tries
      /\ row.customer = run[r].customer /\ row.wrote = run[r].wrote
      /\ row.doc = run[r].doc /\ row.ensured = id
  BY DEF RunRow, Pcs
<1>2. run' = [run EXCEPT ![r] = row]
  OBVIOUS
<1> HIDE DEF row
<1>3. run' \in [Runs -> RunRow] /\ OthersStay(r) /\ run'[r] = row
  BY <1>1, <1>2, AnyRow
<1>4. QED BY <1>1, <1>3 DEF Moved

LEMMA WroteRow ==
  ASSUME run \in [Runs -> RunRow], NEW r \in Runs, NEW pc \in Pcs,
         run' = [run EXCEPT ![r].pc = pc, ![r].wrote = TRUE]
  PROVE  /\ Moved(r, pc)
         /\ run'[r].customer = run[r].customer /\ run'[r].wrote = TRUE
         /\ run'[r].doc = run[r].doc /\ run'[r].ensured = run[r].ensured
<1> DEFINE row == [run[r] EXCEPT !.pc = pc, !.wrote = TRUE]
<1>1. /\ row \in RunRow /\ row.pc = pc /\ row.event = run[r].event
      /\ row.invoice = run[r].invoice /\ row.tries = run[r].tries
      /\ row.customer = run[r].customer /\ row.wrote = TRUE
      /\ row.doc = run[r].doc /\ row.ensured = run[r].ensured
  BY DEF RunRow, Pcs
<1>2. run' = [run EXCEPT ![r] = row]
  OBVIOUS
<1> HIDE DEF row
<1>3. run' \in [Runs -> RunRow] /\ OthersStay(r) /\ run'[r] = row
  BY <1>1, <1>2, AnyRow
<1>4. QED BY <1>1, <1>3 DEF Moved

LEMMA CommitRow ==
  ASSUME run \in [Runs -> RunRow], NEW r \in Runs, NEW id \in DocId \cup {None},
         run' = [run EXCEPT ![r].pc = "memo", ![r].wrote = FALSE, ![r].ensured = id]
  PROVE  /\ Moved(r, "memo")
         /\ run'[r].customer = run[r].customer /\ run'[r].wrote = FALSE
         /\ run'[r].doc = run[r].doc /\ run'[r].ensured = id
<1> DEFINE row == [run[r] EXCEPT !.pc = "memo", !.wrote = FALSE, !.ensured = id]
<1>1. /\ row \in RunRow /\ row.pc = "memo" /\ row.event = run[r].event
      /\ row.invoice = run[r].invoice /\ row.tries = run[r].tries
      /\ row.customer = run[r].customer /\ row.wrote = FALSE /\ row.doc = run[r].doc
      /\ row.ensured = id
  BY DEF RunRow, EnsurePc
<1>2. run' = [run EXCEPT ![r] = row]
  OBVIOUS
<1> HIDE DEF row
<1>3. run' \in [Runs -> RunRow] /\ OthersStay(r) /\ run'[r] = row
  BY <1>1, <1>2, AnyRow
<1>4. QED BY <1>1, <1>3 DEF Moved

LEMMA RecordRow ==
  ASSUME run \in [Runs -> RunRow], NEW r \in Runs, NEW pc \in Pcs,
         run' = [run EXCEPT ![r].pc = pc, ![r].tries = 0]
  PROVE  /\ run' \in [Runs -> RunRow] /\ OthersStay(r)
         /\ run'[r].pc = pc /\ run'[r].invoice = run[r].invoice /\ run'[r].tries = 0
         /\ run'[r].customer = run[r].customer /\ run'[r].wrote = run[r].wrote
         /\ run'[r].doc = run[r].doc /\ run'[r].ensured = run[r].ensured
<1>1. 0 \in 0..MaxAttempts
  BY LimitsAssumption
<1> DEFINE row == [run[r] EXCEPT !.pc = pc, !.tries = 0]
<1>2. /\ row \in RunRow /\ row.pc = pc /\ row.invoice = run[r].invoice /\ row.tries = 0
      /\ row.customer = run[r].customer /\ row.wrote = run[r].wrote
      /\ row.doc = run[r].doc /\ row.ensured = run[r].ensured
  BY <1>1 DEF RunRow, Pcs
<1>3. run' = [run EXCEPT ![r] = row]
  OBVIOUS
<1> HIDE DEF row
<1>4. run' \in [Runs -> RunRow] /\ OthersStay(r) /\ run'[r] = row
  BY <1>2, <1>3, AnyRow
<1>5. QED BY <1>2, <1>4

LEMMA FailedRow ==
  ASSUME run \in [Runs -> RunRow], NEW r \in Runs, NEW pc \in Pcs,
         run[r].tries + 1 \in 0..MaxAttempts,
         run' = [run EXCEPT ![r].pc = pc, ![r].tries = @ + 1, ![r].wrote = FALSE,
                            ![r].customer = None, ![r].doc = None]
  PROVE  /\ run' \in [Runs -> RunRow] /\ OthersStay(r)
         /\ run'[r].pc = pc /\ run'[r].invoice = run[r].invoice
         /\ run'[r].tries = run[r].tries + 1
         /\ run'[r].customer = None /\ run'[r].wrote = FALSE
         /\ run'[r].doc = None /\ run'[r].ensured = run[r].ensured
<1> DEFINE row == [run[r] EXCEPT !.pc = pc, !.tries = @ + 1, !.wrote = FALSE,
                                 !.customer = None, !.doc = None]
<1>1. /\ row \in RunRow /\ row.pc = pc /\ row.invoice = run[r].invoice
      /\ row.tries = run[r].tries + 1 /\ row.customer = None /\ row.wrote = FALSE
      /\ row.doc = None /\ row.ensured = run[r].ensured
  BY DEF RunRow, Pcs
<1>2. run' = [run EXCEPT ![r] = row]
  OBVIOUS
<1> HIDE DEF row
<1>3. run' \in [Runs -> RunRow] /\ OthersStay(r) /\ run'[r] = row
  BY <1>1, <1>2, AnyRow
<1>4. QED BY <1>1, <1>3

LEMMA StartedRow ==
  ASSUME run \in [Runs -> RunRow], NEW r \in Runs, NEW e \in Events, NEW i \in Invoices,
         run' = [run EXCEPT ![r] = [IdleRow EXCEPT !.pc = "ensure", !.event = e, !.invoice = i]]
  PROVE  /\ run' \in [Runs -> RunRow] /\ OthersStay(r)
         /\ run'[r].pc = "ensure" /\ run'[r].invoice = i /\ run'[r].tries = 0
         /\ run'[r].customer = None /\ run'[r].wrote = FALSE
<1> DEFINE row == [IdleRow EXCEPT !.pc = "ensure", !.event = e, !.invoice = i]
<1>1. 0 \in 0..MaxAttempts
  BY LimitsAssumption
<1>2. /\ IdleRow \in RunRow /\ IdleRow.customer = None /\ IdleRow.wrote = FALSE
      /\ IdleRow.tries = 0
  BY <1>1 DEF IdleRow, RunRow, Events
<1>3. /\ row \in RunRow /\ row.pc = "ensure" /\ row.invoice = i /\ row.tries = 0
      /\ row.customer = None /\ row.wrote = FALSE
  <2> HIDE DEF IdleRow
  <2>1. QED BY <1>2 DEF RunRow, EnsurePc
<1>4. run' = [run EXCEPT ![r] = row]
  OBVIOUS
<1> HIDE DEF row
<1>5. QED BY <1>3, <1>4 DEF OthersStay

-----------------------------------------------------------------------------
(* What a step keeps, told from what it does to the books and to one row.  *)

LEMMA OthersLinked ==
  ASSUME RunsAreLinked, NEW r \in Runs, OthersStay(r), Linked(r)',
         books \subseteq books', \A w \in Rows : stored[w] # None => stored'[w] # None
  PROVE  RunsAreLinked'
<1> SUFFICES ASSUME NEW q \in Runs \ {r} PROVE Linked(q)'
  BY DEF RunsAreLinked
<1>1. run'[q] = run[q] /\ Linked(q)
  BY DEF OthersStay, RunsAreLinked
<1>2. PICK i : i = run[q].invoice
  OBVIOUS
<1>3. /\ Refers(run[q].customer, CustomerOf[i]) => Refers(run[q].customer, CustomerOf[i])'
      /\ Refers(run[q].doc, i) => Refers(run[q].doc, i)'
      /\ Refers(run[q].ensured, i) => Refers(run[q].ensured, i)'
      /\ Refers(run[q].doc, <<i, 1>>) => Refers(run[q].doc, <<i, 1>>)'
  BY <1>1 DEF Refers
<1>4. run[q].pc \in {"memo"} \cup PaymentPc => stored'[i] # None
  BY <1>1, <1>2, InvoiceRows DEF Linked, PaymentPc
<1>5. QED
  BY <1>1, <1>2, <1>3, <1>4 DEF Linked, Refers

LEMMA SetsMove ==
  ASSUME NEW r \in Runs, NEW w \in Rows, OthersStay(r)
  PROVE  /\ (run[r].pc \notin Before(w) => run'[r].pc \notin Before(w)) => Makers(w) \subseteq Makers(w)'
         /\ Makers(w) \subseteq Makers(w)' \cup {r}
         /\ (r \in Pending(w)' => r \in Pending(w)) => Pending(w)' \subseteq Pending(w)
         /\ Pending(w)' \subseteq Pending(w) \cup {r}
BY DEF OthersStay, Makers, Pending

LEMMA FoundFacts ==
  ASSUME TypeOK, NEW w \in Rows, FoundMissing(w)
  PROVE  /\ missing' \in [Rows -> Nat]
         /\ \A v \in Rows : missing[v] <= missing'[v]
         /\ stored[w] = None => missing'[w] = missing[w] + 1
BY DEF TypeOK, FoundMissing

(* The numbers a counting step starts from, and those it can end with.       *)
LEMMA CountNumbers ==
  ASSUME TypeOK, CopiesAreCounted, NEW w \in Rows
  PROVE  /\ Cardinality(Copies(w)) \in Nat /\ failures \in Nat /\ missing[w] \in Nat
         /\ Cardinality(Makers(w)) \in Nat /\ Cardinality(Makers(w)') \in Nat
         /\ Cardinality(Pending(w)) \in Nat /\ Cardinality(Pending(w)') \in Nat
         /\ Cardinality(Copies(w)) <= failures + Cardinality(Makers(w))
         /\ Cardinality(Copies(w)) + Cardinality(Pending(w)) <= missing[w]
         /\ Makers(w) \subseteq Makers(w)' => Cardinality(Makers(w)) <= Cardinality(Makers(w)')
         /\ Pending(w)' \subseteq Pending(w) => Cardinality(Pending(w)') <= Cardinality(Pending(w))
<1>1. /\ Makers(w) \in SUBSET Runs /\ Makers(w)' \in SUBSET Runs
      /\ Pending(w) \in SUBSET Runs /\ Pending(w)' \in SUBSET Runs
  BY DEF Makers, Pending
<1>2. /\ Cardinality(Makers(w)') \in Nat /\ Cardinality(Pending(w)') \in Nat
      /\ Makers(w) \subseteq Makers(w)' => Cardinality(Makers(w)) <= Cardinality(Makers(w)')
      /\ Pending(w)' \subseteq Pending(w) => Cardinality(Pending(w)') <= Cardinality(Pending(w))
  BY <1>1, RunSubsets
<1>3. /\ Cardinality(Copies(w)) \in Nat /\ Cardinality(Makers(w)) \in Nat
      /\ Cardinality(Pending(w)) \in Nat
  BY CopiesFinite
<1>4. /\ Cardinality(Copies(w)) <= failures + Cardinality(Makers(w))
      /\ Cardinality(Copies(w)) + Cardinality(Pending(w)) <= missing[w]
      /\ failures \in Nat /\ missing[w] \in Nat
  BY DEF CopiesAreCounted, TypeOK
<1>5. QED BY <1>2, <1>3, <1>4

LEMMA CountsQuiet ==
  ASSUME TypeOK, CopiesAreCounted, books' = books, failures' = failures,
         missing' \in [Rows -> Nat], \A w \in Rows : missing[w] <= missing'[w],
         \A w \in Rows : Makers(w) \subseteq Makers(w)',
         \A w \in Rows : Pending(w)' \subseteq Pending(w)
  PROVE  CopiesAreCounted'
<1>1. \A w : Copies(w)' = Copies(w)
  BY DEF Copies
<1>2. ASSUME NEW w \in Rows
      PROVE  /\ Cardinality(Copies(w)') <= failures' + Cardinality(Makers(w)')
             /\ Cardinality(Copies(w)') + Cardinality(Pending(w)') <= missing'[w]
  BY <1>1, CountNumbers
<1>3. QED
  BY <1>1, <1>2 DEF CopiesAreCounted

(* An invoice found without a qbo_id: one more attempt for one more pending.  *)
LEMMA CountsFound ==
  ASSUME TypeOK, CopiesAreCounted, books' = books, failures' = failures,
         NEW r \in Runs, NEW i \in Rows, OthersStay(r),
         missing' = [missing EXCEPT ![i] = @ + 1],
         \A w \in Rows : Makers(w) \subseteq Makers(w)',
         run'[r].invoice = i
  PROVE  CopiesAreCounted'
<1>1. \A w : Copies(w)' = Copies(w)
  BY DEF Copies
<1>2. ASSUME NEW w \in Rows
      PROVE  /\ Cardinality(Copies(w)') <= failures' + Cardinality(Makers(w)')
             /\ Cardinality(Copies(w)') + Cardinality(Pending(w)') <= missing'[w]
  <2>1. CASE w = i
    <3>1. Pending(w)' \subseteq Pending(w) \cup {r}
      BY SetsMove
    <3>2. Pending(w) \in SUBSET Runs /\ Pending(w)' \in SUBSET Runs
      BY DEF Pending
    <3>3. Cardinality(Pending(w)') <= Cardinality(Pending(w)) + 1
      BY <3>1, <3>2, RunSets
    <3>4. missing'[w] = missing[w] + 1
      BY <2>1 DEF TypeOK
    <3>5. QED BY <1>1, <3>3, <3>4, CountNumbers
  <2>2. CASE w # i
    <3>1. Pending(w)' \subseteq Pending(w)
      BY <2>2 DEF Pending, OthersStay
    <3>2. missing'[w] = missing[w]
      BY <2>2 DEF TypeOK
    <3>3. QED BY <1>1, <3>1, <3>2, CountNumbers
  <2>3. QED BY <2>1, <2>2
<1>3. QED
  BY <1>1, <1>2 DEF CopiesAreCounted

(* A document created: its maker is past the call, and either the attempt has *)
(* just been counted or it was pending.                                       *)
LEMMA CountsCreate ==
  ASSUME TypeOK, CopiesAreCounted, NEW w \in Rows, NEW r \in Runs, run[r].pc \in Before(w),
         NEW ref \in DocId \cup {None}, Create(w, ref), failures' = failures,
         missing' \in [Rows -> Nat], \A v \in Rows : missing[v] <= missing'[v],
         \A v \in Rows : Makers(v) \subseteq Makers(v)', r \in Makers(w)',
         \A v \in Rows : Pending(v)' \subseteq Pending(v),
         missing'[w] = missing[w] + 1 \/ r \in Pending(w) \ Pending(w)'
  PROVE  CopiesAreCounted'
<1>1. /\ IsFiniteSet(books') /\ \A d \in books' : d.id[2] <= Cardinality(Copies(d.id[1])')
      /\ Cardinality(Copies(w)') = Cardinality(Copies(w)) + 1
      /\ \A v \in Rows \ {w} : Copies(v)' = Copies(v)
  BY CreateFacts
<1>2. ASSUME NEW v \in Rows \ {w}
      PROVE  /\ Cardinality(Copies(v)') <= failures' + Cardinality(Makers(v)')
             /\ Cardinality(Copies(v)') + Cardinality(Pending(v)') <= missing'[v]
  BY <1>1, CountNumbers
<1>3. Cardinality(Copies(w)') <= failures' + Cardinality(Makers(w)')
  <2>1. Makers(w) \in SUBSET Runs /\ Makers(w)' \in SUBSET Runs
    BY DEF Makers
  <2>2. Makers(w) \cup {r} \subseteq Makers(w)' /\ r \notin Makers(w)
    BY DEF Makers
  <2>3. Cardinality(Makers(w)) + 1 <= Cardinality(Makers(w)')
    BY <2>1, <2>2, RunSets
  <2>4. QED BY <1>1, <2>3, CountNumbers
<1>4. Cardinality(Copies(w)') + Cardinality(Pending(w)') <= missing'[w]
  <2>1. CASE missing'[w] = missing[w] + 1
    BY <1>1, <2>1, CountNumbers
  <2>2. CASE r \in Pending(w) \ Pending(w)'
    <3>1. Pending(w) \in SUBSET Runs /\ Pending(w)' \in SUBSET Runs
      BY DEF Pending
    <3>2. Pending(w)' \cup {r} \subseteq Pending(w) /\ r \notin Pending(w)'
      BY <2>2
    <3>3. Cardinality(Pending(w)') + 1 <= Cardinality(Pending(w))
      BY <3>1, <3>2, RunSets
    <3>4. missing'[w] \in Nat /\ missing[w] <= missing'[w]
      OBVIOUS
    <3>5. QED BY <1>1, <3>3, <3>4, CountNumbers
  <2>3. QED BY <2>1, <2>2
<1>5. QED
  BY <1>1, <1>2, <1>3, <1>4 DEF CopiesAreCounted

(* An attempt fails: the run may come to the call once more.                  *)
LEMMA CountsFails ==
  ASSUME TypeOK, CopiesAreCounted, books' = books, failures' = failures + 1, missing' = missing,
         NEW r \in Runs, OthersStay(r),
         \A w \in Rows : Pending(w)' \subseteq Pending(w)
  PROVE  CopiesAreCounted'
<1>1. \A w : Copies(w)' = Copies(w)
  BY DEF Copies
<1>2. ASSUME NEW w \in Rows
      PROVE  /\ Cardinality(Copies(w)') <= failures' + Cardinality(Makers(w)')
             /\ Cardinality(Copies(w)') + Cardinality(Pending(w)') <= missing'[w]
  <2>1. Makers(w) \in SUBSET Runs /\ Makers(w)' \in SUBSET Runs
    BY DEF Makers
  <2>2. Makers(w) \subseteq Makers(w)' \cup {r}
    BY SetsMove
  <2>3. Cardinality(Makers(w)) <= Cardinality(Makers(w)') + 1
    BY <2>1, <2>2, RunSets
  <2>4. QED BY <1>1, <2>3, CountNumbers
<1>3. QED
  BY <1>1, <1>2 DEF CopiesAreCounted

(* A new document that refers to its target keeps the books linked.           *)
LEMMA LinkedCreate ==
  ASSUME TypeOK, TypeOK', BooksAreLinked, NEW w \in Rows, NEW ref, Create(w, ref),
         NewId(w)[1] = w, Refers(ref, Target(w))
  PROVE  BooksAreLinked'
<1> DEFINE new == [id |-> NewId(w), ref |-> ref]
<1>1. books' = books \cup {new} /\ new.id[1] = w /\ new.ref = ref
  BY DEF Create
<1>2. \A d \in books' : Refers(d.ref, Target(d.id[1]))
  BY <1>1, LinkedBooks
<1> HIDE DEF new
<1>3. ASSUME NEW d \in books' PROVE Refers(d.ref, Target(d.id[1]))'
  <2>1. PICK v : v = Target(d.id[1])
    OBVIOUS
  <2>2. Refers(d.ref, v)
    BY <1>2, <2>1
  <2>3. Refers(d.ref, v)'
    BY <1>1, <2>2, RefersStays
  <2>4. QED BY <2>1, <2>3 DEF Target
<1>4. QED
  BY <1>3, LinkedBooksPrime

LEMMA BookedStays ==
  ASSUME TypeOK, StoredIsBooked, stored' = stored, books \subseteq books'
  PROVE  StoredIsBooked'
BY DEF StoredIsBooked, Copies

LEMMA StoredRefers ==
  ASSUME TypeOK, StoredIsBooked, NEW w \in Rows, stored[w] # None
  PROVE  Refers(stored[w], w) /\ stored[w] \in DocId
<1>1. stored[w] \in DocId
  BY DEF TypeOK
<1>2. PICK d \in Copies(w) : d.id = stored[w]
  BY DEF StoredIsBooked
<1>3. w # None
  BY RowsAssumption
<1>4. QED
  BY <1>1, <1>2, <1>3 DEF Copies, Refers

(* A step that moves a run and leaves the world alone keeps the types.        *)
LEMMA MovedType ==
  ASSUME TypeOK, NEW r \in Runs, NEW pc \in Pcs, Moved(r, pc),
         pc \in EnsurePc \cup PaymentPc => run[r].pc \in EnsurePc \cup PaymentPc,
         UNCHANGED worldVars, failures' = failures, missing' \in [Rows -> Nat],
         stored' \in [Rows -> DocId \cup {None}], books' \subseteq Doc
  PROVE  TypeOK'
<1>1. /\ connected' = connected /\ announced' = announced /\ received' = received
  BY DEF worldVars
<1>2. ASSUME NEW q \in Runs, run'[q].pc \in EnsurePc \cup PaymentPc
      PROVE  run'[q].tries < MaxAttempts
  <2>1. CASE q = r
    BY <1>2, <2>1 DEF Moved, TypeOK
  <2>2. CASE q # r
    BY <1>2, <2>2 DEF Moved, OthersStay, TypeOK
  <2>3. QED BY <2>1, <2>2
<1>3. run' \in [Runs -> RunRow]
  BY DEF Moved
<1>4. QED
  BY <1>1, <1>2, <1>3 DEF TypeOK

(* Where each row may still come to be created.                               *)
LEMMA BeforeFacts ==
  /\ \A w \in Customers : Before(w) = {"idle", "ensure", "customer"}
  /\ \A w \in Invoices : Before(w) = {"idle", "ensure", "customer", "storeCustomer", "invoice"}
  /\ \A w \in Payments : Before(w) = {"idle", "payment"} \cup EnsurePc
<1>1. \A w \in Invoices : w \notin Customers
  BY InvoiceRows
<1>2. \A w \in Payments : w \notin Customers /\ w \notin Invoices
  BY PaymentRows
<1>3. QED
  BY <1>1, <1>2 DEF Before, EnsurePc

(* A run only moves past calls: whoever was past one still is.                *)
LEMMA MakersStay ==
  ASSUME NEW r \in Runs, NEW w \in Rows, OthersStay(r),
         \/ run[r].pc \in {"idle", "ensure", "customer"} /\ run'[r].pc \in Pcs
         \/ run[r].pc = "storeCustomer" /\ run'[r].pc = "invoice"
         \/ run[r].pc = "invoice" /\ run'[r].pc = "storeInvoice"
         \/ run[r].pc = "storeInvoice" /\ run'[r].pc = "memo"
         \/ run[r].pc = "memo" /\ run'[r].pc \in {"payment", "done"}
         \/ run[r].pc = "payment" /\ run'[r].pc \in {"storePayment", "done"}
         \/ run[r].pc \in PaymentPc /\ run'[r].pc \in {"memoPayment", "done"}
  PROVE  Makers(w) \subseteq Makers(w)'
<1>1. w \in Customers \cup Invoices \cup Payments
  BY DEF Rows
<1>2. run[r].pc \notin Before(w) => run'[r].pc \notin Before(w)
  BY <1>1, BeforeFacts DEF EnsurePc, PaymentPc
<1>3. QED
  BY <1>2, SetsMove

-----------------------------------------------------------------------------
(* One lemma for each action.                                              *)

LEMMA InitHolds == Init => BooksInductive
<1> SUFFICES ASSUME Init PROVE BooksInductive
  OBVIOUS
<1> USE DEF Init
<1>1. IdleRow \in RunRow /\ IdleRow.pc = "idle" /\ IdleRow.wrote = FALSE
  BY LimitsAssumption DEF IdleRow, RunRow, Events
<1>2. /\ "idle" \notin EnsurePc \cup PaymentPc
      /\ "idle" \notin {"ensure", "customer", "storeCustomer", "invoice", "storeInvoice", "memo"}
  BY DEF EnsurePc, PaymentPc
<1> HIDE DEF IdleRow
<1>3. received \in [Invoices -> Nat] /\ \A i \in Invoices : received[i] \in 0..Installments[i]
  BY InstallmentsAssumption
<1>4. TypeOK
  <2>1. connected \in BOOLEAN /\ announced \subseteq Events \X Invoices /\ books \subseteq Doc
    OBVIOUS
  <2>2. /\ stored \in [Rows -> DocId \cup {None}] /\ missing \in [Rows -> Nat]
        /\ failures \in 0..MaxFailures
    BY LimitsAssumption
  <2>3. /\ run \in [Runs -> RunRow]
        /\ \A r \in Runs : run[r].pc \in EnsurePc \cup PaymentPc => run[r].tries < MaxAttempts
    BY <1>1, <1>2
  <2>4. QED BY <1>3, <2>1, <2>2, <2>3 DEF TypeOK
<1>5. RunsAreLinked
  BY <1>1, <1>2 DEF RunsAreLinked, Linked
<1>6. CopiesAreCounted
  <2>1. IsFiniteSet(books) /\ \A w : Copies(w) = {}
    BY FS_EmptySet DEF Copies
  <2>2. ASSUME NEW w \in Rows
        PROVE  /\ Cardinality(Copies(w)) = 0 /\ Cardinality(Pending(w)) = 0
               /\ Cardinality(Makers(w)) \in Nat /\ missing[w] = 0 /\ failures = 0
    <3>1. Pending(w) = {} /\ Makers(w) \in SUBSET Runs
      BY <1>1 DEF Pending, Makers
    <3>2. QED BY <2>1, <3>1, FS_EmptySet, RunSubsets
  <2>3. QED BY <2>1, <2>2 DEF CopiesAreCounted
<1>7. BooksAreLinked /\ StoredIsBooked
  <2>1. \A p \in Payments : p \in Rows
    BY DEF Rows
  <2>2. QED BY <2>1 DEF BooksAreLinked, StoredIsBooked
<1>8. QED
  BY <1>3, <1>4, <1>5, <1>6, <1>7 DEF BooksInductive

(* Connecting, sending and receiving touch neither rows nor books.            *)
LEMMA WorldKeeps ==
  ASSUME BooksInductive,
         \/ Connect \/ (\E i \in Invoices : Send(i) \/ Receive(i)) \/ UNCHANGED vars
  PROVE  BooksInductive'
<1> USE DEF BooksInductive
<1>1. UNCHANGED <<stored, books, run, failures, missing>>
  BY DEF Connect, Send, Receive, vars
<1> DEFINE World == /\ connected' \in BOOLEAN /\ announced' \subseteq Events \X Invoices
                    /\ received' \in [Invoices -> Nat]
                    /\ \A i \in Invoices : received'[i] \in 0..Installments[i]
<1>2. World
  <2>1. CASE Connect \/ UNCHANGED vars
    BY <2>1 DEF Connect, vars, worldVars, TypeOK
  <2>2. ASSUME NEW i \in Invoices, Send(i) PROVE World
    BY <2>2 DEF Send, TypeOK, Events
  <2>3. ASSUME NEW i \in Invoices, Receive(i) PROVE World
    <3>1. /\ announced' \in {announced \cup {<<"invoice/paid", i>>}, announced}
          /\ connected' = connected
          /\ received' = [received EXCEPT ![i] = @ + 1] /\ received[i] < Installments[i]
      BY <2>3 DEF Receive
    <3>2. connected' \in BOOLEAN /\ announced' \subseteq Events \X Invoices
      BY <3>1 DEF TypeOK, Events
    <3>3. /\ received' \in [Invoices -> Nat]
          /\ \A j \in Invoices : received'[j] \in 0..Installments[j]
      <4>1. /\ received \in [Invoices -> Nat] /\ \A j \in Invoices : Installments[j] \in Nat
            /\ \A j \in Invoices : received[j] \in 0..Installments[j]
        BY InstallmentsAssumption DEF TypeOK
      <4>2. /\ received' \in [Invoices -> Nat] /\ received'[i] = received[i] + 1
            /\ \A j \in Invoices \ {i} : received'[j] = received[j]
        BY <3>1, <4>1
      <4>3. received'[i] \in 0..Installments[i]
        BY <3>1, <4>1, <4>2
      <4>4. QED BY <4>1, <4>2, <4>3
    <3>4. QED BY <3>2, <3>3
  <2>4. QED BY <2>1, <2>2, <2>3
<1>3. TypeOK'
  BY <1>1, <1>2 DEF TypeOK
<1>4. RunsAreLinked'
  BY <1>1 DEF RunsAreLinked, Linked, Refers
<1>5. CopiesAreCounted'
  BY <1>1 DEF CopiesAreCounted, Copies, Makers, Pending
<1>6. BooksAreLinked' /\ StoredIsBooked'
  BY <1>1 DEF BooksAreLinked, StoredIsBooked, Copies
<1>7. QED
  BY <1>2, <1>3, <1>4, <1>5, <1>6

LEMMA StartKeeps ==
  ASSUME BooksInductive, NEW r \in Runs, NEW e \in Events, NEW i \in Invoices, StartRun(r, e, i)
  PROVE  BooksInductive'
<1> USE DEF BooksInductive
<1>1. /\ UNCHANGED <<connected, announced, received, stored, books, failures, missing>>
      /\ run[r].pc = "idle"
  BY DEF StartRun, worldVars
<1>2. /\ run' \in [Runs -> RunRow] /\ OthersStay(r)
      /\ run'[r].pc = "ensure" /\ run'[r].invoice = i /\ run'[r].tries = 0
      /\ run'[r].customer = None /\ run'[r].wrote = FALSE
  BY StartedRow DEF StartRun, TypeOK
<1>3. TypeOK'
  <2>1. ASSUME NEW q \in Runs, run'[q].pc \in EnsurePc \cup PaymentPc
        PROVE  run'[q].tries < MaxAttempts
    <3>1. CASE q = r BY <1>2, <3>1, LimitsAssumption
    <3>2. CASE q # r BY <1>2, <2>1, <3>2 DEF OthersStay, TypeOK
    <3>3. QED BY <3>1, <3>2
  <2>2. QED BY <1>1, <1>2, <2>1 DEF TypeOK
<1>4. Linked(r)'
  BY <1>2 DEF Linked, PaymentPc
<1>5. RunsAreLinked'
  BY <1>1, <1>2, <1>4, OthersLinked
<1>6. ASSUME NEW w \in Rows
      PROVE  Makers(w) \subseteq Makers(w)' /\ Pending(w)' \subseteq Pending(w)
  <2>1. "ensure" \in Pcs
    BY DEF Pcs, EnsurePc
  <2>2. Makers(w) \subseteq Makers(w)'
    BY <1>1, <1>2, <2>1, MakersStay
  <2>3. r \notin Pending(w)'
    BY <1>2 DEF Pending
  <2>4. QED BY <1>2, <2>2, <2>3, SetsMove
<1>7. CopiesAreCounted'
  BY <1>1, <1>6, CountsQuiet DEF TypeOK
<1>8. BooksAreLinked' /\ StoredIsBooked'
  BY <1>1 DEF BooksAreLinked, StoredIsBooked, Copies
<1>9. QED
  BY <1>1, <1>3, <1>5, <1>7, <1>8

LEMMA EnsureKeeps ==
  ASSUME BooksInductive, NEW r \in Runs, Ensure(r)
  PROVE  BooksInductive'
<1>1. /\ received \in [Invoices -> Nat] /\ TypeOK /\ RunsAreLinked /\ CopiesAreCounted
      /\ BooksAreLinked /\ StoredIsBooked
  BY DEF BooksInductive
<1>2. PICK i : i = run[r].invoice
  OBVIOUS
<1>3. /\ run[r].pc = "ensure" /\ UNCHANGED <<worldVars, stored, books, failures>>
      /\ i \in Invoices /\ run[r].customer = None /\ run[r].wrote = FALSE
      /\ run \in [Runs -> RunRow]
  BY <1>1, <1>2 DEF Ensure, RunsAreLinked, Linked, TypeOK, RunRow
<1>4. i \in Rows /\ stored[i] \in DocId \cup {None} /\ missing \in [Rows -> Nat]
  BY <1>1, <1>3, InvoiceRows DEF TypeOK
<1>5. PICK pc \in {"skipped", "memo", "customer"}, id \in DocId \cup {None} :
        /\ pc = IF ~connected THEN "skipped" ELSE IF HasId(i) THEN "memo" ELSE "customer"
        /\ id = IF connected /\ HasId(i) THEN stored[i] ELSE None
        /\ pc \in Pcs /\ run' = [run EXCEPT ![r].pc = pc, ![r].ensured = id]
  BY <1>2, <1>4 DEF Ensure, Pcs, Ended, EnsurePc
<1>6. /\ Moved(r, pc) /\ run'[r].customer = None /\ run'[r].wrote = FALSE
      /\ run'[r].ensured = id
  <2>1. /\ pc \in Pcs /\ run' = [run EXCEPT ![r].pc = pc, ![r].ensured = id]
        /\ run \in [Runs -> RunRow] /\ id \in DocId \cup {None}
    BY <1>3, <1>5
  <2>2. /\ Moved(r, pc) /\ run'[r].customer = run[r].customer /\ run'[r].wrote = run[r].wrote
        /\ run'[r].ensured = id
    BY <2>1, EnsuredRow
  <2>3. QED BY <1>3, <2>2
<1>7. /\ run'[r].pc = pc /\ run'[r].invoice = i /\ OthersStay(r)
  BY <1>2, <1>6 DEF Moved
<1>8. missing' \in [Rows -> Nat] /\ \A w \in Rows : missing[w] <= missing'[w]
  BY <1>1, <1>2, <1>4, FoundFacts DEF Ensure
<1>9. TypeOK'
  <2>1. "ensure" \in EnsurePc /\ stored' \in [Rows -> DocId \cup {None}] /\ books' \subseteq Doc
    BY <1>1, <1>3 DEF EnsurePc, TypeOK
  <2>2. QED BY <1>1, <1>3, <1>5, <1>6, <1>8, <2>1, MovedType
<1>10. Linked(r)'
  <2>1. CASE pc = "memo"
    <3>1. Refers(stored[i], i) /\ stored[i] # None /\ id = stored[i]
      BY <1>1, <1>4, <1>5, <2>1, StoredRefers DEF HasId
    <3>2. Refers(id, i)'
      BY <1>3, <3>1 DEF Refers
    <3>3. QED
      BY <1>3, <1>6, <1>7, <2>1, <3>1, <3>2 DEF Linked, PaymentPc
  <2>2. CASE pc \in {"skipped", "customer"}
    BY <1>3, <1>6, <1>7, <2>2 DEF Linked, PaymentPc
  <2>3. QED BY <1>5, <2>1, <2>2
<1>11. RunsAreLinked'
  BY <1>1, <1>3, <1>7, <1>10, OthersLinked
<1>12. \A w \in Rows : Makers(w) \subseteq Makers(w)'
  BY <1>3, <1>5, <1>7, MakersStay
<1>13. CopiesAreCounted'
  <2>1. CASE pc = "customer"
    <3>1. missing' = [missing EXCEPT ![i] = @ + 1]
      BY <1>2, <1>5, <2>1 DEF Ensure, FoundMissing, HasId
    <3>2. QED
      BY <1>1, <1>3, <1>4, <1>7, <1>12, <3>1, CountsFound
  <2>2. CASE pc # "customer"
    <3>1. pc \in {"skipped", "memo"}
      BY <1>5, <2>2
    <3>2. \A w \in Rows : Pending(w)' \subseteq Pending(w)
      <4>1. \A w \in Rows : r \notin Pending(w)'
        BY <1>7, <3>1 DEF Pending
      <4>2. QED BY <1>7, <4>1, SetsMove
    <3>3. QED
      BY <1>1, <1>3, <1>8, <1>12, <3>2, CountsQuiet
  <2>3. QED BY <2>1, <2>2
<1>14. BooksAreLinked' /\ StoredIsBooked' /\ received' \in [Invoices -> Nat]
  BY <1>1, <1>3 DEF BooksAreLinked, StoredIsBooked, Copies, worldVars
<1>15. QED
  BY <1>9, <1>11, <1>13, <1>14 DEF BooksInductive

LEMMA EnsureCustomerKeeps ==
  ASSUME BooksInductive, NEW r \in Runs, EnsureCustomer(r)
  PROVE  BooksInductive'
<1>1. /\ received \in [Invoices -> Nat] /\ TypeOK /\ RunsAreLinked /\ CopiesAreCounted
      /\ BooksAreLinked /\ StoredIsBooked
  BY DEF BooksInductive
<1>2. PICK i, c : i = run[r].invoice /\ c = CustomerOf[i]
  OBVIOUS
<1>3. /\ run[r].pc = "customer" /\ UNCHANGED <<worldVars, stored, failures>>
      /\ i \in Invoices /\ run[r].customer = None /\ run[r].wrote = FALSE
      /\ run \in [Runs -> RunRow] /\ c \in Customers \cup {None}
  BY <1>1, <1>2, InvoiceRows DEF EnsureCustomer, RunsAreLinked, Linked, TypeOK, RunRow
<1>4. missing \in [Rows -> Nat] /\ stored \in [Rows -> DocId \cup {None}] /\ books \subseteq Doc
  BY <1>1 DEF TypeOK
<1>5. /\ "customer" \in EnsurePc /\ "customer" \in {"idle", "ensure", "customer"}
      /\ {"invoice", "storeCustomer"} \subseteq Pcs
  BY DEF EnsurePc, Pcs
\* What each of the three cases shows.
<1> DEFINE Case(pc, id) ==
             /\ Moved(r, pc) /\ run'[r].customer = id /\ run'[r].wrote = FALSE
             /\ books \subseteq books' /\ books' \subseteq Doc /\ Refers(id, c)'
             /\ missing' \in [Rows -> Nat]
<1>6. ASSUME NEW pc \in {"invoice", "storeCustomer"}, NEW id, Case(pc, id),
             pc = "storeCustomer" => c # None
      PROVE  /\ TypeOK' /\ RunsAreLinked' /\ StoredIsBooked'
             /\ \A w \in Rows : Makers(w) \subseteq Makers(w)'
             /\ \A w \in Rows : Pending(w)' \subseteq Pending(w)
             /\ received' \in [Invoices -> Nat]
  <2>1. /\ run'[r].pc = pc /\ run'[r].invoice = i /\ OthersStay(r) /\ pc \in Pcs
    BY <1>2, <1>5, <1>6 DEF Moved
  <2>2. TypeOK'
    BY <1>1, <1>3, <1>4, <1>5, <1>6, <2>1, MovedType
  <2>3. Linked(r)'
    BY <1>2, <1>3, <1>6, <2>1 DEF Linked, PaymentPc
  <2>4. RunsAreLinked'
    BY <1>1, <1>3, <1>6, <2>1, <2>3, OthersLinked
  <2>5. StoredIsBooked'
    BY <1>1, <1>3, <1>6, BookedStays
  <2>6. \A w \in Rows : Makers(w) \subseteq Makers(w)'
    BY <1>3, <2>1, MakersStay
  <2>7. \A w \in Rows : r \in Pending(w)' => r \in Pending(w)
    BY <1>2, <1>3, <2>1 DEF Pending
  <2>8. \A w \in Rows : Pending(w)' \subseteq Pending(w)
    BY <2>1, <2>7, SetsMove
  <2>9. received' \in [Invoices -> Nat]
    BY <1>1, <1>3 DEF worldVars
  <2>10. QED BY <2>2, <2>4, <2>5, <2>6, <2>8, <2>9
<1>7. CASE c = None
  <2>1. UNCHANGED <<books, missing>> /\ run' = [run EXCEPT ![r].pc = "invoice"]
    BY <1>2, <1>7 DEF EnsureCustomer, Move
  <2>2. Case("invoice", None)
    BY <1>3, <1>4, <1>5, <1>7, <2>1, MoveRow DEF Refers
  <2> HIDE DEF Case
  <2>3. /\ TypeOK' /\ RunsAreLinked' /\ StoredIsBooked'
        /\ \A w \in Rows : Makers(w) \subseteq Makers(w)'
        /\ \A w \in Rows : Pending(w)' \subseteq Pending(w)
        /\ received' \in [Invoices -> Nat]
    BY <1>6, <2>2
  <2>4. CopiesAreCounted'
    BY <1>1, <1>3, <1>4, <2>1, <2>3, CountsQuiet
  <2>5. BooksAreLinked'
    BY <1>1, <2>1 DEF BooksAreLinked
  <2>6. QED BY <2>3, <2>4, <2>5 DEF BooksInductive
<1>8. CASE c # None /\ HasId(c)
  <2>1. /\ UNCHANGED books /\ FoundMissing(c)
        /\ run' = [run EXCEPT ![r].pc = "invoice", ![r].customer = stored[c]]
    BY <1>2, <1>8 DEF EnsureCustomer
  <2>2. c \in Rows /\ stored[c] \in DocId /\ Refers(stored[c], c)
    BY <1>1, <1>3, <1>8, CustomerRows, StoredRefers DEF HasId
  <2>3. missing' \in [Rows -> Nat] /\ \A w \in Rows : missing[w] <= missing'[w]
    BY <1>1, <2>1, <2>2, FoundFacts
  <2>4. PICK id \in DocId : id = stored[c]
    BY <2>2
  <2>5. Refers(id, c)'
    BY <2>1, <2>2, <2>4 DEF Refers
  <2>6. Case("invoice", id)
    <3>1. run' = [run EXCEPT ![r].pc = "invoice", ![r].customer = id]
      BY <2>1, <2>4
    <3>2. Moved(r, "invoice") /\ run'[r].customer = id /\ run'[r].wrote = run[r].wrote
      <4>1. PICK cid \in DocId \cup {None} : cid = id
        OBVIOUS
      <4>2. PICK at \in Pcs : at = "invoice"
        BY <1>5
      <4>3. run \in [Runs -> RunRow] /\ run' = [run EXCEPT ![r].pc = at, ![r].customer = cid]
        BY <1>3, <3>1, <4>1, <4>2
      <4>4. Moved(r, at) /\ run'[r].customer = cid /\ run'[r].wrote = run[r].wrote
        BY <4>3, CustomerRow
      <4>5. QED BY <4>1, <4>2, <4>4
    <3>3. QED BY <1>3, <1>4, <2>1, <2>3, <2>5, <3>2
  <2> HIDE DEF Case
  <2>7. /\ TypeOK' /\ RunsAreLinked' /\ StoredIsBooked'
        /\ \A w \in Rows : Makers(w) \subseteq Makers(w)'
        /\ \A w \in Rows : Pending(w)' \subseteq Pending(w)
        /\ received' \in [Invoices -> Nat]
    BY <1>6, <2>6
  <2>8. CopiesAreCounted'
    BY <1>1, <1>3, <2>1, <2>3, <2>7, CountsQuiet
  <2>9. BooksAreLinked'
    BY <1>1, <2>1 DEF BooksAreLinked
  <2>10. QED BY <2>7, <2>8, <2>9 DEF BooksInductive
<1>9. CASE c # None /\ ~HasId(c)
  <2>1. /\ Create(c, None) /\ FoundMissing(c)
        /\ run' = [run EXCEPT ![r].pc = "storeCustomer", ![r].customer = NewId(c)]
    BY <1>2, <1>9 DEF EnsureCustomer
  <2>2. c \in Customers /\ c \in Rows /\ stored[c] = None /\ Target(c) = None /\ c # None
    BY <1>3, <1>9, CustomerRows DEF HasId
  <2>3. /\ missing' \in [Rows -> Nat] /\ \A w \in Rows : missing[w] <= missing'[w]
        /\ missing'[c] = missing[c] + 1
    BY <1>1, <2>1, <2>2, FoundFacts
  <2>4. run[r].pc \in Before(c) /\ "storeCustomer" \notin Before(c)
    BY <1>3, <2>2, BeforeFacts
  <2>5. /\ NewId(c) \in DocId /\ NewId(c)[1] = c
        /\ books' \subseteq Doc /\ books \subseteq books'
        /\ \E e \in books' : e.id = NewId(c)
    BY <1>1, <2>1, <2>2, <2>4, CreateFacts
  <2>6. PICK id \in DocId : id = NewId(c)
    BY <2>5
  <2>7. Refers(id, c)'
    BY <2>2, <2>5, <2>6 DEF Refers
  <2>8. Case("storeCustomer", id)
    <3>1. run' = [run EXCEPT ![r].pc = "storeCustomer", ![r].customer = id]
      BY <2>1, <2>6
    <3>2. Moved(r, "storeCustomer") /\ run'[r].customer = id /\ run'[r].wrote = run[r].wrote
      <4>1. PICK cid \in DocId \cup {None} : cid = id
        OBVIOUS
      <4>2. PICK at \in Pcs : at = "storeCustomer"
        BY <1>5
      <4>3. run \in [Runs -> RunRow] /\ run' = [run EXCEPT ![r].pc = at, ![r].customer = cid]
        BY <1>3, <3>1, <4>1, <4>2
      <4>4. Moved(r, at) /\ run'[r].customer = cid /\ run'[r].wrote = run[r].wrote
        BY <4>3, CustomerRow
      <4>5. QED BY <4>1, <4>2, <4>4
    <3>3. QED BY <1>3, <2>3, <2>5, <2>7, <3>2
  <2>9. r \in Makers(c)'
    BY <2>4, <2>8 DEF Makers, Moved, Before
  <2> HIDE DEF Case
  <2>10. /\ TypeOK' /\ RunsAreLinked' /\ StoredIsBooked'
         /\ \A w \in Rows : Makers(w) \subseteq Makers(w)'
         /\ \A w \in Rows : Pending(w)' \subseteq Pending(w)
         /\ received' \in [Invoices -> Nat]
    BY <1>6, <2>2, <2>8
  <2>11. CopiesAreCounted'
    BY <1>1, <1>3, <2>1, <2>2, <2>3, <2>4, <2>9, <2>10, CountsCreate
  <2>12. BooksAreLinked'
    BY <1>1, <2>1, <2>2, <2>5, <2>10, LinkedCreate DEF Refers
  <2>13. QED BY <2>10, <2>11, <2>12 DEF BooksInductive
<1>10. QED BY <1>7, <1>8, <1>9

LEMMA StoreCustomerKeeps ==
  ASSUME BooksInductive, NEW r \in Runs, StoreCustomer(r)
  PROVE  BooksInductive'
<1>1. /\ received \in [Invoices -> Nat] /\ TypeOK /\ RunsAreLinked /\ CopiesAreCounted
      /\ BooksAreLinked /\ StoredIsBooked
  BY DEF BooksInductive
<1>2. PICK i, c : i = run[r].invoice /\ c = CustomerOf[i]
  OBVIOUS
<1>3. /\ run[r].pc = "storeCustomer" /\ UNCHANGED <<worldVars, stored, books, failures, missing>>
      /\ i \in Invoices /\ Refers(run[r].customer, c) /\ c # None
      /\ run \in [Runs -> RunRow]
      /\ run' = [run EXCEPT ![r].pc = "invoice", ![r].wrote = TRUE]
  BY <1>1, <1>2 DEF StoreCustomer, RunsAreLinked, Linked, TypeOK
<1>4. "invoice" \in Pcs /\ "storeCustomer" \in EnsurePc
  BY DEF Pcs, EnsurePc
<1>5. Moved(r, "invoice") /\ run'[r].customer = run[r].customer /\ run'[r].wrote = TRUE
  BY <1>3, <1>4, WroteRow
<1>6. run'[r].pc = "invoice" /\ run'[r].invoice = i /\ OthersStay(r)
  BY <1>2, <1>5 DEF Moved
<1>7. TypeOK'
  <2>1. /\ stored' \in [Rows -> DocId \cup {None}] /\ books' \subseteq Doc
        /\ missing' \in [Rows -> Nat]
    BY <1>1, <1>3 DEF TypeOK
  <2>2. QED BY <1>1, <1>3, <1>4, <1>5, <2>1, MovedType
<1>8. Linked(r)'
  <2>1. PICK id : id = run[r].customer
    OBVIOUS
  <2>2. Refers(id, c)'
    BY <1>3, <2>1 DEF Refers
  <2>3. QED BY <1>2, <1>3, <1>5, <1>6, <2>1, <2>2 DEF Linked, PaymentPc
<1>9. RunsAreLinked'
  BY <1>1, <1>3, <1>6, <1>8, OthersLinked
<1>10. \A w \in Rows : Makers(w) \subseteq Makers(w)'
  BY <1>3, <1>6, MakersStay
<1>11. \A w \in Rows : Pending(w)' \subseteq Pending(w)
  <2>1. \A w \in Rows : r \in Pending(w)' => r \in Pending(w)
    BY <1>2, <1>3, <1>6 DEF Pending
  <2>2. QED BY <1>6, <2>1, SetsMove
<1>12. CopiesAreCounted'
  BY <1>1, <1>3, <1>10, <1>11, CountsQuiet DEF TypeOK
<1>13. BooksAreLinked' /\ StoredIsBooked' /\ received' \in [Invoices -> Nat]
  BY <1>1, <1>3 DEF BooksAreLinked, StoredIsBooked, Copies, worldVars
<1>14. QED
  BY <1>7, <1>9, <1>12, <1>13 DEF BooksInductive

LEMMA CreateInvoiceKeeps ==
  ASSUME BooksInductive, NEW r \in Runs, CreateInvoice(r)
  PROVE  BooksInductive'
<1>1. /\ received \in [Invoices -> Nat] /\ TypeOK /\ RunsAreLinked /\ CopiesAreCounted
      /\ BooksAreLinked /\ StoredIsBooked
  BY DEF BooksInductive
<1>2. PICK i, c, cu : i = run[r].invoice /\ c = CustomerOf[i] /\ cu = run[r].customer
  OBVIOUS
<1>3. /\ run[r].pc = "invoice" /\ UNCHANGED <<worldVars, stored, failures, missing>>
      /\ i \in Invoices /\ Refers(cu, c) /\ (run[r].wrote => c # None)
      /\ run \in [Runs -> RunRow] /\ cu \in DocId \cup {None} /\ Create(i, cu)
      /\ run' = [run EXCEPT ![r].pc = "storeInvoice", ![r].doc = NewId(i)]
  BY <1>1, <1>2 DEF CreateInvoice, RunsAreLinked, Linked, TypeOK, RunRow
<1>4. i \in Rows /\ i # None /\ Target(i) = c /\ i \notin Customers
  BY <1>2, <1>3, InvoiceRows
<1>5. /\ {"storeInvoice", "invoice"} \subseteq Pcs /\ "invoice" \in EnsurePc
      /\ run[r].pc \in Before(i) /\ "storeInvoice" \notin Before(i)
  BY <1>3, BeforeFacts DEF Pcs, EnsurePc
<1>6. /\ NewId(i) \in DocId /\ NewId(i)[1] = i /\ books' \subseteq Doc /\ books \subseteq books'
      /\ \E e \in books' : e.id = NewId(i)
  BY <1>1, <1>3, <1>4, <1>5, CreateFacts
<1>7. PICK id \in DocId \cup {None} : id = NewId(i)
  BY <1>6
<1>8. /\ Moved(r, "storeInvoice") /\ run'[r].customer = cu /\ run'[r].wrote = run[r].wrote
      /\ run'[r].doc = id
  <2>1. /\ "storeInvoice" \in Pcs /\ run \in [Runs -> RunRow]
        /\ run' = [run EXCEPT ![r].pc = "storeInvoice", ![r].doc = id]
    BY <1>3, <1>5, <1>7
  <2>2. QED BY <1>2, <2>1, DocRow
<1>9. run'[r].pc = "storeInvoice" /\ run'[r].invoice = i /\ OthersStay(r)
  BY <1>2, <1>8 DEF Moved
<1>10. TypeOK'
  <2>1. stored' \in [Rows -> DocId \cup {None}] /\ missing' \in [Rows -> Nat]
    BY <1>1, <1>3 DEF TypeOK
  <2>2. QED BY <1>1, <1>3, <1>5, <1>6, <1>8, <2>1, MovedType
<1>11. Linked(r)'
  <2>1. Refers(cu, c)' /\ Refers(id, i)'
    BY <1>3, <1>4, <1>6, <1>7 DEF Refers
  <2>2. QED BY <1>2, <1>3, <1>8, <1>9, <2>1 DEF Linked, PaymentPc
<1>12. RunsAreLinked'
  BY <1>1, <1>3, <1>6, <1>9, <1>11, OthersLinked
<1>13. \A w \in Rows : Makers(w) \subseteq Makers(w)'
  BY <1>3, <1>9, MakersStay
<1>14. \A w \in Rows : r \notin Pending(w)' /\ Pending(w)' \subseteq Pending(w)
  <2>1. \A w \in Rows : r \notin Pending(w)'
    BY <1>9 DEF Pending
  <2>2. QED BY <1>9, <2>1, SetsMove
<1>15. r \in Makers(i)' /\ r \in Pending(i)
  BY <1>2, <1>3, <1>5, <1>9 DEF Makers, Pending, Before
<1>16. CopiesAreCounted'
  BY <1>1, <1>3, <1>4, <1>5, <1>13, <1>14, <1>15, CountsCreate DEF TypeOK
<1>17. BooksAreLinked'
  BY <1>1, <1>3, <1>4, <1>6, <1>10, LinkedCreate
<1>18. StoredIsBooked' /\ received' \in [Invoices -> Nat]
  BY <1>1, <1>3, <1>6, BookedStays DEF worldVars
<1>19. QED
  BY <1>10, <1>12, <1>16, <1>17, <1>18 DEF BooksInductive

LEMMA StoreInvoiceKeeps ==
  ASSUME BooksInductive, NEW r \in Runs, StoreInvoice(r)
  PROVE  BooksInductive'
<1>1. /\ received \in [Invoices -> Nat] /\ TypeOK /\ RunsAreLinked /\ CopiesAreCounted
      /\ BooksAreLinked /\ StoredIsBooked
  BY DEF BooksInductive
<1>2. PICK i, c, cu, id : /\ i = run[r].invoice /\ c = CustomerOf[run[r].invoice]
                         /\ cu = run[r].customer /\ id = run[r].doc
  OBVIOUS
<1>3. /\ run[r].pc = "storeInvoice" /\ UNCHANGED <<worldVars, books, failures, missing>>
      /\ i \in Invoices /\ Refers(id, i) /\ Refers(cu, c) /\ (run[r].wrote => c # None)
      /\ run \in [Runs -> RunRow] /\ id \in DocId \cup {None}
      /\ run' = [run EXCEPT ![r].pc = "memo", ![r].wrote = FALSE, ![r].ensured = id]
  BY <1>1, <1>2 DEF StoreInvoice, RunsAreLinked, Linked, TypeOK, RunRow
<1>4. /\ i \in Rows /\ i # None /\ id \in DocId /\ id # None /\ c \in Customers \cup {None}
      /\ i \notin Customers /\ i \notin Payments
  BY <1>2, <1>3, InvoiceRows, DocsAssumption DEF Refers
<1>5. /\ stored \in [Rows -> DocId \cup {None}] /\ missing \in [Rows -> Nat] /\ books \subseteq Doc
  BY <1>1 DEF TypeOK
<1>6. run[r].wrote => /\ c \in Customers /\ c \in Rows /\ cu \in DocId /\ cu # None
                      /\ c \notin Payments
  BY <1>3, <1>4, CustomerRows, DocsAssumption DEF Refers
<1>7. /\ stored' = [w \in Rows |-> IF w = i THEN id
                                   ELSE IF run[r].wrote /\ w = c THEN cu ELSE stored[w]]
  BY <1>2 DEF StoreInvoice, Written
<1>8. \A w \in Rows :
        /\ stored'[w] \in DocId \cup {None}
        /\ stored[w] # None => stored'[w] # None
        /\ w \in Payments => stored'[w] = stored[w]
        /\ stored'[w] = stored[w] \/ (w = i /\ stored'[w] = id) \/ (w = c /\ c # None /\ stored'[w] = cu)
  <2> SUFFICES ASSUME NEW w \in Rows
               PROVE  /\ stored'[w] \in DocId \cup {None}
                      /\ stored[w] # None => stored'[w] # None
                      /\ w \in Payments => stored'[w] = stored[w]
                      /\ \/ stored'[w] = stored[w] \/ (w = i /\ stored'[w] = id)
                         \/ (w = c /\ c # None /\ stored'[w] = cu)
    OBVIOUS
  <2>1. stored[w] \in DocId \cup {None}
    BY <1>5
  <2>2. CASE w = i
    BY <1>4, <1>7, <2>2
  <2>3. CASE w # i /\ run[r].wrote /\ w = c
    <3>1. stored'[w] = cu
      BY <1>7, <2>3
    <3>2. c \in Customers /\ cu \in DocId /\ cu # None /\ c \notin Payments
      BY <1>6, <2>3
    <3>3. QED BY <2>3, <3>1, <3>2, CustomerRows
  <2>4. CASE w # i /\ ~(run[r].wrote /\ w = c)
    <3>1. stored'[w] = stored[w]
      BY <1>7, <2>4
    <3>2. QED BY <2>1, <3>1
  <2>5. QED BY <2>2, <2>3, <2>4
<1>9. stored' \in [Rows -> DocId \cup {None}] /\ stored'[i] = id
  BY <1>4, <1>7, <1>8
<1>10. /\ Moved(r, "memo") /\ run'[r].wrote = FALSE /\ run'[r].ensured = id
  <2>1. /\ run \in [Runs -> RunRow] /\ id \in DocId \cup {None}
        /\ run' = [run EXCEPT ![r].pc = "memo", ![r].wrote = FALSE, ![r].ensured = id]
    BY <1>3
  <2>2. QED BY <2>1, CommitRow
<1>11. run'[r].pc = "memo" /\ run'[r].invoice = i /\ OthersStay(r)
  BY <1>2, <1>10 DEF Moved
<1>12. TypeOK'
  <2>1. {"memo", "storeInvoice"} \subseteq EnsurePc /\ "memo" \in Pcs
    BY DEF Pcs, EnsurePc
  <2>2. books' \subseteq Doc /\ missing' \in [Rows -> Nat]
    BY <1>3, <1>5
  <2>3. QED BY <1>1, <1>3, <1>9, <1>10, <2>1, <2>2, MovedType
<1>13. Linked(r)'
  <2>1. Refers(id, i)' /\ stored'[i] # None
    BY <1>3, <1>4, <1>9 DEF Refers
  <2>2. QED BY <1>3, <1>10, <1>11, <2>1 DEF Linked, PaymentPc
<1>14. RunsAreLinked'
  BY <1>1, <1>3, <1>8, <1>11, <1>13, OthersLinked
<1>15. \A w \in Rows : Makers(w) \subseteq Makers(w)'
  BY <1>3, <1>11, MakersStay
<1>16. \A w \in Rows : Pending(w)' \subseteq Pending(w)
  <2>1. \A w \in Rows : r \notin Pending(w)'
    BY <1>11 DEF Pending
  <2>2. QED BY <1>11, <2>1, SetsMove
<1>17. CopiesAreCounted'
  BY <1>1, <1>3, <1>5, <1>15, <1>16, CountsQuiet
<1>18. BooksAreLinked' /\ received' \in [Invoices -> Nat]
  BY <1>1, <1>3 DEF BooksAreLinked, worldVars
<1>19. StoredIsBooked'
  <2>1. ASSUME NEW w \in Rows, stored'[w] # None PROVE \E d \in Copies(w)' : d.id = stored'[w]
    <3>1. Copies(w)' = Copies(w)
      BY <1>3 DEF Copies
    <3>2. stored'[w] = stored[w] \/ Refers(stored'[w], w)
      BY <1>3, <1>8
    <3>3. CASE stored'[w] = stored[w]
      BY <1>1, <2>1, <3>1, <3>3 DEF StoredIsBooked
    <3>4. CASE Refers(stored'[w], w)
      <4>1. PICK e \in books : e.id = stored'[w] /\ stored'[w][1] = w
        BY <2>1, <3>4, RowsAssumption DEF Refers
      <4>2. e \in Copies(w)
        BY <4>1 DEF Copies
      <4>3. QED BY <3>1, <4>1, <4>2
    <3>5. QED BY <3>2, <3>3, <3>4
  <2>2. ASSUME NEW p \in Payments, stored'[p] # None PROVE stored'[p[1]] # None
    <3>1. p \in Rows /\ p[1] \in Rows
      BY PaymentRows, InvoiceRows
    <3>2. stored[p[1]] # None
      BY <1>1, <1>8, <2>2, <3>1 DEF StoredIsBooked
    <3>3. QED BY <1>8, <3>1, <3>2
  <2>3. QED BY <2>1, <2>2 DEF StoredIsBooked
<1>20. QED
  BY <1>12, <1>14, <1>17, <1>18, <1>19 DEF BooksInductive

LEMMA RecordEnsuredKeeps ==
  ASSUME BooksInductive, NEW r \in Runs, RecordEnsured(r)
  PROVE  BooksInductive'
<1>1. /\ received \in [Invoices -> Nat] /\ TypeOK /\ RunsAreLinked /\ CopiesAreCounted
      /\ BooksAreLinked /\ StoredIsBooked
  BY DEF BooksInductive
<1>2. PICK i, id : i = run[r].invoice /\ id = run[r].ensured
  OBVIOUS
<1>3. /\ run[r].pc = "memo" /\ UNCHANGED <<worldVars, stored, books, failures, missing>>
      /\ i \in Invoices /\ Refers(id, i) /\ stored[i] # None /\ run[r].wrote = FALSE
      /\ run \in [Runs -> RunRow]
  BY <1>1, <1>2 DEF RecordEnsured, RunsAreLinked, Linked, TypeOK, RunRow
<1>4. PICK pc \in {"payment", "done"} : run' = [run EXCEPT ![r].pc = pc, ![r].tries = 0]
  BY DEF RecordEnsured, AfterEnsure
<1>5. /\ run' \in [Runs -> RunRow] /\ OthersStay(r) /\ run'[r].pc = pc /\ run'[r].invoice = i
      /\ run'[r].tries = 0 /\ run'[r].wrote = FALSE /\ run'[r].ensured = id
  <2>1. pc \in Pcs
    BY DEF Pcs, PaymentPc, Ended
  <2>2. QED BY <1>2, <1>3, <1>4, <2>1, RecordRow
<1>6. TypeOK'
  <2>1. ASSUME NEW q \in Runs, run'[q].pc \in EnsurePc \cup PaymentPc
        PROVE  run'[q].tries < MaxAttempts
    <3>1. CASE q = r BY <1>5, <3>1, LimitsAssumption
    <3>2. CASE q # r BY <1>1, <1>5, <2>1, <3>2 DEF OthersStay, TypeOK
    <3>3. QED BY <3>1, <3>2
  <2>2. QED BY <1>1, <1>3, <1>5, <2>1 DEF TypeOK, worldVars
<1>7. Linked(r)'
  <2>1. Refers(id, i)'
    BY <1>3 DEF Refers
  <2>2. QED BY <1>3, <1>5, <2>1 DEF Linked, PaymentPc
<1>8. RunsAreLinked'
  BY <1>1, <1>3, <1>5, <1>7, OthersLinked
<1>9. \A w \in Rows : Makers(w) \subseteq Makers(w)'
  BY <1>3, <1>5, MakersStay
<1>10. \A w \in Rows : Pending(w)' \subseteq Pending(w)
  <2>1. \A w \in Rows : r \notin Pending(w)'
    BY <1>5 DEF Pending
  <2>2. QED BY <1>5, <2>1, SetsMove
<1>11. CopiesAreCounted'
  BY <1>1, <1>3, <1>9, <1>10, CountsQuiet DEF TypeOK
<1>12. BooksAreLinked' /\ StoredIsBooked' /\ received' \in [Invoices -> Nat]
  BY <1>1, <1>3 DEF BooksAreLinked, StoredIsBooked, Copies, worldVars
<1>13. QED
  BY <1>6, <1>8, <1>11, <1>12 DEF BooksInductive

LEMMA PushPaymentKeeps ==
  ASSUME BooksInductive, NEW r \in Runs, PushPayment(r)
  PROVE  BooksInductive'
<1>1. /\ received \in [Invoices -> Nat] /\ TypeOK /\ RunsAreLinked /\ CopiesAreCounted
      /\ BooksAreLinked /\ StoredIsBooked
  BY DEF BooksInductive
<1>2. PICK i, p, e : i = run[r].invoice /\ p = <<i, 1>> /\ e = run[r].ensured
  OBVIOUS
<1>3. /\ run[r].pc = "payment" /\ UNCHANGED <<worldVars, stored, failures>>
      /\ i \in Invoices /\ Refers(e, i) /\ stored[i] # None /\ run[r].wrote = FALSE
      /\ run \in [Runs -> RunRow] /\ e \in DocId \cup {None}
  BY <1>1, <1>2 DEF PushPayment, RunsAreLinked, Linked, TypeOK, RunRow, PaymentPc
<1>4. p \in Rows /\ p \in Payments /\ p # None /\ Target(p) = i
  BY <1>2, <1>3, InvoiceRows, RowsAssumption
<1>5. missing \in [Rows -> Nat] /\ stored \in [Rows -> DocId \cup {None}] /\ books \subseteq Doc
  BY <1>1 DEF TypeOK
<1>6. {"done", "storePayment"} \subseteq Pcs /\ "payment" \in PaymentPc /\ "done" \notin EnsurePc \cup PaymentPc
  BY DEF Pcs, PaymentPc, Ended, EnsurePc
<1>7. ASSUME NEW pc \in {"done", "storePayment"}, Moved(r, pc), run'[r].wrote = FALSE,
             run'[r].ensured = e, books \subseteq books', books' \subseteq Doc,
             missing' \in [Rows -> Nat],
             pc = "storePayment" => Refers(run[r].doc, p)'
      PROVE  /\ TypeOK' /\ RunsAreLinked' /\ StoredIsBooked'
             /\ \A w \in Rows : Makers(w) \subseteq Makers(w)'
             /\ \A w \in Rows : Pending(w)' \subseteq Pending(w)
             /\ received' \in [Invoices -> Nat]
  <2>1. run'[r].pc = pc /\ run'[r].invoice = i /\ OthersStay(r) /\ pc \in Pcs
    BY <1>2, <1>6, <1>7 DEF Moved
  <2>2. TypeOK'
    BY <1>1, <1>3, <1>5, <1>6, <1>7, <2>1, MovedType
  <2>3. Linked(r)'
    <3>1. Refers(e, i)'
      BY <1>3, <1>7, RefersStays
    <3>2. QED
      BY <1>2, <1>3, <1>7, <2>1, <3>1 DEF Linked, PaymentPc
  <2>4. RunsAreLinked'
    BY <1>1, <1>3, <1>7, <2>1, <2>3, OthersLinked
  <2>5. StoredIsBooked'
    BY <1>1, <1>3, <1>7, BookedStays
  <2>6. \A w \in Rows : Makers(w) \subseteq Makers(w)'
    BY <1>3, <2>1, MakersStay
  <2>7. \A w \in Rows : r \notin Pending(w)'
    BY <2>1 DEF Pending
  <2>8. \A w \in Rows : Pending(w)' \subseteq Pending(w)
    BY <2>1, <2>7, SetsMove
  <2>9. received' \in [Invoices -> Nat]
    BY <1>1, <1>3 DEF worldVars
  <2>10. QED BY <2>2, <2>4, <2>5, <2>6, <2>8, <2>9
<1>8. CASE ~connected \/ received[i] = 0 \/ HasId(p)
  <2>1. /\ run' = [run EXCEPT ![r].pc = "done"] /\ books' = books
        /\ missing' \in [Rows -> Nat] /\ \A w \in Rows : missing[w] <= missing'[w]
    <3>1. CASE ~connected \/ received[i] = 0
      BY <1>2, <1>5, <3>1 DEF PushPayment, Move
    <3>2. CASE ~(~connected \/ received[i] = 0)
      <4>1. /\ FoundMissing(p) /\ books' = books
            /\ run' = [run EXCEPT ![r].pc = "done"]
        BY <1>2, <1>8, <3>2 DEF PushPayment, Move
      <4>2. QED BY <1>1, <1>4, <4>1, FoundFacts
    <3>3. QED BY <3>1, <3>2
  <2>2. Moved(r, "done") /\ run'[r].wrote = FALSE /\ run'[r].ensured = e
    <3>1. "done" \in Pcs /\ run \in [Runs -> RunRow]
      BY <1>3, <1>6
    <3>2. QED BY <1>2, <1>3, <2>1, <3>1, MoveRow
  <2>3. /\ TypeOK' /\ RunsAreLinked' /\ StoredIsBooked'
        /\ \A w \in Rows : Makers(w) \subseteq Makers(w)'
        /\ \A w \in Rows : Pending(w)' \subseteq Pending(w)
        /\ received' \in [Invoices -> Nat]
    BY <1>5, <1>7, <2>1, <2>2
  <2>4. CopiesAreCounted'
    BY <1>1, <1>3, <2>1, <2>3, CountsQuiet
  <2>5. BooksAreLinked'
    BY <1>1, <2>1 DEF BooksAreLinked
  <2>6. QED BY <2>3, <2>4, <2>5 DEF BooksInductive
<1>9. CASE ~(~connected \/ received[i] = 0 \/ HasId(p))
  <2>1. /\ FoundMissing(p) /\ ~HasId(p) /\ Create(p, e)
        /\ run' = [run EXCEPT ![r].pc = "storePayment", ![r].doc = NewId(p)]
    BY <1>2, <1>9 DEF PushPayment
  <2>2. /\ missing' \in [Rows -> Nat] /\ \A w \in Rows : missing[w] <= missing'[w]
        /\ missing'[p] = missing[p] + 1
    BY <1>1, <1>4, <2>1, FoundFacts DEF HasId
  <2>3. run[r].pc \in Before(p) /\ "storePayment" \notin Before(p)
    BY <1>3, <1>4, BeforeFacts DEF EnsurePc
  <2>4. /\ NewId(p) \in DocId /\ NewId(p)[1] = p
        /\ books' \subseteq Doc /\ books \subseteq books'
        /\ \E d \in books' : d.id = NewId(p)
    BY <1>1, <1>3, <1>4, <2>1, <2>3, CreateFacts
  <2>5. PICK id \in DocId \cup {None} : id = NewId(p)
    BY <2>4
  <2>6. /\ Moved(r, "storePayment") /\ run'[r].doc = id /\ run'[r].wrote = FALSE
        /\ run'[r].ensured = e
    <3>1. /\ "storePayment" \in Pcs /\ run \in [Runs -> RunRow]
          /\ run' = [run EXCEPT ![r].pc = "storePayment", ![r].doc = id]
      BY <1>3, <1>6, <2>1, <2>5
    <3>2. Moved(r, "storePayment") /\ run'[r].doc = id /\ run'[r].wrote = run[r].wrote
          /\ run'[r].ensured = run[r].ensured
      BY <3>1, DocRow
    <3>3. QED BY <1>2, <1>3, <3>2
  <2>7. Refers(id, p)'
    BY <1>4, <2>4, <2>5 DEF Refers
  <2>8. Refers(run[r].doc, p)'
    BY <2>6, <2>7 DEF Refers
  <2>9. /\ TypeOK' /\ RunsAreLinked' /\ StoredIsBooked'
        /\ \A w \in Rows : Makers(w) \subseteq Makers(w)'
        /\ \A w \in Rows : Pending(w)' \subseteq Pending(w)
        /\ received' \in [Invoices -> Nat]
    BY <1>7, <2>2, <2>4, <2>6, <2>8
  <2>10. r \in Makers(p)'
    BY <2>3, <2>6 DEF Makers, Moved, Before
  <2>11. CopiesAreCounted'
    BY <1>1, <1>3, <1>4, <2>1, <2>2, <2>3, <2>9, <2>10, CountsCreate
  <2>12. BooksAreLinked'
    BY <1>1, <1>3, <1>4, <2>1, <2>4, <2>9, LinkedCreate
  <2>13. QED BY <2>9, <2>11, <2>12 DEF BooksInductive
<1>10. QED BY <1>8, <1>9

LEMMA StorePaymentKeeps ==
  ASSUME BooksInductive, NEW r \in Runs, StorePayment(r)
  PROVE  BooksInductive'
<1>1. /\ received \in [Invoices -> Nat] /\ TypeOK /\ RunsAreLinked /\ CopiesAreCounted
      /\ BooksAreLinked /\ StoredIsBooked
  BY DEF BooksInductive
<1>2. PICK i, p, e, id : /\ i = run[r].invoice /\ p = <<run[r].invoice, 1>>
                        /\ e = run[r].ensured /\ id = run[r].doc
  OBVIOUS
<1>3. /\ run[r].pc = "storePayment" /\ UNCHANGED <<worldVars, books, failures, missing>>
      /\ i \in Invoices /\ Refers(e, i) /\ stored[i] # None /\ Refers(id, p) /\ run[r].wrote = FALSE
      /\ run \in [Runs -> RunRow] /\ stored' = [stored EXCEPT ![p] = id]
      /\ run' = [run EXCEPT ![r].pc = "memoPayment"]
  BY <1>1, <1>2 DEF StorePayment, RunsAreLinked, Linked, TypeOK, RunRow, PaymentPc, Move
<1>4. /\ p \in Rows /\ p \in Payments /\ p # None /\ i \in Rows /\ i # p /\ p[1] = i
      /\ id \in DocId /\ id # None
  BY <1>2, <1>3, InvoiceRows, RowsAssumption, DocsAssumption DEF Refers
<1>5. missing \in [Rows -> Nat] /\ stored \in [Rows -> DocId \cup {None}] /\ books \subseteq Doc
  BY <1>1 DEF TypeOK
<1>6. /\ stored' \in [Rows -> DocId \cup {None}] /\ stored'[p] = id
      /\ \A w \in Rows \ {p} : stored'[w] = stored[w]
  BY <1>3, <1>4, <1>5
<1>7. "memoPayment" \in Pcs /\ {"memoPayment", "storePayment"} \subseteq PaymentPc
  BY DEF Pcs, PaymentPc
<1>8. Moved(r, "memoPayment") /\ run'[r].wrote = FALSE /\ run'[r].ensured = e
  <2>1. "memoPayment" \in Pcs /\ run \in [Runs -> RunRow]
    BY <1>3, <1>7
  <2>2. QED BY <1>2, <1>3, <2>1, MoveRow
<1>9. run'[r].pc = "memoPayment" /\ run'[r].invoice = i /\ OthersStay(r)
  BY <1>2, <1>8 DEF Moved
<1>10. TypeOK'
  BY <1>1, <1>3, <1>5, <1>6, <1>7, <1>8, MovedType
<1>11. Linked(r)'
  <2>1. Refers(e, i)' /\ stored'[i] # None
    BY <1>3, <1>4, <1>6 DEF Refers
  <2>2. QED BY <1>3, <1>8, <1>9, <2>1 DEF Linked, PaymentPc
<1>12. RunsAreLinked'
  BY <1>1, <1>3, <1>4, <1>6, <1>9, <1>11, OthersLinked
<1>13. \A w \in Rows : Makers(w) \subseteq Makers(w)'
  BY <1>3, <1>7, <1>9, MakersStay
<1>14. \A w \in Rows : Pending(w)' \subseteq Pending(w)
  <2>1. \A w \in Rows : r \notin Pending(w)'
    BY <1>9 DEF Pending
  <2>2. QED BY <1>9, <2>1, SetsMove
<1>15. CopiesAreCounted'
  BY <1>1, <1>3, <1>5, <1>13, <1>14, CountsQuiet
<1>16. BooksAreLinked' /\ received' \in [Invoices -> Nat]
  BY <1>1, <1>3 DEF BooksAreLinked, worldVars
<1>17. StoredIsBooked'
  <2>1. \A w : Copies(w)' = Copies(w)
    BY <1>3 DEF Copies
  <2>2. \E d \in Copies(p) : d.id = id
    BY <1>3, <1>4 DEF Refers, Copies
  <2>3. ASSUME NEW w \in Rows, stored'[w] # None PROVE \E d \in Copies(w)' : d.id = stored'[w]
    BY <1>1, <1>6, <2>1, <2>2, <2>3 DEF StoredIsBooked
  <2>4. ASSUME NEW q \in Payments, stored'[q] # None PROVE stored'[q[1]] # None
    <3>1. q \in Rows /\ q[1] \in Rows /\ q[1] \in Invoices /\ q[1] # p
      BY <1>4, PaymentRows, InvoiceRows
    <3>2. CASE q = p
      BY <1>3, <1>4, <1>6, <3>2
    <3>3. CASE q # p
      BY <1>1, <1>6, <2>4, <3>1, <3>3 DEF StoredIsBooked
    <3>4. QED BY <3>2, <3>3
  <2>5. QED BY <2>3, <2>4 DEF StoredIsBooked
<1>18. QED
  BY <1>10, <1>12, <1>15, <1>16, <1>17 DEF BooksInductive

LEMMA RecordPaymentKeeps ==
  ASSUME BooksInductive, NEW r \in Runs, RecordPayment(r)
  PROVE  BooksInductive'
<1>1. /\ received \in [Invoices -> Nat] /\ TypeOK /\ RunsAreLinked /\ CopiesAreCounted
      /\ BooksAreLinked /\ StoredIsBooked
  BY DEF BooksInductive
<1>2. /\ run[r].pc = "memoPayment" /\ UNCHANGED <<worldVars, stored, books, failures, missing>>
      /\ run[r].invoice \in Invoices /\ run[r].wrote = FALSE
      /\ run \in [Runs -> RunRow] /\ run' = [run EXCEPT ![r].pc = "done"]
  BY <1>1 DEF RecordPayment, RunsAreLinked, Linked, TypeOK, RunRow, Move
<1>3. /\ "done" \in Pcs /\ "memoPayment" \in PaymentPc /\ "done" \notin EnsurePc \cup PaymentPc
  BY DEF Pcs, PaymentPc, EnsurePc, Ended
<1>4. Moved(r, "done") /\ run'[r].wrote = FALSE
  BY <1>2, <1>3, MoveRow
<1>5. run'[r].pc = "done" /\ run'[r].invoice \in Invoices /\ OthersStay(r)
  BY <1>2, <1>4 DEF Moved
<1>6. TypeOK'
  <2>1. /\ stored' \in [Rows -> DocId \cup {None}] /\ books' \subseteq Doc
        /\ missing' \in [Rows -> Nat]
    BY <1>1, <1>2 DEF TypeOK
  <2>2. QED BY <1>1, <1>2, <1>3, <1>4, <2>1, MovedType
<1>7. Linked(r)'
  BY <1>4, <1>5 DEF Linked, PaymentPc
<1>8. RunsAreLinked'
  BY <1>1, <1>2, <1>5, <1>7, OthersLinked
<1>9. \A w \in Rows : Makers(w) \subseteq Makers(w)'
  BY <1>2, <1>3, <1>5, MakersStay
<1>10. \A w \in Rows : Pending(w)' \subseteq Pending(w)
  <2>1. \A w \in Rows : r \notin Pending(w)'
    BY <1>5 DEF Pending
  <2>2. QED BY <1>5, <2>1, SetsMove
<1>11. CopiesAreCounted'
  BY <1>1, <1>2, <1>9, <1>10, CountsQuiet DEF TypeOK
<1>12. BooksAreLinked' /\ StoredIsBooked' /\ received' \in [Invoices -> Nat]
  BY <1>1, <1>2 DEF BooksAreLinked, StoredIsBooked, Copies, worldVars
<1>13. QED
  BY <1>6, <1>8, <1>11, <1>12 DEF BooksInductive

LEMMA AttemptFailsKeeps ==
  ASSUME BooksInductive, NEW r \in Runs, AttemptFails(r)
  PROVE  BooksInductive'
<1>1. /\ received \in [Invoices -> Nat] /\ TypeOK /\ RunsAreLinked /\ CopiesAreCounted
      /\ BooksAreLinked /\ StoredIsBooked
  BY DEF BooksInductive
<1>2. PICK i, id : i = run[r].invoice /\ id = run[r].ensured
  OBVIOUS
<1>3. /\ run[r].pc \in EnsurePc \cup PaymentPc /\ UNCHANGED <<worldVars, stored, books, missing>>
      /\ failures < MaxFailures /\ failures' = failures + 1
      /\ i \in Invoices /\ run \in [Runs -> RunRow]
      /\ run[r].pc \in PaymentPc => Refers(id, i) /\ stored[i] # None
  BY <1>1, <1>2 DEF AttemptFails, RunsAreLinked, Linked, TypeOK, EnsurePc, PaymentPc
<1>4. /\ run[r].tries \in 0..MaxAttempts /\ run[r].tries < MaxAttempts
      /\ run[r].tries + 1 \in 0..MaxAttempts
      /\ run[r].tries + 1 # MaxAttempts => run[r].tries + 1 < MaxAttempts
  <2>1. run[r].tries \in 0..MaxAttempts
    BY <1>3 DEF RunRow
  <2>2. run[r].tries < MaxAttempts
    BY <1>1, <1>3 DEF TypeOK
  <2>3. QED BY <2>1, <2>2, LimitsAssumption
<1>5. PICK pc : pc = IF GivesUp(r) THEN "failed" ELSE Restart(run[r].pc)
  OBVIOUS
<1>6. /\ pc \in {"failed", "ensure", "payment"}
      /\ pc = "payment" => run[r].pc \in PaymentPc
      /\ pc # "failed" => run[r].tries + 1 < MaxAttempts
  BY <1>3, <1>4, <1>5 DEF Restart, GivesUp
<1>7. /\ run' \in [Runs -> RunRow] /\ OthersStay(r)
      /\ run'[r].pc = pc /\ run'[r].invoice = i /\ run'[r].tries = run[r].tries + 1
      /\ run'[r].customer = None /\ run'[r].wrote = FALSE /\ run'[r].ensured = id
  <2>1. pc \in Pcs
    BY <1>6 DEF Pcs, PaymentPc, EnsurePc, Ended
  <2>2. run' = [run EXCEPT ![r].pc = pc, ![r].tries = @ + 1, ![r].wrote = FALSE,
                           ![r].customer = None, ![r].doc = None]
    BY <1>5 DEF AttemptFails
  <2>3. QED BY <1>2, <1>3, <1>4, <2>1, <2>2, FailedRow
<1>8. TypeOK'
  <2>1. ASSUME NEW q \in Runs, run'[q].pc \in EnsurePc \cup PaymentPc
        PROVE  run'[q].tries < MaxAttempts
    <3>1. CASE q = r
      BY <1>6, <1>7, <2>1, <3>1 DEF EnsurePc, PaymentPc
    <3>2. CASE q # r
      BY <1>1, <1>7, <2>1, <3>2 DEF OthersStay, TypeOK
    <3>3. QED BY <3>1, <3>2
  <2>2. failures' \in 0..MaxFailures
    BY <1>1, <1>3, LimitsAssumption DEF TypeOK
  <2>3. QED BY <1>1, <1>3, <1>7, <2>1, <2>2 DEF TypeOK, worldVars
<1>9. Linked(r)'
  <2>1. pc = "payment" => Refers(id, i)'
    BY <1>3, <1>6 DEF Refers
  <2>2. QED BY <1>3, <1>6, <1>7, <2>1 DEF Linked, PaymentPc
<1>10. RunsAreLinked'
  BY <1>1, <1>3, <1>7, <1>9, OthersLinked
<1>11. \A w \in Rows : Pending(w)' \subseteq Pending(w)
  <2>1. \A w \in Rows : r \notin Pending(w)'
    BY <1>6, <1>7 DEF Pending
  <2>2. QED BY <1>7, <2>1, SetsMove
<1>12. CopiesAreCounted'
  BY <1>1, <1>3, <1>7, <1>11, CountsFails
<1>13. BooksAreLinked' /\ StoredIsBooked' /\ received' \in [Invoices -> Nat]
  BY <1>1, <1>3 DEF BooksAreLinked, StoredIsBooked, Copies, worldVars
<1>14. QED
  BY <1>8, <1>10, <1>12, <1>13 DEF BooksInductive

LEMMA NextKeeps == BooksInductive /\ [Next]_vars => BooksInductive'
<1> SUFFICES ASSUME BooksInductive, [Next]_vars PROVE BooksInductive'
  OBVIOUS
<1>1. CASE Connect \/ (\E i \in Invoices : Send(i) \/ Receive(i)) \/ UNCHANGED vars
  BY <1>1, WorldKeeps
<1>2. ASSUME NEW r \in Runs, RunStep(r) PROVE BooksInductive'
  BY <1>2, StartKeeps, EnsureKeeps, EnsureCustomerKeeps, StoreCustomerKeeps, CreateInvoiceKeeps,
     StoreInvoiceKeeps, RecordEnsuredKeeps, PushPaymentKeeps, StorePaymentKeeps,
     RecordPaymentKeeps DEF RunStep
<1>3. ASSUME NEW r \in Runs, AttemptFails(r) PROVE BooksInductive'
  BY <1>3, AttemptFailsKeeps
<1>4. QED BY <1>1, <1>2, <1>3 DEF Next

(* Counted copies are no more than the attempts that found the row bare.     *)
LEMMA CountedIsNotPushedAgain ==
  ASSUME BooksInductive
  PROVE  StoredIsNotPushedAgain
<1>1. ASSUME NEW w \in Rows PROVE Cardinality(Copies(w)) <= missing[w]
  BY CountNumbers DEF BooksInductive
<1>2. QED BY <1>1 DEF StoredIsNotPushedAgain

\* For any invoices, payments, runs and failed attempts: the rows of the CRM name documents
\* QuickBooks holds, its documents refer to documents it holds, and no more documents copy a
\* row than attempts of ensureCustomerAndInvoice and pushPaymentToQbo found it without a qbo_id.
THEOREM BooksHold == Spec => []BooksInv
<1>1. BooksInductive => BooksInv
  BY CountedIsNotPushedAgain DEF BooksInductive, BooksInv
<1>2. QED
  BY InitHolds, NextKeeps, <1>1, PTL DEF Spec

-----------------------------------------------------------------------------
(* Counting.                                                               *)

\* A set changes its size by the one element that comes or goes.
LEMMA CountMoves ==
  ASSUME NEW W, IsFiniteSet(W), NEW S \in SUBSET W, NEW T \in SUBSET W, NEW x, S \ {x} = T \ {x}
  PROVE  /\ Cardinality(S) \in Nat /\ Cardinality(T) \in Nat
         /\ Cardinality(T) = Cardinality(S) + (IF x \in T THEN 1 ELSE 0) - (IF x \in S THEN 1 ELSE 0)
<1>1. IsFiniteSet(S) /\ IsFiniteSet(T)
  BY FS_Subset
<1>2. Cardinality(S) \in Nat /\ Cardinality(T) \in Nat
  BY <1>1, FS_CardinalityType
<1>3. Cardinality(S \ {x}) = IF x \in S THEN Cardinality(S) - 1 ELSE Cardinality(S)
  BY <1>1, FS_RemoveElement, Zenon
<1>4. Cardinality(T \ {x}) = IF x \in T THEN Cardinality(T) - 1 ELSE Cardinality(T)
  BY <1>1, FS_RemoveElement, Zenon
<1> DEFINE s == Cardinality(S)
           t == Cardinality(T)
           u == Cardinality(S \ {x})
<1>5. (s = IF x \in S THEN u + 1 ELSE u) /\ (t = IF x \in T THEN u + 1 ELSE u) /\ u \in Int
  BY <1>2, <1>3, <1>4
<1> HIDE DEF s, t, u
<1>6. t = s + (IF x \in T THEN 1 ELSE 0) - (IF x \in S THEN 1 ELSE 0)
  BY <1>5
<1>7. QED BY <1>2, <1>6 DEF s, t

-----------------------------------------------------------------------------
(* The rows of agent runs, for any number of works, attempts and faults.   *)

\* A row somebody is about to close is still running, or was reaped too soon.
Closable(r) == r \in DOMAIN agentRun /\ agentRun[r] \in {"running", "timed_out"}

\* A work about to close a row found it running or reaped, and closes it alone.
WorksAreLinked ==
    /\ \A w \in Works : /\ work[w].pc \in Busy => Closable(work[w].row)
                        /\ work[w].pc # "failed" => work[w].tries < MaxTries
    /\ \A v, w \in Works :
          work[v].pc \in Busy /\ work[w].pc \in Busy /\ work[v].row = work[w].row => v = w

\* The rows still running that nobody closes.
LeftOf(rows, owned) == {r \in DOMAIN rows : rows[r] = "running" /\ r \notin owned}
OwnedByWorks == {work[w].row : w \in {v \in Works : work[v].pc \in Busy}}

\* Rows are closed, or one is opened.
LEMMA RowsWritten ==
  ASSUME agentRun \in Seq(RunStatus)
  PROVE  /\ DOMAIN agentRun = 1..Len(agentRun) /\ Len(agentRun) \in Nat /\ IsFiniteSet(DOMAIN agentRun)
         /\ Opened \in Seq(RunStatus) /\ Len(Opened) = Len(agentRun) + 1
         /\ Opened[Len(agentRun) + 1] = "running"
         /\ \A r \in DOMAIN agentRun : r \in DOMAIN Opened /\ Opened[r] = agentRun[r]
         /\ \A r \in Nat, s \in RunStatus :
               /\ Closed(r, s) \in Seq(RunStatus) /\ Len(Closed(r, s)) = Len(agentRun)
               /\ DOMAIN Closed(r, s) = DOMAIN agentRun
               /\ \A q \in DOMAIN agentRun : Closed(r, s)[q] = IF q = r THEN s ELSE agentRun[q]
<1>1. DOMAIN agentRun = 1..Len(agentRun) /\ Len(agentRun) \in Nat
  OBVIOUS
<1>2. IsFiniteSet(DOMAIN agentRun)
  BY <1>1, FS_Interval
<1>3. /\ Opened \in Seq(RunStatus) /\ Len(Opened) = Len(agentRun) + 1
      /\ Opened[Len(agentRun) + 1] = "running"
      /\ \A r \in DOMAIN agentRun : r \in DOMAIN Opened /\ Opened[r] = agentRun[r]
  BY <1>1 DEF Opened, RunStatus
<1>4. ASSUME NEW r \in Nat, NEW s \in RunStatus
      PROVE  /\ Closed(r, s) \in Seq(RunStatus) /\ Len(Closed(r, s)) = Len(agentRun)
             /\ DOMAIN Closed(r, s) = DOMAIN agentRun
             /\ \A q \in DOMAIN agentRun : Closed(r, s)[q] = IF q = r THEN s ELSE agentRun[q]
  <2>1. agentRun \in [1..Len(agentRun) -> RunStatus]
    BY <1>1
  <2>2. Closed(r, s) \in [1..Len(agentRun) -> RunStatus]
    BY <2>1 DEF Closed
  <2>3. Closed(r, s) \in Seq(RunStatus) /\ Len(Closed(r, s)) = Len(agentRun)
    BY <1>1, <2>2
  <2>4. QED BY <1>1, <2>1, <2>2, <2>3 DEF Closed
<1>5. QED BY <1>1, <1>2, <1>3, <1>4

\* What the reaper leaves: rows that run no more, each as it was or timed out.
LEMMA ReapWrites ==
  ASSUME agentRun \in Seq(RunStatus), Reap
  PROVE  /\ agentRun' \in Seq(RunStatus) /\ DOMAIN agentRun' = DOMAIN agentRun
         /\ Len(agentRun') = Len(agentRun)
         /\ \A r \in DOMAIN agentRun :
               agentRun'[r] = agentRun[r] \/ (agentRun[r] = "running" /\ agentRun'[r] = "timed_out")
<1>1. PICK n \in DOMAIN agentRun :
        agentRun' = [r \in DOMAIN agentRun |-> IF r <= n THEN Reaped(agentRun[r]) ELSE agentRun[r]]
  BY DEF Reap
<1>2. DOMAIN agentRun = 1..Len(agentRun) /\ Len(agentRun) \in Nat
  OBVIOUS
<1>3. \A r \in DOMAIN agentRun :
        /\ agentRun'[r] \in RunStatus
        /\ agentRun'[r] = agentRun[r] \/ (agentRun[r] = "running" /\ agentRun'[r] = "timed_out")
  BY <1>1, <1>2 DEF Reaped, RunStatus
<1>4. agentRun' = [r \in 1..Len(agentRun) |-> agentRun'[r]]
  BY <1>1, <1>2
<1>5. agentRun' \in Seq(RunStatus) /\ Len(agentRun') = Len(agentRun)
  BY <1>2, <1>3, <1>4
<1>6. QED BY <1>1, <1>3, <1>5

LEMMA LeftBounds ==
  ASSUME NEW a \in Seq(RunStatus), NEW b \in Seq(RunStatus), NEW C, NEW D, NEW x
  PROVE  /\ Cardinality(LeftOf(a, C)) \in Nat /\ Cardinality(LeftOf(b, D)) \in Nat
         /\ LeftOf(b, D) \subseteq LeftOf(a, C) => Cardinality(LeftOf(b, D)) <= Cardinality(LeftOf(a, C))
         /\ LeftOf(b, D) \subseteq LeftOf(a, C) \cup {x} =>
               Cardinality(LeftOf(b, D)) <= Cardinality(LeftOf(a, C)) + 1
<1> DEFINE S == LeftOf(a, C)
           T == LeftOf(b, D)
<1>1. IsFiniteSet(S) /\ IsFiniteSet(T)
  <2>1. IsFiniteSet(1..Len(a)) /\ IsFiniteSet(1..Len(b))
    BY FS_Interval
  <2>2. S \subseteq 1..Len(a) /\ T \subseteq 1..Len(b)
    BY DEF LeftOf
  <2>3. QED BY <2>1, <2>2, FS_Subset
<1> HIDE DEF S, T
<1>2. Cardinality(S) \in Nat /\ Cardinality(T) \in Nat
  BY <1>1, FS_CardinalityType
<1>3. T \subseteq S => Cardinality(T) <= Cardinality(S)
  BY <1>1, FS_Subset
<1>4. IsFiniteSet(S \cup {x}) /\ Cardinality(S \cup {x}) \in {Cardinality(S), Cardinality(S) + 1}
  BY <1>1, FS_AddElement
<1>5. T \subseteq S \cup {x} => Cardinality(T) <= Cardinality(S) + 1
  BY <1>1, <1>2, <1>4, FS_Subset
<1>6. QED BY <1>2, <1>3, <1>5 DEF S, T

RunsInductive ==
    /\ RunTypeOK /\ WorksAreLinked
    /\ Cardinality(LeftOf(agentRun, OwnedByWorks)) <= faults

LEMMA RunInitHolds == RunInit => RunsInductive
<1> SUFFICES ASSUME RunInit PROVE RunsInductive
  OBVIOUS
<1>1. RunTypeOK /\ WorksAreLinked
  BY RunLimits DEF RunInit, RunTypeOK, WorkRow, RunId, WorksAreLinked, Busy
<1>2. LeftOf(agentRun, OwnedByWorks) = {}
  BY DEF RunInit, LeftOf
<1>3. QED BY <1>1, <1>2, FS_EmptySet DEF RunInit, RunsInductive

\* A call of withAgentRun writes its own record.
LEMMA AnyWork ==
  ASSUME work \in [Works -> WorkRow], NEW w \in Works, NEW row \in WorkRow, work' = [work EXCEPT ![w] = row]
  PROVE  /\ work' \in [Works -> WorkRow] /\ work'[w] = row
         /\ \A v \in Works \ {w} : work'[v] = work[v]
BY DEF WorkRow

LEMMA WorkFields ==
  ASSUME work \in [Works -> WorkRow], NEW w \in Works
  PROVE  /\ work[w] \in WorkRow /\ work[w].row \in Nat /\ work[w].tries \in 0..MaxTries
         /\ work[w].pc \in {"idle", "work", "ok", "error", "record", "done", "failed"}
BY DEF WorkRow, RunId

\* An attempt cut short has let go of its row, and has another one left or is over.
LEMMA RetriedRow ==
  ASSUME RunTypeOK, WorksAreLinked, NEW w \in Works, work[w].pc # "failed", work' = Retried(w)
  PROVE  /\ work' \in [Works -> WorkRow] /\ work'[w].row = 0
         /\ work'[w].pc \in {"idle", "failed"}
         /\ work'[w].pc # "failed" => work'[w].tries < MaxTries
         /\ \A v \in Works \ {w} : work'[v] = work[v]
<1> DEFINE over == IF work[w].tries + 1 = MaxTries THEN "failed" ELSE "idle"
<1>1. work[w] \in WorkRow /\ work[w].tries \in 0..MaxTries /\ work[w].tries < MaxTries
  BY WorkFields DEF RunTypeOK, WorksAreLinked
<1>2. PICK pc \in {"idle", "failed"} : pc = over
  OBVIOUS
<1> DEFINE row == [work[w] EXCEPT !.pc = pc, !.row = 0, !.tries = @ + 1]
<1>3. row \in WorkRow /\ row.pc = pc /\ row.row = 0 /\ row.tries = work[w].tries + 1
  <2>1. work[w].tries + 1 \in 0..MaxTries
    BY <1>1, RunLimits
  <2>2. pc \in {"idle", "failed"}
    BY <1>2
  <2>3. row.pc = pc /\ row.row = 0 /\ row.tries = work[w].tries + 1
    BY <1>1 DEF WorkRow
  <2>4. QED BY <1>1, <2>1, <2>2 DEF WorkRow, RunId
<1>4. work' = [work EXCEPT ![w] = row]
  BY <1>2 DEF Retried
<1> HIDE DEF row
<1>5. work' \in [Works -> WorkRow] /\ work'[w] = row /\ \A v \in Works \ {w} : work'[v] = work[v]
  BY <1>3, <1>4, AnyWork DEF RunTypeOK
<1>6. pc # "failed" => work[w].tries + 1 < MaxTries
  BY <1>1, <1>2, RunLimits
<1>7. QED BY <1>3, <1>5, <1>6

LEMMA BeginKeeps == ASSUME RunsInductive, NEW w \in Works, Begin(w) PROVE RunsInductive'
<1> DEFINE n == Len(agentRun) + 1
           row == [work[w] EXCEPT !.pc = "work", !.row = n]
<1>0. RunTypeOK /\ WorksAreLinked /\ agentRun \in Seq(RunStatus)
  BY DEF RunsInductive, RunTypeOK
<1>1. row \in WorkRow /\ work' = [work EXCEPT ![w] = row] /\ row.pc = "work" /\ row.row = n
      /\ row.tries = work[w].tries
  <2>1. work[w] \in WorkRow /\ n \in Nat
    BY <1>0 DEF RunTypeOK
  <2>2. row \in WorkRow /\ row.pc = "work" /\ row.row = n /\ row.tries = work[w].tries
    BY <2>1 DEF WorkRow, RunId
  <2>3. work' = [work EXCEPT ![w] = row]
    BY DEF Begin
  <2>4. QED BY <2>2, <2>3
<1> HIDE DEF row
<1>2. work' \in [Works -> WorkRow] /\ work'[w] = row /\ \A v \in Works \ {w} : work'[v] = work[v]
  BY <1>0, <1>1, AnyWork DEF RunTypeOK
<1>3. /\ agentRun' \in Seq(RunStatus) /\ DOMAIN agentRun' = 1..n /\ n \in Nat /\ agentRun'[n] = "running"
      /\ DOMAIN agentRun = 1..(n - 1)
      /\ \A r \in DOMAIN agentRun : agentRun'[r] = agentRun[r]
  BY <1>0, RowsWritten DEF Begin
<1>4. RunTypeOK'
  BY <1>0, <1>1, <1>2, <1>3 DEF RunTypeOK, Begin
<1>5. \A v \in Works \ {w} : work[v].pc \in Busy => work[v].row \in 1..(n - 1)
  BY <1>0, <1>3 DEF WorksAreLinked, Closable
<1>6. WorksAreLinked'
  BY <1>0, <1>1, <1>2, <1>3, <1>5 DEF WorksAreLinked, Closable, Busy, Begin
<1>7. LeftOf(agentRun', OwnedByWorks') \subseteq LeftOf(agentRun, OwnedByWorks)
  BY <1>1, <1>2, <1>3 DEF LeftOf, OwnedByWorks, Busy, Begin
<1>8. Cardinality(LeftOf(agentRun', OwnedByWorks')) <= Cardinality(LeftOf(agentRun, OwnedByWorks))
      /\ Cardinality(LeftOf(agentRun', OwnedByWorks')) \in Nat
      /\ Cardinality(LeftOf(agentRun, OwnedByWorks)) \in Nat
  BY <1>0, <1>3, <1>7, LeftBounds
<1>9. QED BY <1>4, <1>6, <1>8 DEF RunsInductive, RunTypeOK, Begin

\* A work lets go of its row, closed or left as it is.
LEMMA LetGo ==
  ASSUME RunsInductive, NEW w \in Works, work' = Retried(w), work[w].pc # "failed",
         agentRun' \in Seq(RunStatus), DOMAIN agentRun' = DOMAIN agentRun,
         \A r \in DOMAIN agentRun : agentRun'[r] = agentRun[r] \/ (work[w].pc \in Busy /\ r = work[w].row),
         faults' \in 0..MaxFaults
  PROVE  /\ RunTypeOK' /\ WorksAreLinked'
         /\ LeftOf(agentRun', OwnedByWorks') \subseteq LeftOf(agentRun, OwnedByWorks) \cup {work[w].row}
<1>0. RunTypeOK /\ WorksAreLinked
  BY DEF RunsInductive
<1>1. /\ work' \in [Works -> WorkRow] /\ work'[w].row = 0
      /\ work'[w].pc \in {"idle", "failed"}
      /\ work'[w].pc # "failed" => work'[w].tries < MaxTries
      /\ \A v \in Works \ {w} : work'[v] = work[v]
  BY <1>0, RetriedRow
<1>2. RunTypeOK'
  <2>1. Len(agentRun') = Len(agentRun) /\ Len(agentRun) \in Nat
    BY <1>0 DEF RunTypeOK
  <2>2. QED BY <1>0, <1>1, <2>1 DEF RunTypeOK
<1>3. \A v \in Works \ {w} : work[v].pc \in Busy => Closable(work[v].row)'
  BY <1>0, <1>1 DEF WorksAreLinked, Closable
<1>4. WorksAreLinked'
  BY <1>0, <1>1, <1>3 DEF WorksAreLinked, Busy
<1>5. LeftOf(agentRun', OwnedByWorks') \subseteq LeftOf(agentRun, OwnedByWorks) \cup {work[w].row}
  BY <1>1 DEF LeftOf, OwnedByWorks, Busy
<1>6. QED BY <1>2, <1>4, <1>5

LEMMA WorkKeeps ==
  ASSUME RunsInductive, NEW w \in Works,
         WorkStep(w) \/ CloseFails(w) \/ WorkDies(w)
  PROVE  RunsInductive' /\ EndsStand(Closing)
<1> DEFINE L == Cardinality(LeftOf(agentRun, OwnedByWorks))
           M == Cardinality(LeftOf(agentRun', OwnedByWorks'))
<1> DEFINE Goes(pc) == work' = [work EXCEPT ![w].pc = pc]
<1> HIDE DEF Goes
<1>0. /\ RunTypeOK /\ WorksAreLinked /\ agentRun \in Seq(RunStatus) /\ work \in [Works -> WorkRow]
      /\ DOMAIN agentRun = 1..Len(agentRun) /\ faults \in 0..MaxFaults /\ L <= faults
  BY RowsWritten DEF RunsInductive, RunTypeOK
<1>1. CASE Begin(w)
  <2>1. EndsStand(Closing)
    BY <1>0, <1>1, RowsWritten DEF Begin, EndsStand
  <2>2. QED BY <1>1, <2>1, BeginKeeps
<1>2. ASSUME NEW pc \in {"ok", "error", "done"}, Goes(pc), UNCHANGED agentRun,
             faults' \in 0..MaxFaults, faults' >= faults,
             (pc \in {"ok", "error"} /\ work[w].pc \in Busy) \/ (pc = "done" /\ work[w].pc = "record")
      PROVE  RunsInductive' /\ EndsStand(Closing)
  <2> DEFINE row == [work[w] EXCEPT !.pc = pc]
  <2>1. /\ work[w] \in WorkRow /\ row \in WorkRow /\ work' = [work EXCEPT ![w] = row]
        /\ row.pc = pc /\ row.row = work[w].row /\ row.tries = work[w].tries
    BY <1>0, <1>2, WorkFields DEF WorkRow, Goes
  <2> HIDE DEF row
  <2>2. work' \in [Works -> WorkRow] /\ work'[w] = row /\ \A v \in Works \ {w} : work'[v] = work[v]
    BY <1>0, <2>1, AnyWork
  <2>3. RunTypeOK' /\ WorksAreLinked'
    BY <1>0, <1>2, <2>1, <2>2 DEF RunTypeOK, WorksAreLinked, Closable, Busy
  <2>4. OwnedByWorks' = OwnedByWorks
    BY <1>2, <2>1, <2>2 DEF OwnedByWorks, Busy
  <2>5. M = L /\ L \in Nat
    BY <1>0, <1>2, <2>4, LeftBounds
  <2>6. QED BY <1>0, <1>2, <2>3, <2>5 DEF RunsInductive, EndsStand
<1>3. CASE CloseRun(w)
  <2> DEFINE pc == work[w].pc
             r == work[w].row
  <2>1. /\ pc \in {"ok", "error"} /\ pc \in Busy /\ r \in DOMAIN agentRun /\ r \in Nat
        /\ agentRun[r] \in {"running", "timed_out"} /\ pc \in RunStatus /\ pc # "running"
        /\ UNCHANGED faults
    BY <1>0, <1>3 DEF CloseRun, WorksAreLinked, Closable, Busy, RunStatus
  <2>2. /\ agentRun' \in Seq(RunStatus) /\ DOMAIN agentRun' = DOMAIN agentRun /\ Len(agentRun') = Len(agentRun)
        /\ \A q \in DOMAIN agentRun : agentRun'[q] = IF q = r THEN pc ELSE agentRun[q]
    <3>1. agentRun' = Closed(r, pc)
      BY <1>3 DEF CloseRun
    <3> HIDE DEF pc, r
    <3>2. QED BY <1>0, <2>1, <3>1, RowsWritten
  <2>3. EndsStand(Closing)
    BY <2>1, <2>2 DEF EndsStand, Closing
  <2>4. RunTypeOK' /\ WorksAreLinked'
        /\ LeftOf(agentRun', OwnedByWorks') \subseteq LeftOf(agentRun, OwnedByWorks) \cup {r}
    <3>1. CASE work' = Retried(w)
      BY <1>0, <2>1, <2>2, <3>1, LetGo
    <3>2. CASE work' = [work EXCEPT ![w].pc = "record"]
      <4> DEFINE row == [work[w] EXCEPT !.pc = "record"]
      <4>1. /\ work[w] \in WorkRow /\ row \in WorkRow /\ work' = [work EXCEPT ![w] = row]
            /\ row.pc = "record" /\ row.row = r /\ row.tries = work[w].tries
        BY <1>0, <3>2, WorkFields DEF WorkRow
      <4> HIDE DEF row
      <4>2. work' \in [Works -> WorkRow] /\ work'[w] = row /\ \A v \in Works \ {w} : work'[v] = work[v]
        BY <1>0, <4>1, AnyWork
      <4>3. RunTypeOK'
        BY <1>0, <2>1, <2>2, <4>1, <4>2 DEF RunTypeOK
      <4>4. \A v \in Works \ {w} : work[v].pc \in Busy => Closable(work[v].row)'
        BY <1>0, <2>1, <2>2, <4>2 DEF WorksAreLinked, Closable
      <4>5. WorksAreLinked'
        BY <1>0, <2>1, <4>1, <4>2, <4>4 DEF WorksAreLinked, Busy
      <4>6. LeftOf(agentRun', OwnedByWorks') \subseteq LeftOf(agentRun, OwnedByWorks) \cup {r}
        BY <2>1, <2>2, <4>2 DEF LeftOf, OwnedByWorks
      <4>7. QED BY <4>3, <4>5, <4>6
    <3>3. QED BY <1>3, <3>1, <3>2 DEF CloseRun
  <2>5. r \notin LeftOf(agentRun', OwnedByWorks')
    BY <2>1, <2>2 DEF LeftOf
  <2>6. M <= L /\ M \in Nat /\ L \in Nat
    BY <1>0, <2>2, <2>4, <2>5, LeftBounds
  <2>7. QED BY <1>0, <2>1, <2>3, <2>4, <2>6 DEF RunsInductive
<1>4. ASSUME work' = Retried(w), Fault, UNCHANGED agentRun, work[w].pc \in Busy \cup {"record"}
      PROVE  RunsInductive' /\ EndsStand(Closing)
  <2>1. faults' \in 0..MaxFaults /\ faults' = faults + 1
    BY <1>0, <1>4, RunLimits DEF Fault
  <2>2. RunTypeOK' /\ WorksAreLinked'
        /\ LeftOf(agentRun', OwnedByWorks') \subseteq LeftOf(agentRun, OwnedByWorks) \cup {work[w].row}
    BY <1>0, <1>4, <2>1, LetGo DEF Busy
  <2>3. M <= L + 1 /\ M \in Nat /\ L \in Nat
    BY <1>0, <1>4, <2>2, LeftBounds
  <2>4. QED BY <1>0, <1>4, <2>1, <2>2, <2>3 DEF RunsInductive, EndsStand
<1>5. CASE CloseFails(w)
  <2>1. faults' \in 0..MaxFaults /\ faults' >= faults /\ UNCHANGED agentRun /\ Fault
        /\ work[w].pc \in {"ok", "error"} /\ work[w].pc \in Busy
    BY <1>0, <1>5, RunLimits DEF CloseFails, Fault, Busy
  <2>2. CASE work' = Retried(w)
    BY <1>4, <2>1, <2>2
  <2>3. CASE work' = [work EXCEPT ![w].pc = "error"]
    <3>1. PICK pc \in {"ok", "error", "done"} : pc = "error"
      OBVIOUS
    <3>2. Goes(pc)
      BY <2>3, <3>1 DEF Goes
    <3>3. QED BY <1>2, <2>1, <3>1, <3>2
  <2>4. QED BY <1>5, <2>2, <2>3 DEF CloseFails
<1>6. CASE WorkEnds(w) \/ RecordWork(w)
  <2>1. UNCHANGED agentRun /\ faults' \in 0..MaxFaults /\ faults' >= faults
    BY <1>0, <1>6, RunLimits DEF WorkEnds, RecordWork
  <2>2. PICK pc \in {"ok", "error", "done"} : Goes(pc)
        /\ ((pc \in {"ok", "error"} /\ work[w].pc \in Busy) \/ (pc = "done" /\ work[w].pc = "record"))
    <3>1. CASE WorkEnds(w)
      <4>1. PICK end \in {"ok", "error"} : Goes(end)
        BY <3>1 DEF WorkEnds, Goes
      <4>2. QED BY <3>1, <4>1 DEF WorkEnds, Busy
    <3>2. CASE RecordWork(w)
      <4>1. PICK pc \in {"ok", "error", "done"} : pc = "done"
        OBVIOUS
      <4>2. QED BY <3>2, <4>1 DEF RecordWork, Goes
    <3>3. QED BY <1>6, <3>1, <3>2
  <2>3. QED BY <1>2, <2>1, <2>2
<1>7. CASE WorkDies(w)
  BY <1>4, <1>7 DEF WorkDies
<1>8. QED BY <1>1, <1>3, <1>5, <1>6, <1>7 DEF WorkStep

LEMMA ReapKeepsWorks == ASSUME RunsInductive, Reap PROVE RunsInductive' /\ EndsStand(Closing)
<1>0. RunTypeOK /\ WorksAreLinked /\ agentRun \in Seq(RunStatus) /\ UNCHANGED <<work, faults>>
  BY DEF RunsInductive, RunTypeOK, Reap
<1>1. /\ agentRun' \in Seq(RunStatus) /\ DOMAIN agentRun' = DOMAIN agentRun
      /\ Len(agentRun') = Len(agentRun)
      /\ \A r \in DOMAIN agentRun :
            agentRun'[r] = agentRun[r] \/ (agentRun[r] = "running" /\ agentRun'[r] = "timed_out")
  BY <1>0, ReapWrites
<1>2. RunTypeOK' /\ WorksAreLinked'
  BY <1>0, <1>1 DEF RunTypeOK, WorksAreLinked, Closable
<1>3. LeftOf(agentRun', OwnedByWorks') \subseteq LeftOf(agentRun, OwnedByWorks)
  BY <1>0, <1>1 DEF LeftOf, OwnedByWorks
<1>4. /\ Cardinality(LeftOf(agentRun', OwnedByWorks')) <= Cardinality(LeftOf(agentRun, OwnedByWorks))
      /\ Cardinality(LeftOf(agentRun', OwnedByWorks')) \in Nat
      /\ Cardinality(LeftOf(agentRun, OwnedByWorks)) \in Nat
  BY <1>0, <1>1, <1>3, LeftBounds
<1>5. EndsStand(Closing)
  BY <1>1 DEF EndsStand
<1>6. QED BY <1>0, <1>2, <1>4, <1>5 DEF RunsInductive, RunTypeOK

LEMMA RunsKept == RunSpec => []RunsInductive
<1>1. RunsInductive /\ [WorkNext]_runVars => RunsInductive'
  <2> SUFFICES ASSUME RunsInductive, [WorkNext]_runVars PROVE RunsInductive'
    OBVIOUS
  <2>1. CASE UNCHANGED runVars
    BY <2>1 DEF runVars, RunsInductive, RunTypeOK, WorksAreLinked, Closable, LeftOf, OwnedByWorks
  <2>2. QED BY <2>1, WorkKeeps, ReapKeepsWorks DEF WorkNext
<1>2. QED BY <1>1, RunInitHolds, PTL DEF RunSpec

(* For any number of works, attempts and faults a row is left running by a fault only, and   *)
(* no two calls close one row (lifecycle/agent-run.ts: withAgentRun closes by id alone).        *)
THEOREM RunsOwned == RunSpec => [](RunTypeOK /\ RunningIsOwned(Closing))
<1>1. RunsInductive => RunTypeOK /\ RunningIsOwned(Closing)
  <2> SUFFICES ASSUME RunsInductive PROVE RunTypeOK /\ RunningIsOwned(Closing)
    OBVIOUS
  <2>1. LeftOf(agentRun, OwnedByWorks)
          = {r \in DOMAIN agentRun : agentRun[r] = "running" /\ \A c \in Closing : c[1] # r}
    <3>1. ASSUME NEW r PROVE r \in OwnedByWorks <=> \E c \in Closing : c[1] = r
      <4>1. ASSUME r \in OwnedByWorks PROVE \E c \in Closing : c[1] = r
        <5>1. PICK w \in Works : work[w].pc \in Busy /\ work[w].row = r
          BY <4>1 DEF OwnedByWorks
        <5>2. <<work[w].row, work[w].pc>> \in Closing
          BY <5>1 DEF Closing
        <5>3. QED BY <5>1, <5>2
      <4>2. QED BY <4>1 DEF OwnedByWorks, Closing
    <3>2. QED BY <3>1 DEF LeftOf
  <2>2. \A c, d \in Closing : c[1] = d[1] => c = d
    BY DEF Closing, RunsInductive, WorksAreLinked
  <2>3. QED BY <2>1, <2>2 DEF RunsInductive, RunningIsOwned
<1>2. QED BY <1>1, RunsKept, PTL

(* An end of a row stands, but for a row reaped while its process was only slow.             *)
THEOREM EndsOnce == RunSpec => [][EndsStand(Closing)]_runVars
<1>1. RunsInductive /\ [WorkNext]_runVars => [EndsStand(Closing)]_runVars
  BY WorkKeeps, ReapKeepsWorks DEF WorkNext
<1>2. QED BY <1>1, RunsKept, PTL DEF RunSpec
-----------------------------------------------------------------------------
(* The suppliers' side of the books.                                        *)

Actors == Guards \cup Desks

\* What a run of the guard, or a reconciliation of the office, holds at each step.
GuardIsLinked(g) ==
    LET r == guard[g] IN
    /\ r.pc # "failed" => r.tries < MaxTries
    /\ IF g \in Desks THEN r.of = Nil /\ r.pc \in Reconciling \cup {"idle", "done"}
       ELSE r.pc = "idle" => r.of = Nil
    /\ r.pc \in Guarding => r.of \in Bills
    /\ r.pc \in Recovering => r.of \in Memos
    /\ g \in Guards /\ r.pc \in Reconciling => r.of \in Mail
    /\ r.pc \in {"email", "begin", "finish", "claim"} => r.job # Nil
    /\ r.pc = "email" => r.plan = "send"
    /\ r.pc \in {"begin", "finish"} => r.plan \in {"send", "defer"}
    /\ r.pc = "finish" => Closable(r.row)
    /\ r.pc \in {"return", "chase", "commit"} => r.job \in Jobs
    /\ r.pc = "chase" => r.anchor \in Mail
    /\ r.pc \notin {"credit", "commit"} => r.claim = 0
    /\ r.pc = "credit" => r.claim \in DOMAIN claims /\ claims[r.claim].status # "drafted"
    /\ r.pc = "commit" /\ r.claim # 0 => r.claim \in Chases(r.job)
    /\ r.pc \in {"chase", "commit"} => ~HasReturn(r.job)

GuardsAreLinked == \A g \in Actors : GuardIsLinked(g)

\* No two close one row, and no two reconcile one job.
NotesApart == \A g, h \in Guards :
    guard[g].pc = "finish" /\ guard[h].pc = "finish" /\ guard[g].row = guard[h].row => g = h
ReturnsApart == \A g, h \in InReturn : guard[g].job = guard[h].job => g = h

Taken(m) == parsed[m] > 0 \/ \E g \in Guards : guard[g].of = m

\* What a run of the parser goes by; once it has announced its invoice it is past its parsing,
\* and the invoice counts.
ParseIsLinked(m) ==
    LET p == parse[m] IN
    /\ p.pc # "failed" => p.tries < MaxTries
    /\ p.pc \in Writing \cup {"record"} => invoice[m].job = p.job
    /\ p.pc \in Writing => p.job \in Jobs
    /\ p.pc \in Writing \cup {"record", "emit", "sent"} => Counts(invoice[m].status)
    /\ Taken(m) => p.pc \in {"emit", "sent", "done", "failed"} /\ Counts(invoice[m].status)

\* What it has read and was not overtaken on is so.
SumsAreCurrent(m) ==
    LET p == parse[m] IN
    ~p.late => /\ p.pc \in {"estimate", "write"} => p.actuals = Actuals(p.job)
               /\ p.pc = "write" => p.estimate = Estimated(p.job)

ParsesAreLinked == \A m \in Mail : ParseIsLinked(m) /\ SumsAreCurrent(m)

\* The starts of a guard that are still to come of an invoice.
Early(m) == IF parse[m].pc \in {"sent", "done", "failed"} THEN 0 ELSE 1
ToCome(m) == parsed[m] + Early(m)

\* The runs that may still mail, claim or credit for it.
WillMail(r, m) == r.of = m /\ r.pc \in {"load", "guard", "email"}
WillClaim(r, m) == r.of = m /\ \/ r.pc \in {"load", "guard", "email", "claim"}
                               \/ r.pc \in {"begin", "finish"} /\ r.plan = "defer"
WillCredit(r, m) == r.of = m /\ r.pc \in {"open", "credit"}
Mailers(m)   == {g \in Guards : WillMail(guard[g], m)}
Claimers(m)  == {g \in Guards : WillClaim(guard[g], m)}
Creditors(m) == {g \in Guards : WillCredit(guard[g], m)}
HasMailed(m) == {g \in Guards : guard[g].of = m /\ Mailed(g)}
Sent(m)      == {c \in Overages(m) : claims[c].status # "drafted"}
Credits(m)   == {c \in DOMAIN claims : m \in claims[c].by}
Chasers(j)   == {g \in InReturn : guard[g].job = j /\ guard[g].claim # 0}

\* Each start pays for one mail, one claim and one credit.
StartsPay(m) ==
    /\ told[m].mailed + Cardinality(Mailers(m)) + ToCome(m) <= 1 + told[m].again
    /\ Cardinality(Overages(m)) + Cardinality(Claimers(m)) + ToCome(m) <= 1 + told[m].again
    /\ Cardinality(Credits(m)) + Cardinality(Creditors(m)) + ToCome(m) <= 1 + told[m].again

MailIsClaimed(m) ==
    told[m].mailed = Cardinality(Sent(m)) + told[m].unclaimed + Cardinality(HasMailed(m))

ClaimsAreCounted == \A m \in Mail : StartsPay(m) /\ MailIsClaimed(m)
CreditsHaveMemos == \A c \in DOMAIN claims : claims[c].status = "credited" <=> claims[c].by # {}
NoReturnNoClaim == \A j \in Jobs : ~HasReturn(j) => matReturn[j].claim = 0

OwnedByNotes == {guard[g].row : g \in {h \in Guards : guard[h].pc = "finish"}}
NobodyWorks == \A w \in Works : work[w].pc = "idle"

SuppliersInductive ==
    /\ SupplierTypeOK /\ GuardsAreLinked /\ NotesApart /\ ReturnsApart /\ NoReturnNoClaim
    /\ ParsesAreLinked /\ CostIsRight
    /\ ClaimsAreCounted /\ CreditsHaveMemos /\ ReturnsAreChasedOnce
    /\ NobodyWorks /\ Cardinality(LeftOf(agentRun, OwnedByNotes)) <= faults


-----------------------------------------------------------------------------
(* What the steps of a guard leave alone.                                  *)

LEMMA FiniteActors ==
  /\ IsFiniteSet(Actors) /\ IsFiniteSet(Guards) /\ Guards \subseteq Actors /\ Desks \subseteq Actors
  /\ Actors = Guards \cup Desks /\ \A g \in Actors : g \in Guards <=> g \notin Desks
<1>1. IsFiniteSet(Actors)
  BY SupplierAssumption DEF Actors
<1>2. IsFiniteSet(Guards)
  BY <1>1, FS_Subset DEF Actors
<1>3. QED BY <1>1, <1>2, SupplierAssumption DEF Actors

LEMMA GuardFields ==
  ASSUME NEW r \in GuardRow
  PROVE  /\ r.pc \in Guarding \cup Recovering \cup Reconciling \cup {"idle", "done", "failed"}
         /\ r.of \in Mail \cup {Nil} /\ r.job \in Jobs \cup {Nil} /\ r.plan \in {"send", "defer", "draft"}
         /\ r.row \in Nat /\ r.claim \in Nat /\ r.anchor \in Mail \cup {Nil} /\ r.tries \in 0..MaxTries
BY DEF GuardRow

\* One actor's record is written.
Turns(g, row) == guard' = [guard EXCEPT ![g] = row]

LEMMA AnyGuard ==
  ASSUME SupplierTypeOK, NEW g \in Actors, NEW row \in GuardRow, Turns(g, row)
  PROVE  /\ guard' \in [Actors -> GuardRow] /\ guard'[g] = row
         /\ \A h \in Actors \ {g} : guard'[h] = guard[h]
<1>1. guard \in [Actors -> GuardRow]
  BY DEF SupplierTypeOK, Actors
<1>2. QED BY <1>1 DEF Turns

\* By how much a set grows when x is in it now, or was before.
Delta(now, before) == (IF now THEN 1 ELSE 0) - (IF before THEN 1 ELSE 0)

\* The actors that may still do something about an invoice or a job change by the one that moves.
LEMMA GuardSets ==
  ASSUME guard \in [Actors -> GuardRow], guard' \in [Actors -> GuardRow], NEW g \in Actors,
         \A h \in Actors \ {g} : guard'[h] = guard[h], NEW m
  PROVE  /\ Cardinality(Mailers(m)) \in Nat
         /\ Cardinality(Mailers(m)') = Cardinality(Mailers(m))
              + Delta(g \in Guards /\ WillMail(guard'[g], m), g \in Guards /\ WillMail(guard[g], m))
         /\ Cardinality(Claimers(m)) \in Nat
         /\ Cardinality(Claimers(m)') = Cardinality(Claimers(m))
              + Delta(g \in Guards /\ WillClaim(guard'[g], m), g \in Guards /\ WillClaim(guard[g], m))
         /\ Cardinality(Creditors(m)) \in Nat
         /\ Cardinality(Creditors(m)') = Cardinality(Creditors(m))
              + Delta(g \in Guards /\ WillCredit(guard'[g], m), g \in Guards /\ WillCredit(guard[g], m))
<1>0. IsFiniteSet(Guards)
  BY FiniteActors
<1>1. /\ Mailers(m) \in SUBSET Guards /\ Mailers(m)' \in SUBSET Guards
      /\ Mailers(m) \ {g} = Mailers(m)' \ {g}
      /\ g \in Mailers(m) <=> g \in Guards /\ WillMail(guard[g], m)
      /\ g \in Mailers(m)' <=> g \in Guards /\ WillMail(guard'[g], m)
  BY DEF Mailers, WillMail, Actors
<1>2. /\ Claimers(m) \in SUBSET Guards /\ Claimers(m)' \in SUBSET Guards
      /\ Claimers(m) \ {g} = Claimers(m)' \ {g}
      /\ g \in Claimers(m) <=> g \in Guards /\ WillClaim(guard[g], m)
      /\ g \in Claimers(m)' <=> g \in Guards /\ WillClaim(guard'[g], m)
  BY DEF Claimers, WillClaim, Actors
<1>3. /\ Creditors(m) \in SUBSET Guards /\ Creditors(m)' \in SUBSET Guards
      /\ Creditors(m) \ {g} = Creditors(m)' \ {g}
      /\ g \in Creditors(m) <=> g \in Guards /\ WillCredit(guard[g], m)
      /\ g \in Creditors(m)' <=> g \in Guards /\ WillCredit(guard'[g], m)
  BY DEF Creditors, WillCredit, Actors
<1>4. /\ Cardinality(Mailers(m)) \in Nat
      /\ Cardinality(Mailers(m)') = Cardinality(Mailers(m)) + Delta(g \in Mailers(m)', g \in Mailers(m))
  BY <1>0, <1>1, CountMoves DEF Delta
<1>5. /\ Cardinality(Claimers(m)) \in Nat
      /\ Cardinality(Claimers(m)') = Cardinality(Claimers(m)) + Delta(g \in Claimers(m)', g \in Claimers(m))
  BY <1>0, <1>2, CountMoves DEF Delta
<1>6. /\ Cardinality(Creditors(m)) \in Nat
      /\ Cardinality(Creditors(m)') = Cardinality(Creditors(m)) + Delta(g \in Creditors(m)', g \in Creditors(m))
  BY <1>0, <1>3, CountMoves DEF Delta
<1>7. QED BY <1>1, <1>2, <1>3, <1>4, <1>5, <1>6 DEF Delta

MailedBy(r, m) == r.of = m /\ r.pc = "claim" /\ r.plan = "send"
Chasing(r, j) == r.pc \in {"chase", "commit"} /\ r.job = j /\ r.claim # 0

LEMMA GuardOwes ==
  ASSUME guard \in [Actors -> GuardRow], guard' \in [Actors -> GuardRow], NEW g \in Actors,
         \A h \in Actors \ {g} : guard'[h] = guard[h], NEW m
  PROVE  /\ Cardinality(HasMailed(m)) \in Nat
         /\ Cardinality(HasMailed(m)') = Cardinality(HasMailed(m))
              + Delta(g \in Guards /\ MailedBy(guard'[g], m), g \in Guards /\ MailedBy(guard[g], m))
         /\ Cardinality(Chasers(m)) \in Nat
         /\ Cardinality(Chasers(m)') = Cardinality(Chasers(m))
              + Delta(Chasing(guard'[g], m), Chasing(guard[g], m))
<1>0. IsFiniteSet(Guards) /\ IsFiniteSet(Actors)
  BY FiniteActors
<1>1. /\ HasMailed(m) \in SUBSET Guards /\ HasMailed(m)' \in SUBSET Guards
      /\ HasMailed(m) \ {g} = HasMailed(m)' \ {g}
      /\ g \in HasMailed(m) <=> g \in Guards /\ MailedBy(guard[g], m)
      /\ g \in HasMailed(m)' <=> g \in Guards /\ MailedBy(guard'[g], m)
  BY DEF HasMailed, MailedBy, Mailed, Actors
<1>2. /\ Chasers(m) \in SUBSET Actors /\ Chasers(m)' \in SUBSET Actors
      /\ Chasers(m) \ {g} = Chasers(m)' \ {g}
      /\ g \in Chasers(m) <=> Chasing(guard[g], m)
      /\ g \in Chasers(m)' <=> Chasing(guard'[g], m)
  BY DEF Chasers, Chasing, InReturn, Actors
<1>3. /\ Cardinality(HasMailed(m)) \in Nat
      /\ Cardinality(HasMailed(m)') = Cardinality(HasMailed(m)) + Delta(g \in HasMailed(m)', g \in HasMailed(m))
  BY <1>0, <1>1, CountMoves DEF Delta
<1>4. /\ Cardinality(Chasers(m)) \in Nat
      /\ Cardinality(Chasers(m)') = Cardinality(Chasers(m)) + Delta(g \in Chasers(m)', g \in Chasers(m))
  BY <1>0, <1>2, CountMoves DEF Delta
<1>5. QED BY <1>1, <1>2, <1>3, <1>4 DEF Delta

-----------------------------------------------------------------------------
(* What a step does to the claims.                                         *)

\* Claims are never taken back, never become drafts again and keep what they are for.
ClaimsGrow ==
    /\ Len(claims) <= Len(claims')
    /\ \A c \in DOMAIN claims :
          /\ c \in DOMAIN claims'
          /\ claims'[c].for = claims[c].for /\ claims'[c].of = claims[c].of /\ claims'[c].job = claims[c].job
          /\ claims[c].status # "drafted" => claims'[c].status # "drafted"

LEMMA ClaimsNumbered ==
  ASSUME claims \in Seq(Claim)
  PROVE  DOMAIN claims = 1..Len(claims) /\ Len(claims) \in Nat /\ IsFiniteSet(DOMAIN claims)
         /\ \A c \in DOMAIN claims : claims[c] \in Claim
<1>1. DOMAIN claims = 1..Len(claims) /\ Len(claims) \in Nat /\ \A c \in DOMAIN claims : claims[c] \in Claim
  OBVIOUS
<1>2. QED BY <1>1, FS_Interval

LEMMA ClaimCounts ==
  ASSUME claims \in Seq(Claim), NEW m
  PROVE  /\ Cardinality(Overages(m)) \in Nat /\ Cardinality(Sent(m)) \in Nat
         /\ Cardinality(Credits(m)) \in Nat /\ Cardinality(Chases(m)) \in Nat
<1>1. IsFiniteSet(DOMAIN claims)
  BY ClaimsNumbered
<1>2. /\ Overages(m) \subseteq DOMAIN claims /\ Sent(m) \subseteq DOMAIN claims
      /\ Credits(m) \subseteq DOMAIN claims /\ Chases(m) \subseteq DOMAIN claims
  BY DEF Overages, Sent, Credits, Chases
<1>3. /\ IsFiniteSet(Overages(m)) /\ IsFiniteSet(Sent(m)) /\ IsFiniteSet(Credits(m)) /\ IsFiniteSet(Chases(m))
  BY <1>1, <1>2, FS_Subset
<1>4. QED BY <1>3, FS_CardinalityType

LEMMA ClaimsSame ==
  ASSUME UNCHANGED claims, NEW m
  PROVE  /\ Cardinality(Overages(m)') = Cardinality(Overages(m))
         /\ Cardinality(Sent(m)') = Cardinality(Sent(m))
         /\ Cardinality(Credits(m)') = Cardinality(Credits(m))
         /\ Cardinality(Chases(m)') = Cardinality(Chases(m))
         /\ Chases(m)' = Chases(m)
<1>1. Overages(m)' = Overages(m)
  BY DEF Overages
<1>2. Sent(m)' = Sent(m)
  BY <1>1 DEF Sent
<1>3. Credits(m)' = Credits(m) /\ Chases(m)' = Chases(m)
  BY DEF Credits, Chases
<1>4. QED BY <1>1, <1>2, <1>3

\* A claim is made.
LEMMA ClaimMade ==
  ASSUME claims \in Seq(Claim), NEW c \in Claim, claims' = Append(claims, c), NEW n, n = Len(claims) + 1
  PROVE  /\ claims' \in Seq(Claim) /\ ClaimsGrow /\ n \in Nat /\ n # 0
         /\ DOMAIN claims' = DOMAIN claims \cup {n} /\ n \notin DOMAIN claims /\ claims'[n] = c
         /\ \A k \in DOMAIN claims : claims'[k] = claims[k]
<1>1. DOMAIN claims = 1..Len(claims) /\ Len(claims) \in Nat
  BY ClaimsNumbered
<1>2. claims' \in Seq(Claim) /\ Len(claims') = n /\ DOMAIN claims' = 1..n /\ n \in Nat
  BY <1>1
<1>3. claims'[n] = c /\ \A k \in DOMAIN claims : claims'[k] = claims[k]
  BY <1>1
<1>4. DOMAIN claims' = DOMAIN claims \cup {n} /\ n \notin DOMAIN claims
  BY <1>1, <1>2
<1>5. ClaimsGrow
  BY <1>1, <1>2, <1>3 DEF ClaimsGrow
<1>6. QED BY <1>2, <1>3, <1>4, <1>5

LEMMA ClaimCounted ==
  ASSUME claims \in Seq(Claim), NEW c \in Claim, claims' = Append(claims, c), c.by = {}, NEW m
  PROVE  /\ Cardinality(Overages(m)') = Cardinality(Overages(m)) + Delta(c.for = "overage" /\ c.of = m, FALSE)
         /\ Cardinality(Sent(m)') = Cardinality(Sent(m))
              + Delta(c.for = "overage" /\ c.of = m /\ c.status # "drafted", FALSE)
         /\ Cardinality(Credits(m)') = Cardinality(Credits(m))
         /\ Cardinality(Chases(m)') = Cardinality(Chases(m)) + Delta(c.for = "return" /\ c.job = m, FALSE)
<1> DEFINE n == Len(claims) + 1
<1>1. /\ DOMAIN claims' = DOMAIN claims \cup {n} /\ n \notin DOMAIN claims /\ claims'[n] = c
      /\ \A k \in DOMAIN claims : claims'[k] = claims[k]
  BY ClaimMade
<1>2. claims' \in Seq(Claim)
  BY ClaimMade
<1> DEFINE W == DOMAIN claims \cup {n}
<1>3. IsFiniteSet(W)
  BY ClaimsNumbered, FS_AddElement
<1> HIDE DEF n
<1>4. /\ Overages(m) \in SUBSET W /\ Overages(m)' \in SUBSET W /\ Overages(m) \ {n} = Overages(m)' \ {n}
      /\ n \notin Overages(m) /\ (n \in Overages(m)' <=> c.for = "overage" /\ c.of = m)
  BY <1>1 DEF Overages
<1>5. /\ Sent(m) \in SUBSET W /\ Sent(m)' \in SUBSET W /\ Sent(m) \ {n} = Sent(m)' \ {n}
      /\ n \notin Sent(m) /\ (n \in Sent(m)' <=> c.for = "overage" /\ c.of = m /\ c.status # "drafted")
  BY <1>1 DEF Sent, Overages
<1>6. Credits(m)' = Credits(m)
  BY <1>1 DEF Credits
<1>7. /\ Chases(m) \in SUBSET W /\ Chases(m)' \in SUBSET W /\ Chases(m) \ {n} = Chases(m)' \ {n}
      /\ n \notin Chases(m) /\ (n \in Chases(m)' <=> c.for = "return" /\ c.job = m)
  BY <1>1 DEF Chases
<1> HIDE DEF W
<1>8. Cardinality(Overages(m)') = Cardinality(Overages(m)) + Delta(n \in Overages(m)', FALSE)
  BY <1>3, <1>4, CountMoves DEF Delta
<1>9. Cardinality(Sent(m)') = Cardinality(Sent(m)) + Delta(n \in Sent(m)', FALSE)
  BY <1>3, <1>5, CountMoves DEF Delta
<1>10. Cardinality(Chases(m)') = Cardinality(Chases(m)) + Delta(n \in Chases(m)', FALSE)
  BY <1>3, <1>7, CountMoves DEF Delta
<1>11. QED BY <1>4, <1>5, <1>6, <1>7, <1>8, <1>9, <1>10 DEF Delta

\* A claim is settled by a memo.
LEMMA ClaimSettled ==
  ASSUME claims \in Seq(Claim), NEW n \in DOMAIN claims, NEW a \in Memos, claims[n].status # "drafted",
         claims' = [claims EXCEPT ![n].status = "credited", ![n].by = @ \cup {a}]
  PROVE  /\ claims' \in Seq(Claim) /\ ClaimsGrow /\ Len(claims') = Len(claims)
         /\ DOMAIN claims' = DOMAIN claims /\ claims'[n].status = "credited" /\ claims'[n].by # {}
         /\ \A k \in DOMAIN claims \ {n} : claims'[k] = claims[k]
         /\ \A m : /\ Cardinality(Overages(m)') = Cardinality(Overages(m))
                   /\ Cardinality(Sent(m)') = Cardinality(Sent(m))
                   /\ Cardinality(Credits(m)') <= Cardinality(Credits(m)) + Delta(m = a, FALSE)
                   /\ Cardinality(Chases(m)') = Cardinality(Chases(m))
<1> DEFINE c == [claims[n] EXCEPT !.status = "credited", !.by = @ \cup {a}]
<1>0. DOMAIN claims = 1..Len(claims) /\ Len(claims) \in Nat /\ claims[n] \in Claim /\ IsFiniteSet(DOMAIN claims)
  BY ClaimsNumbered
<1>1. /\ c \in Claim /\ c.status = "credited" /\ c.by = claims[n].by \cup {a}
      /\ c.for = claims[n].for /\ c.of = claims[n].of /\ c.job = claims[n].job
  BY <1>0 DEF Claim
<1>2. claims' = [claims EXCEPT ![n] = c]
  BY <1>0
<1> HIDE DEF c
<1>3. /\ claims' \in Seq(Claim) /\ Len(claims') = Len(claims) /\ DOMAIN claims' = DOMAIN claims
      /\ claims'[n] = c /\ \A k \in DOMAIN claims \ {n} : claims'[k] = claims[k]
  <2>1. claims \in [1..Len(claims) -> Claim]
    BY <1>0
  <2>2. claims' \in [1..Len(claims) -> Claim]
    BY <1>0, <1>1, <1>2, <2>1
  <2>3. claims' \in Seq(Claim) /\ Len(claims') = Len(claims) /\ DOMAIN claims' = DOMAIN claims
    <3>1. claims' = [i \in 1..Len(claims) |-> claims'[i]] /\ \A i \in 1..Len(claims) : claims'[i] \in Claim
      BY <2>2
    <3>2. QED BY <1>0, <3>1, SMTT(30)
  <2>4. claims'[n] = c /\ \A k \in DOMAIN claims \ {n} : claims'[k] = claims[k]
    BY <1>2, <2>1
  <2>5. QED BY <2>3, <2>4
<1>4. ClaimsGrow
  BY <1>0, <1>1, <1>3 DEF ClaimsGrow
<1>5. ASSUME NEW m
      PROVE  /\ Cardinality(Overages(m)') = Cardinality(Overages(m))
             /\ Cardinality(Sent(m)') = Cardinality(Sent(m))
             /\ Cardinality(Credits(m)') <= Cardinality(Credits(m)) + Delta(m = a, FALSE)
             /\ Cardinality(Chases(m)') = Cardinality(Chases(m))
  <2>1. Overages(m)' = Overages(m)
    BY <1>1, <1>3 DEF Overages
  <2>2. Sent(m)' = Sent(m)
    BY <1>1, <1>3, <2>1 DEF Sent, Overages
  <2>3. Chases(m)' = Chases(m)
    BY <1>1, <1>3 DEF Chases
  <2>4. /\ Credits(m) \in SUBSET DOMAIN claims /\ Credits(m)' \in SUBSET DOMAIN claims
        /\ Credits(m) \ {n} = Credits(m)' \ {n}
        /\ n \in Credits(m)' => n \in Credits(m) \/ m = a
    BY <1>1, <1>3 DEF Credits
  <2>5. /\ Cardinality(Credits(m)) \in Nat
        /\ Cardinality(Credits(m)') = Cardinality(Credits(m)) + Delta(n \in Credits(m)', n \in Credits(m))
    <3> DEFINE W == DOMAIN claims
               S == Credits(m)
               T == Credits(m)'
    <3>1. IsFiniteSet(W) /\ S \in SUBSET W /\ T \in SUBSET W /\ S \ {n} = T \ {n}
      BY <1>0, <2>4
    <3> HIDE DEF W, S, T
    <3>2. Cardinality(S) \in Nat /\ Cardinality(T) = Cardinality(S) + Delta(n \in T, n \in S)
      BY <3>1, CountMoves DEF Delta
    <3>3. QED BY <3>2 DEF S, T
  <2>6. QED BY <2>1, <2>2, <2>3, <2>4, <2>5 DEF Delta
<1>6. QED BY <1>1, <1>3, <1>4, <1>5

-----------------------------------------------------------------------------
(* What a step leaves of the costs, the parser, the other actors and the rows *)
(* of agent runs.                                                          *)

LEMMA BilledIsActual ==
  ASSUME NEW j
  PROVE  /\ Actuals(j) \in Nat /\ Billed(j) = Actuals(j)
         /\ CostOf(j) = JobCost(Actuals(j), Estimated(j)) /\ Estimated(j) \in Nat
<1>1. IsFiniteSet({b \in Bills : invoice[b].job = j /\ Counts(invoice[b].status)})
  BY SupplierAssumption, FS_Subset
<1>2. Actuals(j) \in Nat /\ Estimated(j) \in Nat
  BY <1>1, SupplierAssumption, FS_CardinalityType DEF Actuals, Estimated
<1>3. Billed(j) = Actuals(j)
  BY DEF Billed, Actuals, Counts
<1>4. QED BY <1>2, <1>3 DEF CostOf, JobCost, Estimated

BillsStand(j) == \A b \in Bills : invoice'[b].job = j /\ Counts(invoice'[b].status)
                                    <=> invoice[b].job = j /\ Counts(invoice[b].status)
InvoicesStand == \A m \in Mail : /\ invoice'[m].job = invoice[m].job
                                 /\ Counts(invoice'[m].status) <=> Counts(invoice[m].status)

LEMMA ActualsStand ==
  ASSUME NEW j, BillsStand(j)
  PROVE  Actuals(j)' = Actuals(j)
<1>1. {b \in Bills : invoice'[b].job = j /\ Counts(invoice'[b].status)}
        = {b \in Bills : invoice[b].job = j /\ Counts(invoice[b].status)}
  BY DEF BillsStand
<1>2. QED BY <1>1 DEF Actuals, Counts

LEMMA AllActualsStand ==
  ASSUME InvoicesStand, NEW j
  PROVE  Actuals(j)' = Actuals(j)
BY ActualsStand DEF InvoicesStand, BillsStand, Mail

LEMMA CostStands ==
  ASSUME InvoicesStand, UNCHANGED <<costVars, parse>>
  PROVE  /\ CostIsRight => CostIsRight'
         /\ \A m : SumsAreCurrent(m) => SumsAreCurrent(m)'
<1>1. \A j : Actuals(j)' = Actuals(j) /\ Estimated(j)' = Estimated(j)
  BY AllActualsStand DEF costVars, Estimated, IsOpen
<1>2. \A j : CostOf(j)' = CostOf(j)
  <2>1. \A j : CostOf(j) = JobCost(Actuals(j), Estimated(j))
    BY BilledIsActual
  <2>2. \A j : CostOf(j)' = JobCost(Actuals(j)', Estimated(j)')
    BY DEF CostOf, Billed, Actuals, Counts, JobCost, Estimated, IsOpen
  <2>3. QED BY <1>1, <2>1, <2>2
<1>3. CostIsRight => CostIsRight'
  BY <1>2 DEF CostIsRight, costVars
<1>4. ASSUME NEW m, SumsAreCurrent(m) PROVE SumsAreCurrent(m)'
  BY <1>1, <1>4 DEF SumsAreCurrent
<1>5. QED BY <1>3, <1>4

LEMMA ParsesStand ==
  ASSUME InvoicesStand, UNCHANGED <<costVars, parse>>, ParsesAreLinked, \A m \in Mail : Taken(m)' => Taken(m)
  PROVE  ParsesAreLinked'
<1>1. ASSUME NEW m \in Mail PROVE ParseIsLinked(m)'
  <2>1. ParseIsLinked(m) /\ (Taken(m)' => Taken(m)) /\ parse'[m] = parse[m]
    BY DEF ParsesAreLinked
  <2>2. invoice'[m].job = invoice[m].job /\ (Counts(invoice[m].status) => Counts(invoice'[m].status))
    BY DEF InvoicesStand
  <2>3. Counts(invoice[m].status) => Counts(invoice[m].status)'
    BY <2>2 DEF Counts
  <2> HIDE DEF Taken
  <2>4. QED BY <2>1, <2>2, <2>3 DEF ParseIsLinked
<1>2. QED BY <1>1, CostStands DEF ParsesAreLinked

LEMMA OtherStaysLinked ==
  ASSUME claims \in Seq(Claim), NEW h \in Actors, GuardIsLinked(h), guard'[h] = guard[h], ClaimsGrow,
         guard[h].pc = "finish" => Closable(guard[h].row)',
         guard[h].pc \in {"chase", "commit"} => ~HasReturn(guard[h].job)'
  PROVE  GuardIsLinked(h)'
<1>1. guard[h].pc = "credit" => guard[h].claim \in DOMAIN claims' /\ claims'[guard[h].claim].status # "drafted"
  BY DEF GuardIsLinked, ClaimsGrow
<1>2. guard[h].claim \in Chases(guard[h].job) => guard[h].claim \in Chases(guard[h].job)'
  BY DEF ClaimsGrow, Chases
<1>3. QED BY <1>1, <1>2 DEF GuardIsLinked

\* Rows keep their owners.
LEMMA NotesStand ==
  ASSUME agentRun \in Seq(RunStatus), UNCHANGED agentRun, NEW g \in Actors,
         \A h \in Actors \ {g} : guard'[h] = guard[h], guard'[g].pc # "finish",
         faults \in Nat, faults' \in Nat,
         IF g \in Guards /\ guard[g].pc = "finish" THEN faults' >= faults + 1 ELSE faults' >= faults
  PROVE  /\ NotesApart => NotesApart'
         /\ Cardinality(LeftOf(agentRun, OwnedByNotes)) <= faults
              => Cardinality(LeftOf(agentRun, OwnedByNotes))' <= faults'
<1>1. NotesApart => NotesApart'
  BY DEF NotesApart, Actors
<1> DEFINE n == IF g \in Guards /\ guard[g].pc = "finish" THEN 1 ELSE 0
           L == Cardinality(LeftOf(agentRun, OwnedByNotes))
           M == Cardinality(LeftOf(agentRun', OwnedByNotes'))
<1>2. CASE g \in Guards /\ guard[g].pc = "finish"
  <2>1. LeftOf(agentRun', OwnedByNotes') \subseteq LeftOf(agentRun, OwnedByNotes) \cup {guard[g].row}
    BY DEF LeftOf, OwnedByNotes, Actors
  <2>2. L \in Nat /\ M \in Nat /\ M <= L + 1
    BY <2>1, LeftBounds
  <2>3. L <= faults => M <= faults'
    BY <1>2, <2>2
  <2>4. QED BY <1>1, <2>3 DEF LeftOf
<1>3. CASE ~(g \in Guards /\ guard[g].pc = "finish")
  <2>1. LeftOf(agentRun', OwnedByNotes') \subseteq LeftOf(agentRun, OwnedByNotes)
    BY <1>3 DEF LeftOf, OwnedByNotes, Actors
  <2>2. L \in Nat /\ M \in Nat /\ M <= L
    BY <2>1, LeftBounds
  <2>3. L <= faults => M <= faults'
    BY <1>3, <2>2
  <2>4. QED BY <1>1, <2>3 DEF LeftOf
<1>4. QED BY <1>2, <1>3

\* Whoever is in a reconciliation stays in it alone.
LEMMA ReturnsStand ==
  ASSUME NEW g \in Actors, \A h \in Actors \ {g} : guard'[h] = guard[h],
         guard'[g].pc \in {"chase", "commit"} =>
            guard[g].pc \in {"chase", "commit"} /\ guard'[g].job = guard[g].job,
         ReturnsApart
  PROVE  ReturnsApart'
BY DEF ReturnsApart, InReturn, Actors

-----------------------------------------------------------------------------
(* The counts after a step of one actor.                                   *)

LEMMA ToldFields ==
  ASSUME told \in [Mail -> ToldRow], NEW m \in Mail
  PROVE  told[m].mailed \in Nat /\ told[m].again \in Nat /\ told[m].unclaimed \in Nat /\ told[m].skipped \in BOOLEAN
BY DEF ToldRow

\* What is told of an invoice pays for what a step adds to its mails, claims and credits.
Paid(g, m) ==
    /\ told'[m].mailed - told[m].mailed
         + Delta(g \in Guards /\ WillMail(guard'[g], m), g \in Guards /\ WillMail(guard[g], m))
         <= told'[m].again - told[m].again
    /\ Delta(g \in Guards /\ WillClaim(guard'[g], m), g \in Guards /\ WillClaim(guard[g], m))
         <= told'[m].again - told[m].again
    /\ Delta(g \in Guards /\ WillCredit(guard'[g], m), g \in Guards /\ WillCredit(guard[g], m))
         <= told'[m].again - told[m].again
    /\ told'[m].mailed - told[m].mailed
         = told'[m].unclaimed - told[m].unclaimed
             + Delta(g \in Guards /\ MailedBy(guard'[g], m), g \in Guards /\ MailedBy(guard[g], m))

LEMMA StartsStillPay ==
  ASSUME SupplierTypeOK, ClaimsAreCounted, NEW g \in Actors, guard' \in [Actors -> GuardRow],
         \A h \in Actors \ {g} : guard'[h] = guard[h], told' \in [Mail -> ToldRow],
         UNCHANGED <<claims, parsed, parse>>, \A m \in Mail : Paid(g, m)
  PROVE  ClaimsAreCounted'
<1>1. guard \in [Actors -> GuardRow] /\ claims \in Seq(Claim) /\ told \in [Mail -> ToldRow]
      /\ parsed \in [Mail -> Nat]
  BY DEF SupplierTypeOK, Actors
<1>2. ASSUME NEW m \in Mail PROVE StartsPay(m)' /\ MailIsClaimed(m)'
  <2> DEFINE a == Cardinality(Mailers(m))
             b == Cardinality(Claimers(m))
             c == Cardinality(Creditors(m))
             d == Cardinality(HasMailed(m))
             t == told[m]
             u == told'[m]
  <2>1. StartsPay(m) /\ MailIsClaimed(m) /\ Paid(g, m)
    BY DEF ClaimsAreCounted
  <2>2. /\ a \in Nat /\ a' - a = Delta(g \in Guards /\ WillMail(guard'[g], m), g \in Guards /\ WillMail(guard[g], m))
        /\ b \in Nat /\ b' - b = Delta(g \in Guards /\ WillClaim(guard'[g], m), g \in Guards /\ WillClaim(guard[g], m))
        /\ c \in Nat
        /\ c' - c = Delta(g \in Guards /\ WillCredit(guard'[g], m), g \in Guards /\ WillCredit(guard[g], m))
        /\ a' \in Int /\ b' \in Int /\ c' \in Int
    BY <1>1, GuardSets, SMTT(30) DEF Delta
  <2>3. /\ d \in Nat /\ d' \in Int
        /\ d' - d = Delta(g \in Guards /\ MailedBy(guard'[g], m), g \in Guards /\ MailedBy(guard[g], m))
    BY <1>1, GuardOwes DEF Delta
  <2>4. /\ Cardinality(Overages(m)') = Cardinality(Overages(m)) /\ Cardinality(Sent(m)') = Cardinality(Sent(m))
        /\ Cardinality(Credits(m)') = Cardinality(Credits(m))
        /\ Cardinality(Overages(m)) \in Nat /\ Cardinality(Sent(m)) \in Nat /\ Cardinality(Credits(m)) \in Nat
    BY <1>1, ClaimsSame, ClaimCounts
  <2>5. t.mailed \in Nat /\ t.again \in Nat /\ t.unclaimed \in Nat /\ u.mailed \in Nat /\ u.again \in Nat
        /\ u.unclaimed \in Nat
    BY <1>1, ToldFields DEF ToldRow
  <2>6. ToCome(m)' = ToCome(m) /\ ToCome(m) \in Nat
    BY <1>1 DEF ToCome, Early
  <2>7. /\ u.mailed - t.mailed + (a' - a) <= u.again - t.again
        /\ b' - b <= u.again - t.again /\ c' - c <= u.again - t.again
        /\ u.mailed - t.mailed = u.unclaimed - t.unclaimed + (d' - d)
    BY <2>1, <2>2, <2>3 DEF Paid
  <2>8. /\ t.mailed + a + ToCome(m) <= 1 + t.again
        /\ Cardinality(Overages(m)) + b + ToCome(m) <= 1 + t.again
        /\ Cardinality(Credits(m)) + c + ToCome(m) <= 1 + t.again
        /\ t.mailed = Cardinality(Sent(m)) + t.unclaimed + d
    BY <2>1 DEF StartsPay, MailIsClaimed
  <2> DEFINE o == Cardinality(Overages(m))
             s == Cardinality(Sent(m))
             e == Cardinality(Credits(m))
             f == ToCome(m)
  <2>9. /\ a \in Nat /\ b \in Nat /\ c \in Nat /\ d \in Nat /\ a' \in Int /\ b' \in Int /\ c' \in Int /\ d' \in Int
        /\ o \in Nat /\ s \in Nat /\ e \in Nat /\ f \in Nat /\ o' = o /\ s' = s /\ e' = e /\ f' = f
    BY <2>2, <2>3, <2>4, <2>6
  <2>10. t.mailed + a + f <= 1 + t.again /\ o + b + f <= 1 + t.again /\ e + c + f <= 1 + t.again
         /\ t.mailed = s + t.unclaimed + d
    BY <2>8
  <2> HIDE DEF a, b, c, d, t, u, o, s, e, f
  <2>11. u.mailed + a' + f' <= 1 + u.again
    BY <2>5, <2>7, <2>9, <2>10
  <2>12. o' + b' + f' <= 1 + u.again
    BY <2>5, <2>7, <2>9, <2>10
  <2>13. e' + c' + f' <= 1 + u.again
    BY <2>5, <2>7, <2>9, <2>10
  <2>14. u.mailed = s' + u.unclaimed + d'
    BY <2>5, <2>7, <2>9, <2>10
  <2>15. QED BY <2>11, <2>12, <2>13, <2>14 DEF StartsPay, MailIsClaimed, a, b, c, d, u, o, s, e, f
<1>3. QED BY <1>2 DEF ClaimsAreCounted

LEMMA QuietCounts ==
  ASSUME SupplierTypeOK, ClaimsAreCounted, CreditsHaveMemos, NEW g \in Actors, guard' \in [Actors -> GuardRow],
         \A h \in Actors \ {g} : guard'[h] = guard[h], UNCHANGED <<claims, told, parsed, parse>>,
         g \in Guards => \A m \in Mail : /\ WillMail(guard'[g], m) => WillMail(guard[g], m)
                                         /\ WillClaim(guard'[g], m) => WillClaim(guard[g], m)
                                         /\ WillCredit(guard'[g], m) => WillCredit(guard[g], m)
                                         /\ MailedBy(guard'[g], m) <=> MailedBy(guard[g], m)
  PROVE  ClaimsAreCounted' /\ CreditsHaveMemos'
<1>1. told \in [Mail -> ToldRow] /\ told' \in [Mail -> ToldRow]
  BY DEF SupplierTypeOK
<1>2. \A m \in Mail : Paid(g, m)
  BY <1>1, ToldFields DEF Paid, Delta
<1>3. CreditsHaveMemos'
  BY DEF CreditsHaveMemos
<1>4. QED BY <1>1, <1>2, <1>3, StartsStillPay

ChaseIsCounted(j) ==
    /\ matReturn[j].claim # 0 => matReturn[j].claim \in Chases(j)
    /\ Cardinality(Chases(j)) = rolled[j] + (IF matReturn[j].claim # 0 THEN 1 ELSE 0) + Cardinality(Chasers(j))

LEMMA ChasesAreCounted == ReturnsAreChasedOnce <=> \A j \in Jobs : ChaseIsCounted(j)
BY DEF ReturnsAreChasedOnce, ChaseIsCounted, Chasers

LEMMA ChasesAreCountedNext == ReturnsAreChasedOnce' <=> \A j \in Jobs : ChaseIsCounted(j)'
BY DEF ReturnsAreChasedOnce, ChaseIsCounted, Chasers

LEMMA QuietReturns ==
  ASSUME SupplierTypeOK, ReturnsAreChasedOnce, NEW g \in Actors, guard' \in [Actors -> GuardRow],
         \A h \in Actors \ {g} : guard'[h] = guard[h], UNCHANGED matReturn,
         \A j \in Jobs : Chases(j)' = Chases(j),
         \A j \in Jobs : rolled'[j] - rolled[j] + Delta(Chasing(guard'[g], j), Chasing(guard[g], j)) = 0,
         rolled' \in [Jobs -> Nat]
  PROVE  ReturnsAreChasedOnce'
<1>1. guard \in [Actors -> GuardRow] /\ claims \in Seq(Claim) /\ rolled \in [Jobs -> Nat]
  BY DEF SupplierTypeOK, Actors
<1>2. ASSUME NEW j \in Jobs PROVE ChaseIsCounted(j)'
  <2> DEFINE a == Cardinality(Chasers(j))
             n == Cardinality(Chases(j))
             k == IF matReturn[j].claim # 0 THEN 1 ELSE 0
  <2>1. ChaseIsCounted(j) /\ Chases(j)' = Chases(j)
    BY ChasesAreCounted
  <2>2. a \in Nat /\ a' \in Int /\ a' - a = Delta(Chasing(guard'[g], j), Chasing(guard[g], j))
    <3>1. a \in Nat /\ a' = a + Delta(Chasing(guard'[g], j), Chasing(guard[g], j))
      BY <1>1, GuardOwes
    <3>2. Delta(Chasing(guard'[g], j), Chasing(guard[g], j)) \in Int
      BY DEF Delta
    <3>3. QED BY <3>1, <3>2
  <2>3. n \in Nat /\ n' = n /\ k \in Nat /\ k' = k /\ rolled[j] \in Nat /\ rolled'[j] \in Nat
    BY <1>1, <2>1, ClaimCounts
  <2>4. rolled'[j] - rolled[j] + (a' - a) = 0
    BY <2>2
  <2>5. n = rolled[j] + k + a
    BY <2>1 DEF ChaseIsCounted
  <2> HIDE DEF a, n, k
  <2>6. n' = rolled'[j] + k' + a'
    BY <2>2, <2>3, <2>4, <2>5
  <2>7. QED BY <2>1, <2>6 DEF ChaseIsCounted, a, n, k
<1>3. QED BY <1>2, ChasesAreCountedNext

-----------------------------------------------------------------------------
(* A step of one actor that leaves the rows of agent runs and the returns. *)

LEMMA ClaimsUnchanged ==
  ASSUME claims \in Seq(Claim), UNCHANGED claims
  PROVE  ClaimsGrow /\ \A j : Chases(j)' = Chases(j)
<1>1. Len(claims) \in Nat
  BY ClaimsNumbered
<1>2. QED BY <1>1 DEF ClaimsGrow, Chases

LEMMA TypesOf ==
  ASSUME SupplierTypeOK
  PROVE  /\ RunTypeOK /\ agentRun \in Seq(RunStatus) /\ faults \in 0..MaxFaults /\ faults \in Nat
         /\ work \in [Works -> WorkRow]
         /\ invoice \in [Mail -> InvoiceRow] /\ cost \in [Jobs -> Nat] /\ parse \in [Mail -> ParseRow]
         /\ parsed \in [Mail -> Nat] /\ guard \in [Actors -> GuardRow] /\ claims \in Seq(Claim)
         /\ matReturn \in [Jobs -> ReturnRow] /\ told \in [Mail -> ToldRow] /\ rolled \in [Jobs -> Nat]
BY RunLimits DEF SupplierTypeOK, RunTypeOK, Actors

LEMMA GuardStepKeeps ==
  ASSUME SuppliersInductive, NEW g \in Actors, NEW row \in GuardRow, Turns(g, row),
         UNCHANGED <<agentRun, work, costVars, parseVars, matReturn>>, leftover' \in [Jobs -> BOOLEAN],
         faults' \in 0..MaxFaults,
         IF guard[g].pc = "finish" THEN faults' >= faults + 1 ELSE faults' >= faults,
         invoice' \in [Mail -> InvoiceRow], InvoicesStand,
         parsed' \in [Mail -> Nat], told' \in [Mail -> ToldRow], rolled' \in [Jobs -> Nat],
         claims' \in Seq(Claim), ClaimsGrow, row.pc # "finish",
         row.pc \in {"chase", "commit"} => \/ guard[g].pc \in {"chase", "commit"} /\ row.job = guard[g].job
                                           \/ ReturnsApart',
         \A m \in Mail : Taken(m)' => Taken(m), GuardIsLinked(g)',
         ClaimsAreCounted', CreditsHaveMemos', ReturnsAreChasedOnce'
  PROVE  SuppliersInductive'
<1>1. /\ SupplierTypeOK /\ GuardsAreLinked /\ NotesApart /\ ReturnsApart /\ NoReturnNoClaim
      /\ ParsesAreLinked /\ CostIsRight /\ NobodyWorks /\ Cardinality(LeftOf(agentRun, OwnedByNotes)) <= faults
  BY DEF SuppliersInductive
<1>2. guard' \in [Actors -> GuardRow] /\ guard'[g] = row /\ \A h \in Actors \ {g} : guard'[h] = guard[h]
  BY <1>1, AnyGuard
<1>3. agentRun \in Seq(RunStatus) /\ claims \in Seq(Claim) /\ faults \in Nat /\ faults' \in Nat
      /\ Len(claims) \in Nat /\ Len(claims') \in Nat
  BY <1>1, TypesOf, RunLimits
<1>4. SupplierTypeOK'
  <2>1. RunTypeOK'
    BY <1>1 DEF SupplierTypeOK, RunTypeOK
  <2>2. \A j \in Jobs : matReturn'[j].claim \in 0..Len(claims')
    BY <1>1, <1>3 DEF SupplierTypeOK, ClaimsGrow
  <2>3. QED BY <1>1, <1>2, <2>1, <2>2 DEF SupplierTypeOK, Actors, costVars, parseVars
<1>5. GuardsAreLinked'
  <2>1. ASSUME NEW h \in Actors \ {g} PROVE GuardIsLinked(h)'
    <3>1. GuardIsLinked(h) /\ guard'[h] = guard[h] /\ h \in Actors
      BY <1>1, <1>2 DEF GuardsAreLinked
    <3>2. guard[h].pc = "finish" => Closable(guard[h].row)'
      BY <3>1 DEF GuardIsLinked, Closable
    <3>3. guard[h].pc \in {"chase", "commit"} => ~HasReturn(guard[h].job)'
      BY <3>1 DEF GuardIsLinked, HasReturn
    <3>4. QED BY <1>3, <3>1, <3>2, <3>3, OtherStaysLinked
  <2>2. QED BY <2>1 DEF GuardsAreLinked
<1>6. NotesApart' /\ Cardinality(LeftOf(agentRun, OwnedByNotes))' <= faults'
  <2>1. guard'[g].pc # "finish"
    BY <1>2
  <2>2. IF g \in Guards /\ guard[g].pc = "finish" THEN faults' >= faults + 1 ELSE faults' >= faults
    BY <1>3
  <2>3. QED BY <1>1, <1>2, <1>3, <2>1, <2>2, NotesStand
<1>7. ReturnsApart' /\ NoReturnNoClaim'
  <2>1. ReturnsApart'
    BY <1>1, <1>2, ReturnsStand
  <2>2. QED BY <1>1, <2>1 DEF NoReturnNoClaim, HasReturn
<1>8. ParsesAreLinked' /\ CostIsRight'
  BY <1>1, ParsesStand, CostStands DEF parseVars
<1>9. NobodyWorks'
  BY <1>1 DEF NobodyWorks
<1>10. QED BY <1>4, <1>5, <1>6, <1>7, <1>8, <1>9 DEF SuppliersInductive

\* And that leaves the claims, the returns and what is told of the invoices too.
LEMMA QuietStepKeeps ==
  ASSUME SuppliersInductive, NEW g \in Actors, NEW row \in GuardRow, Turns(g, row),
         UNCHANGED <<runVars, costVars, parseVars, parsed, claims, matReturn, rolled, told>>,
         leftover' \in [Jobs -> BOOLEAN],
         invoice' \in [Mail -> InvoiceRow], InvoicesStand,
         guard[g].pc # "finish", row.pc # "finish",
         row.pc \in {"chase", "commit"} => \/ guard[g].pc \in {"chase", "commit"} /\ row.job = guard[g].job
                                           \/ ReturnsApart',
         g \in Guards => row.of \in {guard[g].of, Nil},
         g \in Guards => \A m \in Mail : /\ WillMail(row, m) => WillMail(guard[g], m)
                                         /\ WillClaim(row, m) => WillClaim(guard[g], m)
                                         /\ WillCredit(row, m) => WillCredit(guard[g], m)
                                         /\ MailedBy(row, m) <=> MailedBy(guard[g], m),
         \A j \in Jobs : Chasing(row, j) <=> Chasing(guard[g], j),
         GuardIsLinked(g)'
  PROVE  SuppliersInductive'
<1>1. /\ SupplierTypeOK /\ ClaimsAreCounted /\ CreditsHaveMemos /\ ReturnsAreChasedOnce
  BY DEF SuppliersInductive
<1>2. guard' \in [Actors -> GuardRow] /\ guard'[g] = row /\ \A h \in Actors \ {g} : guard'[h] = guard[h]
  BY <1>1, AnyGuard
<1>3. /\ faults \in 0..MaxFaults /\ faults \in Nat /\ claims \in Seq(Claim) /\ told \in [Mail -> ToldRow]
      /\ rolled \in [Jobs -> Nat] /\ parsed \in [Mail -> Nat]
  BY <1>1, TypesOf
<1>4. ClaimsAreCounted' /\ CreditsHaveMemos'
  BY <1>1, <1>2, QuietCounts DEF parseVars
<1>5. ClaimsGrow /\ \A j \in Jobs : Chases(j)' = Chases(j)
  BY <1>3, ClaimsUnchanged
<1>6. ReturnsAreChasedOnce'
  <2>1. \A j \in Jobs : rolled'[j] - rolled[j] + Delta(Chasing(guard'[g], j), Chasing(guard[g], j)) = 0
    BY <1>2, <1>3 DEF Delta
  <2>2. QED BY <1>1, <1>2, <1>3, <1>5, <2>1, QuietReturns
<1>7. \A m \in Mail : Taken(m)' => Taken(m)
  <2>1. Nil \notin Mail
    BY SupplierAssumption DEF Mail
  <2>2. QED BY <1>2, <2>1, FiniteActors DEF Taken
<1>8. /\ UNCHANGED <<agentRun, work, costVars, parseVars, matReturn>> /\ faults' \in 0..MaxFaults
      /\ IF guard[g].pc = "finish" THEN faults' >= faults + 1 ELSE faults' >= faults
      /\ parsed' \in [Mail -> Nat] /\ told' \in [Mail -> ToldRow] /\ rolled' \in [Jobs -> Nat]
      /\ claims' \in Seq(Claim)
  BY <1>3 DEF runVars
<1>9. QED BY <1>4, <1>5, <1>6, <1>7, <1>8, GuardStepKeeps

-----------------------------------------------------------------------------
(* The steps of a guard and of a reconciliation, one by one.               *)

\* What the pc's of the three parts are.
LEMMA Places ==
  /\ Guarding = {"load", "guard", "email", "begin", "finish", "claim", "record"}
  /\ Recovering = {"open", "credit", "recorded"} /\ Reconciling = {"reconcile", "return", "chase", "commit"}
  /\ Working = {"load", "guard", "email", "begin", "finish", "claim", "record", "open", "credit", "recorded",
                "reconcile", "return", "chase", "commit"}
BY DEF Guarding, Recovering, Reconciling, Working

LEMMA ActorFacts ==
  ASSUME SuppliersInductive, NEW g \in Actors
  PROVE  /\ SupplierTypeOK /\ guard[g] \in GuardRow /\ GuardIsLinked(g)
         /\ invoice \in [Mail -> InvoiceRow] /\ claims \in Seq(Claim) /\ g \in Guards \cup Desks
         /\ told \in [Mail -> ToldRow] /\ faults \in Nat
         /\ guard[g].pc \in Guarding \cup Recovering => g \in Guards /\ g \notin Desks
         /\ Mail = Bills \cup Memos /\ Bills \cap Memos = {} /\ Nil \notin Mail /\ Nil \notin Jobs
         /\ MaxTries \in Nat \ {0} /\ Overbilled \subseteq Bills
<1>1. SupplierTypeOK /\ GuardIsLinked(g)
  BY DEF SuppliersInductive, GuardsAreLinked
<1>2. guard[g].pc \in Guarding \cup Recovering => g \in Guards /\ g \notin Desks
  BY <1>1, Places DEF GuardIsLinked, Actors
<1>3. QED BY <1>1, <1>2, TypesOf, SupplierAssumption, RunLimits DEF Mail, Actors

LEMMA LoadInvoiceKeeps == ASSUME SuppliersInductive, NEW g \in Actors, LoadInvoice(g) PROVE SuppliersInductive'
<1> DEFINE row == [guard[g] EXCEPT !.pc = "guard", !.job = invoice[guard[g].of].job]
<1>1. /\ SupplierTypeOK /\ guard[g] \in GuardRow /\ GuardIsLinked(g) /\ g \in Guards /\ g \notin Desks
      /\ guard[g].pc = "load" /\ guard[g].of \in Bills
  BY ActorFacts, Places DEF LoadInvoice, GuardIsLinked
<1>2. invoice[guard[g].of].job \in Jobs \cup {Nil}
  BY <1>1, ActorFacts DEF InvoiceRow
<1>3. /\ row \in GuardRow /\ row.pc = "guard" /\ row.of = guard[g].of /\ row.plan = guard[g].plan
      /\ row.claim = guard[g].claim /\ row.tries = guard[g].tries
  BY <1>1, <1>2 DEF GuardRow, Guarding
<1>4. Turns(g, row)
  BY DEF LoadInvoice, Turns
<1> HIDE DEF row
<1>5. guard'[g] = row
  BY <1>1, <1>3, <1>4, AnyGuard
<1>6. GuardIsLinked(g)'
  BY <1>1, <1>3, <1>5, Places DEF GuardIsLinked
<1>7. InvoicesStand /\ invoice' \in [Mail -> InvoiceRow] /\ leftover' \in [Jobs -> BOOLEAN]
      /\ UNCHANGED <<runVars, costVars, parseVars, parsed, claims, matReturn, rolled, told>>
  BY <1>1 DEF LoadInvoice, InvoicesStand, SupplierTypeOK, returnVars
<1>8. /\ \A m \in Mail : /\ WillMail(row, m) => WillMail(guard[g], m)
                         /\ WillClaim(row, m) => WillClaim(guard[g], m)
                         /\ WillCredit(row, m) => WillCredit(guard[g], m)
                         /\ MailedBy(row, m) <=> MailedBy(guard[g], m)
      /\ \A j \in Jobs : Chasing(row, j) <=> Chasing(guard[g], j)
  BY <1>1, <1>3 DEF WillMail, WillClaim, WillCredit, MailedBy, Chasing
<1>9. QED BY <1>1, <1>3, <1>4, <1>6, <1>7, <1>8, QuietStepKeeps

LEMMA RecordGuardedKeeps == ASSUME SuppliersInductive, NEW g \in Actors, RecordGuarded(g) PROVE SuppliersInductive'
<1> DEFINE row == [guard[g] EXCEPT !.pc = "reconcile", !.plan = "draft", !.tries = 0]
<1>1. /\ SupplierTypeOK /\ guard[g] \in GuardRow /\ GuardIsLinked(g) /\ g \in Guards /\ g \notin Desks
      /\ guard[g].pc = "record" /\ guard[g].of \in Bills /\ 0 \in 0..MaxTries /\ 0 < MaxTries
  BY ActorFacts, Places DEF RecordGuarded, GuardIsLinked
<1>2. /\ row \in GuardRow /\ row.pc = "reconcile" /\ row.of = guard[g].of /\ row.plan = "draft"
      /\ row.claim = guard[g].claim /\ row.tries = 0
  BY <1>1 DEF GuardRow, Reconciling
<1>3. Turns(g, row)
  BY DEF RecordGuarded, Turns
<1> HIDE DEF row
<1>4. guard'[g] = row
  BY <1>1, <1>2, <1>3, AnyGuard
<1>5. GuardIsLinked(g)'
  BY <1>1, <1>2, <1>4, Places DEF GuardIsLinked, Mail
<1>6. InvoicesStand /\ invoice' \in [Mail -> InvoiceRow] /\ leftover' \in [Jobs -> BOOLEAN]
      /\ UNCHANGED <<runVars, costVars, parseVars, parsed, claims, matReturn, rolled, told>>
  BY <1>1 DEF RecordGuarded, InvoicesStand, SupplierTypeOK, returnVars
<1>7. /\ \A m \in Mail : /\ WillMail(row, m) => WillMail(guard[g], m)
                         /\ WillClaim(row, m) => WillClaim(guard[g], m)
                         /\ WillCredit(row, m) => WillCredit(guard[g], m)
                         /\ MailedBy(row, m) <=> MailedBy(guard[g], m)
      /\ \A j \in Jobs : Chasing(row, j) <=> Chasing(guard[g], j)
  BY <1>1, <1>2 DEF WillMail, WillClaim, WillCredit, MailedBy, Chasing
<1>8. QED BY <1>1, <1>2, <1>3, <1>5, <1>6, <1>7, QuietStepKeeps

\* The one claim a memo can be for was sent.
TheOpen == CHOOSE c \in OpenClaims : TRUE

LEMMA OneOpen ==
  ASSUME claims \in Seq(Claim), Cardinality(OpenClaims) = 1
  PROVE  TheOpen \in DOMAIN claims /\ TheOpen \in Nat /\ claims[TheOpen].status = "sent"
<1>1. ASSUME OpenClaims = {} PROVE FALSE
  <2>1. Cardinality({}) = 0
    BY FS_EmptySet
  <2>2. QED BY <1>1, <2>1
<1>2. TheOpen \in OpenClaims
  BY <1>1 DEF TheOpen
<1>3. QED BY <1>2, ClaimsNumbered DEF OpenClaims

LEMMA ListOpenKeeps == ASSUME SuppliersInductive, NEW g \in Actors, ListOpen(g) PROVE SuppliersInductive'
<1>1. /\ SupplierTypeOK /\ guard[g] \in GuardRow /\ GuardIsLinked(g) /\ g \in Guards /\ g \notin Desks
      /\ guard[g].pc = "open" /\ guard[g].of \in Memos /\ claims \in Seq(Claim) /\ guard[g].claim = 0
  BY ActorFacts, Places DEF ListOpen, GuardIsLinked
<1>2. InvoicesStand /\ invoice' \in [Mail -> InvoiceRow] /\ leftover' \in [Jobs -> BOOLEAN]
      /\ UNCHANGED <<runVars, costVars, parseVars, parsed, claims, matReturn, rolled, told>>
  BY <1>1 DEF ListOpen, InvoicesStand, SupplierTypeOK, returnVars
<1>3. ASSUME NEW row \in GuardRow, Turns(g, row), row.of = guard[g].of, row.tries = guard[g].tries,
             \/ row.pc = "recorded" /\ row.claim = 0
             \/ row.pc = "credit" /\ row.claim \in DOMAIN claims /\ claims[row.claim].status = "sent"
      PROVE  SuppliersInductive'
  <2>1. guard'[g] = row
    BY <1>1, <1>3, AnyGuard
  <2>2. GuardIsLinked(g)'
    BY <1>1, <1>2, <1>3, <2>1, Places DEF GuardIsLinked
  <2>3. /\ \A m \in Mail : /\ WillMail(row, m) => WillMail(guard[g], m)
                           /\ WillClaim(row, m) => WillClaim(guard[g], m)
                           /\ WillCredit(row, m) => WillCredit(guard[g], m)
                           /\ MailedBy(row, m) <=> MailedBy(guard[g], m)
        /\ \A j \in Jobs : Chasing(row, j) <=> Chasing(guard[g], j)
    BY <1>1, <1>3 DEF WillMail, WillClaim, WillCredit, MailedBy, Chasing
  <2>4. QED BY <1>1, <1>2, <1>3, <2>2, <2>3, QuietStepKeeps
<1>4. CASE Cardinality(OpenClaims) = 1
  <2>1. PICK c : c = TheOpen
    OBVIOUS
  <2>2. c \in DOMAIN claims /\ c \in Nat /\ claims[c].status = "sent"
    BY <1>1, <1>4, <2>1, OneOpen
  <2> DEFINE row == [guard[g] EXCEPT !.pc = "credit", !.claim = c]
  <2>3. row \in GuardRow /\ row.pc = "credit" /\ row.of = guard[g].of /\ row.claim = c /\ row.tries = guard[g].tries
    BY <1>1, <2>2 DEF GuardRow, Recovering
  <2>4. Turns(g, row)
    <3>1. guard' = [guard EXCEPT ![g].pc = "credit", ![g].claim = TheOpen]
      BY <1>4 DEF ListOpen, TheOpen
    <3>2. QED BY <2>1, <3>1 DEF Turns
  <2> HIDE DEF row
  <2>5. QED BY <1>3, <2>2, <2>3, <2>4
<1>5. CASE Cardinality(OpenClaims) # 1
  <2> DEFINE row == [guard[g] EXCEPT !.pc = "recorded"]
  <2>1. row \in GuardRow /\ row.pc = "recorded" /\ row.of = guard[g].of /\ row.claim = 0 /\ row.tries = guard[g].tries
    BY <1>1 DEF GuardRow, Recovering
  <2>2. Turns(g, row)
    BY <1>5 DEF ListOpen, Turns
  <2> HIDE DEF row
  <2>3. QED BY <1>3, <2>1, <2>2
<1>6. QED BY <1>4, <1>5

\* An actor that is over holds nothing.
LEMMA OverRow ==
  /\ Over \in GuardRow /\ Over.pc = "done" /\ Over.of = Nil /\ Over.claim = 0 /\ Over.tries = 0
  /\ \A m, j : /\ m # Nil => ~WillMail(Over, m) /\ ~WillClaim(Over, m) /\ ~WillCredit(Over, m)
               /\ ~MailedBy(Over, m) /\ ~Chasing(Over, j)
<1>1. NoGuard \in GuardRow
  BY RunLimits DEF NoGuard, GuardRow
<1>2. /\ Over \in GuardRow /\ Over.pc = "done" /\ Over.of = Nil /\ Over.claim = 0 /\ Over.tries = 0
  BY <1>1, RunLimits DEF Over, NoGuard, GuardRow
<1>3. QED BY <1>2 DEF WillMail, WillClaim, WillCredit, MailedBy, Chasing

LEMMA OverLinked ==
  ASSUME NEW g \in Actors, guard'[g] = Over
  PROVE  GuardIsLinked(g)'
BY OverRow, RunLimits, Places DEF GuardIsLinked

LEMMA RecordRecoveredKeeps ==
  ASSUME SuppliersInductive, NEW g \in Actors, RecordRecovered(g) PROVE SuppliersInductive'
<1>1. /\ SupplierTypeOK /\ guard[g].pc = "recorded" /\ Nil \notin Mail
  BY ActorFacts DEF RecordRecovered
<1>2. Turns(g, Over)
  BY DEF RecordRecovered, Turns, Over
<1>3. guard'[g] = Over /\ GuardIsLinked(g)'
  BY <1>1, <1>2, OverRow, AnyGuard, OverLinked
<1>4. InvoicesStand /\ invoice' \in [Mail -> InvoiceRow] /\ leftover' \in [Jobs -> BOOLEAN]
      /\ UNCHANGED <<runVars, costVars, parseVars, parsed, claims, matReturn, rolled, told>>
  BY <1>1 DEF RecordRecovered, InvoicesStand, SupplierTypeOK, returnVars
<1>5. /\ \A m \in Mail : /\ WillMail(Over, m) => WillMail(guard[g], m)
                         /\ WillClaim(Over, m) => WillClaim(guard[g], m)
                         /\ WillCredit(Over, m) => WillCredit(guard[g], m)
                         /\ MailedBy(Over, m) <=> MailedBy(guard[g], m)
      /\ \A j \in Jobs : Chasing(Over, j) <=> Chasing(guard[g], j)
  BY <1>1, OverRow DEF MailedBy, Chasing
<1>6. QED BY <1>1, <1>2, <1>3, <1>4, <1>5, OverRow, QuietStepKeeps

LEMMA ReconcileKeeps == ASSUME SuppliersInductive, NEW g \in Actors, Reconcile(g) PROVE SuppliersInductive'
<1>1. /\ SupplierTypeOK /\ guard[g] \in GuardRow /\ GuardIsLinked(g) /\ g \in Guards \cup Desks
      /\ guard[g].pc = "reconcile" /\ guard[g].claim = 0 /\ invoice \in [Mail -> InvoiceRow] /\ Nil \notin Mail
  BY ActorFacts, Places DEF Reconcile, GuardIsLinked
<1>2. InvoicesStand /\ invoice' \in [Mail -> InvoiceRow] /\ leftover' \in [Jobs -> BOOLEAN]
      /\ UNCHANGED <<runVars, costVars, parseVars, parsed, claims, matReturn, rolled, told>>
  BY <1>1 DEF Reconcile, InvoicesStand, SupplierTypeOK, returnVars
<1>3. CASE guard' = [guard EXCEPT ![g] = Over]
  <2>1. Turns(g, Over)
    BY <1>3 DEF Turns
  <2>2. GuardIsLinked(g)'
    BY <1>1, <2>1, OverRow, AnyGuard, OverLinked
  <2>3. /\ \A m \in Mail : /\ WillMail(Over, m) => WillMail(guard[g], m)
                           /\ WillClaim(Over, m) => WillClaim(guard[g], m)
                           /\ WillCredit(Over, m) => WillCredit(guard[g], m)
                           /\ MailedBy(Over, m) <=> MailedBy(guard[g], m)
        /\ \A j \in Jobs : Chasing(Over, j) <=> Chasing(guard[g], j)
    BY <1>1, OverRow DEF MailedBy, Chasing
  <2>4. QED BY <1>1, <1>2, <2>1, <2>2, <2>3, OverRow, QuietStepKeeps
<1>4. CASE guard' # [guard EXCEPT ![g] = Over]
  <2> DEFINE k == IF g \in Guards THEN invoice[guard[g].of].job ELSE guard[g].job
  <2>1. k # Nil /\ \E a \in IF InvoicesOf(k) = {} THEN {Nil} ELSE InvoicesOf(k) :
            guard' = [guard EXCEPT ![g].pc = "return", ![g].job = k, ![g].anchor = a]
    BY <1>4 DEF Reconcile
  <2>2. k \in Jobs
    BY <1>1, <2>1, Places DEF GuardIsLinked, InvoiceRow, GuardRow
  <2> HIDE DEF k
  <2>3. PICK a \in Mail \cup {Nil} : guard' = [guard EXCEPT ![g].pc = "return", ![g].job = k, ![g].anchor = a]
    BY <2>1 DEF InvoicesOf
  <2> DEFINE row == [guard[g] EXCEPT !.pc = "return", !.job = k, !.anchor = a]
  <2>4. /\ row \in GuardRow /\ row.pc = "return" /\ row.of = guard[g].of /\ row.claim = 0
        /\ row.tries = guard[g].tries /\ row.job = k
    BY <1>1, <2>2 DEF GuardRow, Reconciling
  <2>5. Turns(g, row)
    BY <2>3 DEF Turns
  <2> HIDE DEF row
  <2>6. guard'[g] = row
    BY <1>1, <2>4, <2>5, AnyGuard
  <2>7. GuardIsLinked(g)'
    BY <1>1, <2>2, <2>4, <2>6, Places DEF GuardIsLinked
  <2>8. /\ \A m \in Mail : /\ WillMail(row, m) => WillMail(guard[g], m)
                           /\ WillClaim(row, m) => WillClaim(guard[g], m)
                           /\ WillCredit(row, m) => WillCredit(guard[g], m)
                           /\ MailedBy(row, m) <=> MailedBy(guard[g], m)
        /\ \A j \in Jobs : Chasing(row, j) <=> Chasing(guard[g], j)
    BY <1>1, <2>4 DEF WillMail, WillClaim, WillCredit, MailedBy, Chasing
  <2>9. QED BY <1>1, <1>2, <2>4, <2>5, <2>7, <2>8, QuietStepKeeps
<1>5. QED BY <1>3, <1>4

LEMMA LogLeftoverKeeps ==
  ASSUME SuppliersInductive, NEW g \in Desks, NEW j \in Jobs, LogLeftover(g, j) PROVE SuppliersInductive'
<1> DEFINE row == [guard[g] EXCEPT !.pc = "reconcile", !.job = j]
<1>0. g \in Actors /\ g \notin Guards
  BY FiniteActors
<1>1. /\ SupplierTypeOK /\ guard[g] \in GuardRow /\ GuardIsLinked(g) /\ guard[g].pc = "idle"
      /\ guard[g].claim = 0
  BY <1>0, ActorFacts DEF LogLeftover, GuardIsLinked
<1>2. /\ row \in GuardRow /\ row.pc = "reconcile" /\ row.of = guard[g].of /\ row.claim = 0
      /\ row.tries = guard[g].tries
  BY <1>1 DEF GuardRow, Reconciling
<1>3. Turns(g, row)
  BY DEF LogLeftover, Turns
<1> HIDE DEF row
<1>4. guard'[g] = row
  BY <1>0, <1>1, <1>2, <1>3, AnyGuard
<1>5. GuardIsLinked(g)'
  BY <1>0, <1>1, <1>2, <1>4, Places DEF GuardIsLinked
<1>6. InvoicesStand /\ invoice' \in [Mail -> InvoiceRow] /\ leftover' \in [Jobs -> BOOLEAN]
      /\ UNCHANGED <<runVars, costVars, parseVars, parsed, claims, matReturn, rolled, told>>
  BY <1>1 DEF LogLeftover, InvoicesStand, SupplierTypeOK
<1>7. \A i \in Jobs : Chasing(row, i) <=> Chasing(guard[g], i)
  BY <1>1, <1>2 DEF Chasing
<1>8. QED BY <1>0, <1>1, <1>2, <1>3, <1>5, <1>6, <1>7, QuietStepKeeps

LEMMA SaveGuardedKeeps == ASSUME SuppliersInductive, NEW g \in Actors, SaveGuarded(g) PROVE SuppliersInductive'
<1>1. /\ SupplierTypeOK /\ guard[g] \in GuardRow /\ GuardIsLinked(g) /\ g \in Guards /\ g \notin Desks
      /\ guard[g].pc = "guard" /\ guard[g].of \in Bills /\ guard[g].of \in Mail /\ guard[g].claim = 0
      /\ invoice \in [Mail -> InvoiceRow]
  BY ActorFacts, Places DEF SaveGuarded, GuardIsLinked
<1>2. InvoicesStand /\ invoice' \in [Mail -> InvoiceRow]
  <2>1. invoice' = [invoice EXCEPT ![guard[g].of].status = "guarded"]
    BY DEF SaveGuarded
  <2>2. Counts(invoice[guard[g].of].status)
    BY <1>1 DEF SuppliersInductive, ParsesAreLinked, ParseIsLinked, Taken
  <2>3. QED BY <1>1, <2>1, <2>2 DEF InvoicesStand, Counts, InvoiceRow
<1>3. leftover' \in [Jobs -> BOOLEAN]
      /\ UNCHANGED <<runVars, costVars, parseVars, parsed, claims, matReturn, rolled, told>>
  BY <1>1 DEF SaveGuarded, SupplierTypeOK, returnVars
<1>4. ASSUME NEW row \in GuardRow, Turns(g, row), row.of = guard[g].of, row.tries = guard[g].tries,
             row.claim = 0, row.job = guard[g].job,
             row.pc \in {"email", "begin", "claim"} => row.job # Nil,
             \/ row.pc = "email" /\ row.plan = "send"
             \/ row.pc = "begin" /\ row.plan = "defer"
             \/ row.pc = "claim" /\ row.plan = "draft"
             \/ row.pc = "record"
      PROVE  SuppliersInductive'
  <2>1. guard'[g] = row
    BY <1>1, <1>4, AnyGuard
  <2>2. GuardIsLinked(g)'
    BY <1>1, <1>4, <2>1, Places DEF GuardIsLinked
  <2>3. /\ \A m \in Mail : /\ WillMail(row, m) => WillMail(guard[g], m)
                           /\ WillClaim(row, m) => WillClaim(guard[g], m)
                           /\ WillCredit(row, m) => WillCredit(guard[g], m)
                           /\ MailedBy(row, m) <=> MailedBy(guard[g], m)
        /\ \A j \in Jobs : Chasing(row, j) <=> Chasing(guard[g], j)
    BY <1>1, <1>4 DEF WillMail, WillClaim, WillCredit, MailedBy, Chasing
  <2>4. guard[g].pc # "finish" /\ row.pc # "finish" /\ row.pc \notin {"chase", "commit"}
        /\ row.of \in {guard[g].of, Nil}
    BY <1>1, <1>4
  <2>5. QED BY <1>1, <1>2, <1>3, <1>4, <2>2, <2>3, <2>4, QuietStepKeeps
<1>5. CASE Overage(g)
  <2>1. PICK plan \in {"send", "defer", "draft"} : guard' = [guard EXCEPT ![g].pc = FirstOf(plan), ![g].plan = plan]
    BY <1>5 DEF SaveGuarded
  <2>2. PICK first \in {"email", "begin", "claim"} :
          first = FirstOf(plan) /\ (first = "email" => plan = "send") /\ (first = "begin" => plan = "defer")
                                /\ (first = "claim" => plan = "draft")
    BY <2>1 DEF FirstOf
  <2> DEFINE row == [guard[g] EXCEPT !.pc = first, !.plan = plan]
  <2>3. /\ row \in GuardRow /\ row.pc = first /\ row.plan = plan /\ row.of = guard[g].of /\ row.claim = 0
        /\ row.tries = guard[g].tries /\ row.job = guard[g].job
    BY <1>1, <2>1, <2>2 DEF GuardRow, Guarding
  <2>4. Turns(g, row)
    BY <2>1, <2>2 DEF Turns
  <2>5. guard[g].job # Nil
    BY <1>5 DEF Overage
  <2> HIDE DEF row
  <2>6. QED BY <1>4, <2>2, <2>3, <2>4, <2>5
<1>6. CASE ~Overage(g)
  <2> DEFINE row == [guard[g] EXCEPT !.pc = "record"]
  <2>1. /\ row \in GuardRow /\ row.pc = "record" /\ row.of = guard[g].of /\ row.claim = 0
        /\ row.tries = guard[g].tries /\ row.job = guard[g].job
    BY <1>1 DEF GuardRow, Guarding
  <2>2. Turns(g, row)
    BY <1>6 DEF SaveGuarded, Turns
  <2> HIDE DEF row
  <2>3. QED BY <1>4, <2>1, <2>2
<1>7. QED BY <1>5, <1>6

\* What is told of one invoice is written.
LEMMA Tells ==
  ASSUME told \in [Mail -> ToldRow], NEW a \in Mail, NEW t \in ToldRow, told' = [told EXCEPT ![a] = t]
  PROVE  told' \in [Mail -> ToldRow] /\ told'[a] = t /\ \A m \in Mail \ {a} : told'[m] = told[m]
OBVIOUS

\* A transaction rolled back takes its claim to the count of those rolled back.
LEMMA RollsBack ==
  ASSUME SuppliersInductive, NEW g \in Actors, RolledBack(g), NEW row, \A j \in Jobs : ~Chasing(row, j)
  PROVE  /\ rolled' \in [Jobs -> Nat]
         /\ \A j \in Jobs : rolled'[j] - rolled[j] + Delta(Chasing(row, j), Chasing(guard[g], j)) = 0
<1>1. GuardIsLinked(g) /\ rolled \in [Jobs -> Nat]
  BY ActorFacts, TypesOf
<1>2. CASE guard[g].pc = "commit" /\ guard[g].claim # 0
  <2>1. guard[g].job \in Jobs /\ rolled' = [rolled EXCEPT ![guard[g].job] = @ + 1]
    BY <1>1, <1>2 DEF GuardIsLinked, RolledBack
  <2>2. \A j \in Jobs : Chasing(guard[g], j) <=> j = guard[g].job
    BY <1>2 DEF Chasing
  <2>3. \A j \in Jobs : rolled'[j] = IF j = guard[g].job THEN rolled[j] + 1 ELSE rolled[j]
    BY <1>1, <2>1
  <2>4. rolled' \in [Jobs -> Nat]
    BY <1>1, <2>1
  <2>5. QED BY <1>1, <2>2, <2>3, <2>4 DEF Delta
<1>3. CASE ~(guard[g].pc = "commit" /\ guard[g].claim # 0)
  <2>1. UNCHANGED rolled /\ \A j \in Jobs : ~Chasing(guard[g], j)
    BY <1>1, <1>3, Places DEF GuardIsLinked, RolledBack, Chasing
  <2>2. QED BY <1>1, <2>1 DEF Delta
<1>4. QED BY <1>2, <1>3

\* A step that leaves the claims: what is told pays for what it adds.
LEMMA ToldStepKeeps ==
  ASSUME SuppliersInductive, NEW g \in Actors, NEW row \in GuardRow, Turns(g, row),
         UNCHANGED <<agentRun, work, invoice, costVars, parseVars, parsed, claims, matReturn, leftover>>,
         faults' \in 0..MaxFaults,
         IF guard[g].pc = "finish" THEN faults' >= faults + 1 ELSE faults' >= faults,
         told' \in [Mail -> ToldRow], \A m \in Mail : Paid(g, m),
         rolled' \in [Jobs -> Nat],
         \A j \in Jobs : rolled'[j] - rolled[j] + Delta(Chasing(row, j), Chasing(guard[g], j)) = 0,
         row.pc \notin {"finish", "chase", "commit"}, row.of \in {guard[g].of, Nil}, GuardIsLinked(g)'
  PROVE  SuppliersInductive'
<1>1. /\ SupplierTypeOK /\ ClaimsAreCounted /\ CreditsHaveMemos /\ ReturnsAreChasedOnce
  BY DEF SuppliersInductive
<1>2. guard' \in [Actors -> GuardRow] /\ guard'[g] = row /\ \A h \in Actors \ {g} : guard'[h] = guard[h]
  BY <1>1, AnyGuard
<1>3. /\ claims \in Seq(Claim) /\ parsed \in [Mail -> Nat] /\ invoice \in [Mail -> InvoiceRow]
      /\ leftover \in [Jobs -> BOOLEAN]
  BY <1>1, TypesOf DEF SupplierTypeOK
<1>4. ClaimsAreCounted' /\ CreditsHaveMemos'
  <2>1. ClaimsAreCounted'
    BY <1>1, <1>2, StartsStillPay DEF parseVars
  <2>2. QED BY <1>1, <2>1 DEF CreditsHaveMemos
<1>5. ClaimsGrow /\ \A j \in Jobs : Chases(j)' = Chases(j)
  BY <1>3, ClaimsUnchanged
<1>6. ReturnsAreChasedOnce'
  BY <1>1, <1>2, <1>5, QuietReturns
<1>7. \A m \in Mail : Taken(m)' => Taken(m)
  <2>1. Nil \notin Mail
    BY SupplierAssumption DEF Mail
  <2>2. QED BY <1>2, <2>1, FiniteActors DEF Taken
<1>8. /\ parsed' \in [Mail -> Nat] /\ claims' \in Seq(Claim) /\ invoice' \in [Mail -> InvoiceRow] /\ InvoicesStand
      /\ leftover' \in [Jobs -> BOOLEAN] /\ UNCHANGED <<agentRun, work, costVars, parseVars, matReturn>>
      /\ row.pc # "finish" /\ row.pc \notin {"chase", "commit"}
  BY <1>3 DEF InvoicesStand
<1>9. QED BY <1>4, <1>5, <1>6, <1>7, <1>8, GuardStepKeeps

LEMMA FaultCounts ==
  ASSUME SupplierTypeOK, Fault
  PROVE  faults' \in 0..MaxFaults /\ faults' = faults + 1 /\ faults \in Nat
BY TypesOf, RunLimits DEF Fault

LEMMA EmailSupplierKeeps == ASSUME SuppliersInductive, NEW g \in Actors, EmailSupplier(g) PROVE SuppliersInductive'
<1> DEFINE row == [guard[g] EXCEPT !.pc = "claim"]
           t == [told[guard[g].of] EXCEPT !.mailed = @ + 1]
<1>1. /\ SupplierTypeOK /\ guard[g] \in GuardRow /\ GuardIsLinked(g) /\ g \in Guards /\ g \notin Desks
      /\ guard[g].pc = "email" /\ guard[g].of \in Bills /\ guard[g].of \in Mail /\ guard[g].claim = 0
      /\ guard[g].job # Nil /\ guard[g].plan = "send"
      /\ told \in [Mail -> ToldRow] /\ Nil \notin Mail
  BY ActorFacts, Places DEF EmailSupplier, GuardIsLinked
<1>2. /\ row \in GuardRow /\ row.pc = "claim" /\ row.of = guard[g].of /\ row.plan = "send"
      /\ row.claim = 0 /\ row.tries = guard[g].tries /\ row.job = guard[g].job
  BY <1>1 DEF GuardRow, Guarding
<1>3. Turns(g, row) /\ told' = [told EXCEPT ![guard[g].of] = t]
  BY DEF EmailSupplier, Turns
<1>4. /\ t \in ToldRow /\ t.mailed = told[guard[g].of].mailed + 1 /\ t.again = told[guard[g].of].again
      /\ t.unclaimed = told[guard[g].of].unclaimed
  BY <1>1, ToldFields DEF ToldRow
<1> HIDE DEF row, t
<1>5. guard'[g] = row /\ told' \in [Mail -> ToldRow]
      /\ told'[guard[g].of] = t /\ \A m \in Mail \ {guard[g].of} : told'[m] = told[m]
  BY <1>1, <1>2, <1>3, <1>4, AnyGuard, Tells
<1>6. GuardIsLinked(g)'
  BY <1>1, <1>2, <1>5, Places DEF GuardIsLinked
<1>7. \A m \in Mail : Paid(g, m)
  <2>1. ASSUME NEW m \in Mail, m # guard[g].of PROVE Paid(g, m)
    BY <1>1, <1>2, <1>5, <2>1, ToldFields DEF Paid, Delta, WillMail, WillClaim, WillCredit, MailedBy
  <2>2. Paid(g, guard[g].of)
    BY <1>1, <1>2, <1>4, <1>5, ToldFields DEF Paid, Delta, WillMail, WillClaim, WillCredit, MailedBy
  <2>3. QED BY <2>1, <2>2
<1>8. /\ UNCHANGED <<agentRun, work, invoice, costVars, parseVars, parsed, claims, matReturn, leftover>>
      /\ faults' \in 0..MaxFaults /\ faults' >= faults /\ rolled' \in [Jobs -> Nat]
      /\ \A j \in Jobs : rolled'[j] - rolled[j] + Delta(Chasing(row, j), Chasing(guard[g], j)) = 0
  BY <1>1, <1>2, TypesOf DEF EmailSupplier, runVars, returnVars, Delta, Chasing
<1>9. QED BY <1>1, <1>2, <1>3, <1>5, <1>6, <1>7, <1>8, ToldStepKeeps

\* A step that is lost may lose an e-mail, or the claim of one; begun anew it pays for all again.
LEMMA LosesPay ==
  ASSUME NEW g \in Guards, NEW m \in Mail, told \in [Mail -> ToldRow],
         NEW left \in {0, 1}, NEW n \in {0, 1},
         told'[m].mailed = told[m].mailed + left, told'[m].again = told[m].again + n,
         told'[m].unclaimed = told[m].unclaimed + left + Lost(g),
         left = 1 => WillMail(guard[g], m), MailedBy(guard[g], m) <=> Mailed(g), ~MailedBy(guard'[g], m),
         n = 1 \/ ~(WillMail(guard'[g], m) \/ WillClaim(guard'[g], m) \/ WillCredit(guard'[g], m))
  PROVE  Paid(g, m)
<1>1. told[m].mailed \in Nat /\ told[m].again \in Nat /\ told[m].unclaimed \in Nat
  BY ToldFields
<1>2. Lost(g) = IF MailedBy(guard[g], m) THEN 1 ELSE 0
  BY DEF Lost
<1>3. QED BY <1>1, <1>2 DEF Paid, Delta

LEMMA GuardThrowsKeeps == ASSUME SuppliersInductive, NEW g \in Actors, GuardThrows(g) PROVE SuppliersInductive'
<1>1. /\ SupplierTypeOK /\ guard[g] \in GuardRow /\ GuardIsLinked(g) /\ g \in Guards /\ g \notin Desks
      /\ guard[g].pc \in Guarding /\ guard[g].of \in Bills /\ guard[g].of \in Mail /\ guard[g].claim = 0
      /\ told \in [Mail -> ToldRow] /\ Nil \notin Mail
  BY ActorFacts, Places DEF GuardThrows, GuardIsLinked
<1>2. PICK left \in IF guard[g].pc = "email" THEN {0, 1} ELSE {0} :
          told' = [told EXCEPT ![guard[g].of].skipped = TRUE, ![guard[g].of].mailed = @ + left,
                               ![guard[g].of].unclaimed = @ + left + Lost(g)]
  BY DEF GuardThrows
<1> DEFINE row == [guard[g] EXCEPT !.pc = "record", !.row = 0]
           t == [told[guard[g].of] EXCEPT !.skipped = TRUE, !.mailed = @ + left, !.unclaimed = @ + left + Lost(g)]
<1>3. /\ row \in GuardRow /\ row.pc = "record" /\ row.of = guard[g].of /\ row.plan = guard[g].plan
      /\ row.claim = 0 /\ row.tries = guard[g].tries /\ row.job = guard[g].job
  BY <1>1 DEF GuardRow, Guarding
<1>4. Turns(g, row) /\ told' = [told EXCEPT ![guard[g].of] = t]
  <2>1. guard' = [guard EXCEPT ![g].pc = "record", ![g].row = 0]
    BY DEF GuardThrows
  <2>2. Turns(g, row)
    BY <2>1 DEF Turns
  <2>3. told' = [told EXCEPT ![guard[g].of] = t]
    BY <1>2
  <2>4. QED BY <2>2, <2>3
<1>5. left \in {0, 1} /\ (left = 1 => guard[g].pc = "email") /\ Lost(g) \in {0, 1}
  BY <1>2 DEF Lost
<1>6. /\ t \in ToldRow /\ t.mailed = told[guard[g].of].mailed + left /\ t.again = told[guard[g].of].again
      /\ t.unclaimed = told[guard[g].of].unclaimed + left + Lost(g)
  <2> DEFINE u == told[guard[g].of]
  <2>1. u \in ToldRow /\ u.mailed \in Nat /\ u.unclaimed \in Nat /\ left \in Nat /\ Lost(g) \in Nat
    BY <1>1, <1>5, ToldFields
  <2>2. t = [u EXCEPT !.skipped = TRUE, !.mailed = @ + left, !.unclaimed = @ + left + Lost(g)]
    OBVIOUS
  <2> HIDE DEF u, t
  <2>3. u.mailed + left \in Nat /\ u.unclaimed + left + Lost(g) \in Nat
    BY <2>1
  <2>4. /\ t \in ToldRow /\ t.mailed = u.mailed + left /\ t.again = u.again
        /\ t.unclaimed = u.unclaimed + left + Lost(g)
    BY <2>1, <2>2, <2>3 DEF ToldRow
  <2>5. QED BY <2>4 DEF u
<1> HIDE DEF row, t
<1>7. guard'[g] = row /\ told' \in [Mail -> ToldRow]
      /\ told'[guard[g].of] = t /\ \A m \in Mail \ {guard[g].of} : told'[m] = told[m]
  BY <1>1, <1>3, <1>4, <1>6, AnyGuard, Tells
<1>8. GuardIsLinked(g)'
  BY <1>1, <1>3, <1>7, Places DEF GuardIsLinked
<1>9. \A m \in Mail : Paid(g, m)
  <2>1. ASSUME NEW m \in Mail, m # guard[g].of PROVE Paid(g, m)
    BY <1>1, <1>3, <1>7, <2>1, ToldFields DEF Paid, Delta, WillMail, WillClaim, WillCredit, MailedBy
  <2>2. /\ left = 1 => WillMail(guard[g], guard[g].of)
        /\ MailedBy(guard[g], guard[g].of) <=> Mailed(g)
        /\ ~MailedBy(guard'[g], guard[g].of) /\ ~WillMail(guard'[g], guard[g].of)
        /\ ~WillClaim(guard'[g], guard[g].of) /\ ~WillCredit(guard'[g], guard[g].of)
    BY <1>3, <1>5, <1>7 DEF WillMail, WillClaim, WillCredit, MailedBy, Mailed
  <2>3. told[guard[g].of].again \in Nat
    BY <1>1, ToldFields
  <2>4. /\ told'[guard[g].of].mailed = told[guard[g].of].mailed + left
        /\ told'[guard[g].of].again = told[guard[g].of].again + 0
        /\ told'[guard[g].of].unclaimed = told[guard[g].of].unclaimed + left + Lost(g)
    BY <1>6, <1>7, <2>3
  <2>5. Paid(g, guard[g].of)
    BY <1>1, <1>5, <2>2, <2>4, LosesPay
  <2>6. QED BY <2>1, <2>5
<1>10. /\ UNCHANGED <<agentRun, work, invoice, costVars, parseVars, parsed, claims, matReturn, leftover>>
       /\ faults' \in 0..MaxFaults /\ faults' >= faults + 1 /\ rolled' \in [Jobs -> Nat]
       /\ faults' >= faults
       /\ \A j \in Jobs : rolled'[j] - rolled[j] + Delta(Chasing(row, j), Chasing(guard[g], j)) = 0
  BY <1>1, <1>3, TypesOf, FaultCounts DEF GuardThrows, returnVars, Delta, Chasing
<1>11. QED BY <1>1, <1>3, <1>4, <1>7, <1>8, <1>9, <1>10, ToldStepKeeps

LEMMA RecoverThrowsKeeps == ASSUME SuppliersInductive, NEW g \in Actors, RecoverThrows(g) PROVE SuppliersInductive'
<1>1. /\ SupplierTypeOK /\ guard[g] \in GuardRow /\ GuardIsLinked(g) /\ g \in Guards /\ g \notin Desks
      /\ guard[g].pc \in {"open", "credit"} /\ guard[g].of \in Memos /\ guard[g].of \in Mail
      /\ told \in [Mail -> ToldRow] /\ Nil \notin Mail /\ guard[g].pc # "finish"
  BY ActorFacts, Places DEF RecoverThrows, GuardIsLinked
<1> DEFINE row == [guard[g] EXCEPT !.pc = "recorded", !.claim = 0]
           t == [told[guard[g].of] EXCEPT !.skipped = TRUE]
<1>2. /\ row \in GuardRow /\ row.pc = "recorded" /\ row.of = guard[g].of /\ row.claim = 0
      /\ row.tries = guard[g].tries
  BY <1>1 DEF GuardRow, Recovering
<1>3. Turns(g, row) /\ told' = [told EXCEPT ![guard[g].of] = t]
  BY DEF RecoverThrows, Turns
<1>4. /\ t \in ToldRow /\ t.mailed = told[guard[g].of].mailed /\ t.again = told[guard[g].of].again
      /\ t.unclaimed = told[guard[g].of].unclaimed
  BY <1>1 DEF ToldRow
<1> HIDE DEF row, t
<1>5. guard'[g] = row /\ told' \in [Mail -> ToldRow]
      /\ told'[guard[g].of] = t /\ \A m \in Mail \ {guard[g].of} : told'[m] = told[m]
  BY <1>1, <1>2, <1>3, <1>4, AnyGuard, Tells
<1>6. GuardIsLinked(g)'
  BY <1>1, <1>2, <1>5, Places DEF GuardIsLinked
<1>7. ASSUME NEW m \in Mail PROVE Paid(g, m)
  <2>1. /\ told'[m].mailed = told[m].mailed /\ told'[m].again = told[m].again
        /\ told'[m].unclaimed = told[m].unclaimed
    BY <1>4, <1>5
  <2>2. ~WillMail(guard'[g], m) /\ ~WillClaim(guard'[g], m) /\ ~WillCredit(guard'[g], m)
        /\ ~MailedBy(guard'[g], m) /\ ~MailedBy(guard[g], m)
    BY <1>1, <1>2, <1>5 DEF WillMail, WillClaim, WillCredit, MailedBy
  <2>3. QED BY <1>1, <2>1, <2>2, ToldFields DEF Paid, Delta
<1>8. /\ UNCHANGED <<agentRun, work, invoice, costVars, parseVars, parsed, claims, matReturn, leftover>>
      /\ faults' \in 0..MaxFaults /\ faults' >= faults /\ rolled' \in [Jobs -> Nat]
      /\ \A j \in Jobs : rolled'[j] - rolled[j] + Delta(Chasing(row, j), Chasing(guard[g], j)) = 0
  BY <1>1, <1>2, TypesOf, FaultCounts DEF RecoverThrows, returnVars, Delta, Chasing
<1>9. QED BY <1>1, <1>2, <1>3, <1>5, <1>6, <1>7, <1>8, ToldStepKeeps

\* A run that is over or begun anew owes nothing of what it held.
Blank(pc, a, n) == [NoGuard EXCEPT !.pc = pc, !.of = a, !.tries = n]

LEMMA NothingHeld ==
  ASSUME NEW a \in Mail \cup {Nil}, NEW n \in 0..MaxTries,
         NEW pc \in {"load", "open", "reconcile", "failed"}
  PROVE  /\ Blank(pc, a, n) \in GuardRow /\ Blank(pc, a, n).pc = pc /\ Blank(pc, a, n).of = a
         /\ Blank(pc, a, n).tries = n /\ Blank(pc, a, n).claim = 0
         /\ \A j \in Jobs : ~Chasing(Blank(pc, a, n), j)
         /\ \A m : ~MailedBy(Blank(pc, a, n), m)
BY DEF Blank, NoGuard, GuardRow, Guarding, Recovering, Reconciling, Chasing, MailedBy

LEMMA ReconcileThrowsKeeps == ASSUME SuppliersInductive, NEW g \in Actors, ReconcileThrows(g) PROVE SuppliersInductive'
<1>1. /\ SupplierTypeOK /\ guard[g] \in GuardRow /\ GuardIsLinked(g) /\ guard[g].pc \in Reconciling
      /\ guard[g].pc # "finish" /\ RolledBack(g) /\ g \in Guards \cup Desks /\ 0 < MaxTries
  BY ActorFacts, Places DEF ReconcileThrows
<1>2. Turns(g, Over)
  BY DEF ReconcileThrows, Turns
<1>3. guard'[g] = Over
  BY <1>1, <1>2, OverRow, AnyGuard
<1>4. GuardIsLinked(g)'
  BY <1>3, OverLinked
<1>5. \A j \in Jobs : ~Chasing(Over, j)
  BY OverRow DEF Chasing
<1>6. /\ rolled' \in [Jobs -> Nat]
      /\ \A j \in Jobs : rolled'[j] - rolled[j] + Delta(Chasing(Over, j), Chasing(guard[g], j)) = 0
  BY <1>1, <1>5, RollsBack
<1>7. ASSUME NEW m \in Mail PROVE Paid(g, m)
  <2>1. told'[m] = told[m] /\ told \in [Mail -> ToldRow]
    BY <1>1 DEF ReconcileThrows, SupplierTypeOK
  <2>2. ~WillMail(guard'[g], m) /\ ~WillClaim(guard'[g], m) /\ ~WillCredit(guard'[g], m)
        /\ ~MailedBy(guard'[g], m) /\ ~MailedBy(guard[g], m)
    BY <1>1, <1>3, OverRow, Places DEF WillMail, WillClaim, WillCredit, MailedBy
  <2>3. QED BY <2>1, <2>2, ToldFields DEF Paid, Delta
<1>8. /\ UNCHANGED <<agentRun, work, invoice, costVars, parseVars, parsed, claims, matReturn, leftover>>
      /\ faults' \in 0..MaxFaults /\ faults' >= faults /\ told' \in [Mail -> ToldRow]
  BY <1>1, FaultCounts DEF ReconcileThrows, SupplierTypeOK
<1>9. QED BY <1>1, <1>2, <1>4, <1>6, <1>7, <1>8, OverRow, ToldStepKeeps

\* What a guard is when its step died: begun anew, or at the end of its attempts.
Anew(r) == Blank(IF LastTry(r) THEN "failed" ELSE GuardRestart(r.pc), r.of, r.tries + 1)

LEMMA AnewLinked ==
  ASSUME SuppliersInductive, NEW g \in Guards, guard[g].pc \in Working
  PROVE  /\ Anew(guard[g]) \in GuardRow /\ Anew(guard[g]).of = guard[g].of /\ guard[g].of \in Mail
         /\ Anew(guard[g]).pc \in {"load", "open", "reconcile", "failed"}
         /\ guard[g].pc \in Reconciling => Anew(guard[g]).pc \in {"reconcile", "failed"}
         /\ \A j \in Jobs : ~Chasing(Anew(guard[g]), j)
         /\ \A m : ~MailedBy(Anew(guard[g]), m)
         /\ guard'[g] = Anew(guard[g]) => GuardIsLinked(g)'
<1>1. /\ SupplierTypeOK /\ guard[g] \in GuardRow /\ GuardIsLinked(g) /\ g \in Actors /\ g \notin Desks
      /\ MaxTries \in Nat \ {0} /\ Mail = Bills \cup Memos /\ Nil \notin Mail
  BY FiniteActors, ActorFacts
<1> DEFINE pc == IF LastTry(guard[g]) THEN "failed" ELSE GuardRestart(guard[g].pc)
           n == guard[g].tries + 1
           row == Blank(pc, guard[g].of, n)
<1>2. /\ guard[g].of \in Mail /\ guard[g].tries \in 0..MaxTries /\ guard[g].tries < MaxTries
      /\ guard[g].pc \in Guarding => guard[g].of \in Bills
      /\ guard[g].pc \in Recovering => guard[g].of \in Memos
  BY <1>1, GuardFields, Places DEF GuardIsLinked
<1>3. n \in 0..MaxTries /\ (~LastTry(guard[g]) => n < MaxTries)
  BY <1>1, <1>2 DEF LastTry
<1>4. /\ pc \in {"load", "open", "reconcile", "failed"}
      /\ pc = "load" => guard[g].pc \in Guarding /\ guard[g].of \in Bills
      /\ pc = "open" => guard[g].pc \in Recovering /\ guard[g].of \in Memos
      /\ guard[g].pc \in Reconciling => pc \in {"reconcile", "failed"}
      /\ pc # "failed" => n < MaxTries
  <2>1. /\ guard[g].pc \in Guarding => GuardRestart(guard[g].pc) = "load"
        /\ guard[g].pc \in Recovering => GuardRestart(guard[g].pc) = "open"
        /\ guard[g].pc \in Reconciling => GuardRestart(guard[g].pc) = "reconcile"
    BY Places DEF GuardRestart
  <2>2. guard[g].pc \in Guarding \cup Recovering \cup Reconciling
    BY DEF Working
  <2>3. QED BY <1>2, <1>3, <2>1, <2>2
<1>5. Anew(guard[g]) = row
  BY DEF Anew
<1> HIDE DEF pc, n
<1>6. /\ row \in GuardRow /\ row.pc = pc /\ row.of = guard[g].of /\ row.tries = n /\ row.claim = 0
      /\ \A j \in Jobs : ~Chasing(row, j)
      /\ \A m : ~MailedBy(row, m)
  <2>1. guard[g].of \in Mail \cup {Nil} /\ n \in 0..MaxTries
        /\ pc \in {"load", "open", "reconcile", "failed"}
    BY <1>2, <1>3, <1>4
  <2>2. QED BY <2>1, NothingHeld, SMTT(30)
<1> HIDE DEF row
<1>7. ASSUME guard'[g] = row PROVE GuardIsLinked(g)'
  BY <1>1, <1>2, <1>4, <1>6, <1>7, Places DEF GuardIsLinked
<1>8. QED BY <1>2, <1>4, <1>5, <1>6, <1>7

LEMMA DeskDiesKeeps ==
  ASSUME SuppliersInductive, NEW g \in Desks, GuardDies(g) PROVE SuppliersInductive'
<1>1. /\ SupplierTypeOK /\ guard[g] \in GuardRow /\ GuardIsLinked(g) /\ g \notin Guards /\ g \in Actors
      /\ guard[g].pc # "finish" /\ RolledBack(g)
  BY FiniteActors, ActorFacts, Places DEF GuardDies, GuardIsLinked
<1>2. Turns(g, Over)
  BY DEF GuardDies, Turns
<1>3. guard'[g] = Over
  BY <1>1, <1>2, OverRow, AnyGuard
<1>4. GuardIsLinked(g)'
  BY <1>1, <1>3, OverLinked
<1>5. \A j \in Jobs : ~Chasing(Over, j)
  BY OverRow DEF Chasing
<1>6. /\ rolled' \in [Jobs -> Nat]
      /\ \A j \in Jobs : rolled'[j] - rolled[j] + Delta(Chasing(Over, j), Chasing(guard[g], j)) = 0
  BY <1>1, <1>5, RollsBack
<1>7. told' = told
  BY DEF GuardDies
<1>8. \A m \in Mail : Paid(g, m)
  BY <1>1, <1>7, TypesOf, ToldFields DEF Paid, Delta
<1>9. /\ UNCHANGED <<agentRun, work, invoice, costVars, parseVars, parsed, claims, matReturn, leftover>>
      /\ faults' \in 0..MaxFaults /\ faults' >= faults /\ told' \in [Mail -> ToldRow]
  BY <1>1, <1>7, FaultCounts DEF GuardDies, SupplierTypeOK
<1>10. QED BY <1>1, <1>2, <1>4, <1>6, <1>8, <1>9, OverRow, ToldStepKeeps

LEMMA GuardDiesKeeps ==
  ASSUME SuppliersInductive, NEW g \in Guards, GuardDies(g) PROVE SuppliersInductive'
<1>1. /\ SupplierTypeOK /\ guard[g] \in GuardRow /\ GuardIsLinked(g) /\ g \notin Desks /\ g \in Actors
      /\ told \in [Mail -> ToldRow] /\ guard[g].pc \in Working /\ RolledBack(g) /\ Nil \notin Mail
  BY FiniteActors, ActorFacts DEF GuardDies
<1> DEFINE row == Anew(guard[g])
           a == guard[g].of
<1>2. Turns(g, row)
  BY <1>1 DEF GuardDies, Turns, Anew, Blank
<1>3. /\ row \in GuardRow /\ row.of = a /\ a \in Mail
      /\ row.pc \in {"load", "open", "reconcile", "failed"}
      /\ guard[g].pc \in Reconciling => row.pc \in {"reconcile", "failed"}
      /\ \A j \in Jobs : ~Chasing(row, j)
      /\ \A m : ~MailedBy(row, m)
      /\ guard'[g] = row => GuardIsLinked(g)'
  BY <1>1, AnewLinked
<1> HIDE DEF row
<1>4. guard'[g] = row
  BY <1>1, <1>2, <1>3, AnyGuard
<1>5. /\ rolled' \in [Jobs -> Nat]
      /\ \A j \in Jobs : rolled'[j] - rolled[j] + Delta(Chasing(row, j), Chasing(guard[g], j)) = 0
  BY <1>1, <1>3, RollsBack
<1>6. told' \in [Mail -> ToldRow] /\ \A m \in Mail : Paid(g, m)
  <2>1. CASE guard[g].pc \in Reconciling
    <3>1. told' = told
      BY <2>1 DEF GuardDies
    <3>2. ASSUME NEW m \in Mail PROVE Paid(g, m)
      <4>1. ~WillMail(guard'[g], m) /\ ~WillClaim(guard'[g], m) /\ ~WillCredit(guard'[g], m)
            /\ ~MailedBy(guard'[g], m) /\ ~MailedBy(guard[g], m)
        BY <1>3, <1>4, <2>1, Places DEF WillMail, WillClaim, WillCredit, MailedBy
      <4>2. QED BY <1>1, <3>1, <4>1, ToldFields DEF Paid, Delta
    <3>3. QED BY <1>1, <3>1, <3>2
  <2>2. CASE guard[g].pc \notin Reconciling
    <3>1. PICK left \in IF guard[g].pc = "email" THEN {0, 1} ELSE {0} :
            told' = [told EXCEPT ![a].skipped = @ \/ LastTry(guard[g]), ![a].again = @ + 1,
                                 ![a].mailed = @ + left, ![a].unclaimed = @ + left + Lost(g)]
      BY <1>1, <2>2 DEF GuardDies
    <3> DEFINE u == told[a]
               b == u.skipped \/ LastTry(guard[g])
               t == [u EXCEPT !.skipped = b, !.again = @ + 1, !.mailed = @ + left, !.unclaimed = @ + left + Lost(g)]
    <3>2. /\ left \in {0, 1} /\ (left = 1 => guard[g].pc = "email") /\ Lost(g) \in {0, 1}
          /\ u \in ToldRow /\ u.mailed \in Nat /\ u.again \in Nat /\ u.unclaimed \in Nat /\ b \in BOOLEAN
      BY <1>1, <1>3, <3>1, ToldFields, SMTT(30) DEF Lost
    <3>3. told' = [told EXCEPT ![a] = t]
      BY <3>1
    <3> HIDE DEF b, u
    <3>4. u.mailed + left \in Nat /\ u.unclaimed + left + Lost(g) \in Nat /\ u.again + 1 \in Nat
      BY <3>2
    <3>5. /\ t \in ToldRow /\ t.mailed = u.mailed + left /\ t.again = u.again + 1
          /\ t.unclaimed = u.unclaimed + left + Lost(g)
      BY <3>2, <3>4 DEF ToldRow
    <3> HIDE DEF t
    <3>6. told' \in [Mail -> ToldRow] /\ told'[a] = t /\ \A m \in Mail \ {a} : told'[m] = told[m]
      BY <1>1, <1>3, <3>3, <3>5, Tells
    <3>7. ASSUME NEW m \in Mail, m # a PROVE Paid(g, m)
      <4>1. ~WillMail(guard'[g], m) /\ ~WillClaim(guard'[g], m) /\ ~WillCredit(guard'[g], m)
            /\ ~MailedBy(guard'[g], m) /\ ~MailedBy(guard[g], m) /\ told'[m] = told[m]
        BY <1>3, <1>4, <3>6, <3>7 DEF WillMail, WillClaim, WillCredit, MailedBy
      <4>2. QED BY <1>1, <4>1, ToldFields DEF Paid, Delta
    <3>8. Paid(g, a)
      <4>1. /\ left = 1 => WillMail(guard[g], a)
            /\ MailedBy(guard[g], a) <=> Mailed(g)
            /\ ~MailedBy(guard'[g], a)
        BY <1>3, <1>4, <3>2 DEF WillMail, MailedBy, Mailed
      <4>2. /\ told'[a].mailed = told[a].mailed + left /\ told'[a].again = told[a].again + 1
            /\ told'[a].unclaimed = told[a].unclaimed + left + Lost(g)
        BY <3>5, <3>6 DEF u
      <4>3. 1 \in {0, 1} /\ left \in {0, 1} /\ a \in Mail
        BY <1>3, <3>2
      <4> HIDE DEF a
      <4>4. QED BY <1>1, <4>1, <4>2, <4>3, LosesPay
    <3>9. QED BY <3>6, <3>7, <3>8
  <2>3. QED BY <2>1, <2>2
<1>7. /\ UNCHANGED <<agentRun, work, invoice, costVars, parseVars, parsed, claims, matReturn, leftover>>
      /\ faults' \in 0..MaxFaults /\ faults' >= faults + 1 /\ faults' >= faults
  BY <1>1, FaultCounts, SMTT(30) DEF GuardDies
<1>8. row.pc \notin {"finish", "chase", "commit"} /\ row.of \in {guard[g].of, Nil} /\ GuardIsLinked(g)'
  BY <1>3, <1>4
<1>9. QED BY <1>1, <1>2, <1>3, <1>5, <1>6, <1>7, <1>8, ToldStepKeeps

-----------------------------------------------------------------------------
(* The steps that make a claim or settle one.                              *)

\* A claim made pays for the guard that was to make it, one credited for the memo's.
ClaimPaid(g, m) ==
    /\ WillMail(guard'[g], m) => WillMail(guard[g], m)
    /\ Cardinality(Overages(m)') - Cardinality(Overages(m))
         + Delta(g \in Guards /\ WillClaim(guard'[g], m), g \in Guards /\ WillClaim(guard[g], m)) <= 0
    /\ Cardinality(Credits(m)') - Cardinality(Credits(m))
         + Delta(g \in Guards /\ WillCredit(guard'[g], m), g \in Guards /\ WillCredit(guard[g], m)) <= 0
    /\ Cardinality(Sent(m)') - Cardinality(Sent(m))
         + Delta(g \in Guards /\ MailedBy(guard'[g], m), g \in Guards /\ MailedBy(guard[g], m)) = 0

LEMMA ClaimCountsNext ==
  ASSUME claims' \in Seq(Claim), NEW m
  PROVE  /\ Cardinality(Overages(m)') \in Nat /\ Cardinality(Sent(m)') \in Nat
         /\ Cardinality(Credits(m)') \in Nat
<1>1. DOMAIN claims' = 1..Len(claims') /\ Len(claims') \in Nat
  OBVIOUS
<1>2. IsFiniteSet(DOMAIN claims')
  BY <1>1, FS_Interval
<1>3. /\ Overages(m)' \subseteq DOMAIN claims' /\ Sent(m)' \subseteq DOMAIN claims'
      /\ Credits(m)' \subseteq DOMAIN claims'
  BY DEF Overages, Sent, Credits
<1>4. /\ IsFiniteSet(Overages(m)') /\ IsFiniteSet(Sent(m)') /\ IsFiniteSet(Credits(m)')
  BY <1>2, <1>3, FS_Subset
<1>5. QED BY <1>4, FS_CardinalityType

LEMMA StillBelow ==
  ASSUME NEW o \in Nat, NEW p \in Nat, NEW b \in Nat, NEW c \in Int, NEW f \in Nat, NEW k \in Nat,
         o + b + f <= 1 + k, p - o + (c - b) <= 0
  PROVE  p + c + f <= 1 + k
OBVIOUS

LEMMA StillEqual ==
  ASSUME NEW s \in Nat, NEW t \in Nat, NEW d \in Nat, NEW e \in Int, NEW n \in Nat, NEW k \in Nat,
         k = s + n + d, t - s + (e - d) = 0
  PROVE  k = t + n + e
OBVIOUS

LEMMA ClaimsStillPay ==
  ASSUME SupplierTypeOK, ClaimsAreCounted, NEW g \in Actors, guard' \in [Actors -> GuardRow],
         \A h \in Actors \ {g} : guard'[h] = guard[h],
         \A m \in Mail : Cardinality(Overages(m)') \in Nat /\ Cardinality(Sent(m)') \in Nat
                         /\ Cardinality(Credits(m)') \in Nat,
         UNCHANGED <<told, parsed, parse>>, \A m \in Mail : ClaimPaid(g, m)
  PROVE  ClaimsAreCounted'
<1>1. guard \in [Actors -> GuardRow] /\ claims \in Seq(Claim) /\ told \in [Mail -> ToldRow]
      /\ parsed \in [Mail -> Nat]
  BY DEF SupplierTypeOK, Actors
<1>2. ASSUME NEW m \in Mail PROVE StartsPay(m)' /\ MailIsClaimed(m)'
  <2> DEFINE a == Cardinality(Mailers(m))
             b == Cardinality(Claimers(m))
             c == Cardinality(Creditors(m))
             d == Cardinality(HasMailed(m))
             t == told[m]
  <2>1. StartsPay(m) /\ MailIsClaimed(m) /\ ClaimPaid(g, m)
    BY DEF ClaimsAreCounted
  <2>2. /\ a \in Nat /\ a' - a = Delta(g \in Guards /\ WillMail(guard'[g], m), g \in Guards /\ WillMail(guard[g], m))
        /\ b \in Nat /\ b' - b = Delta(g \in Guards /\ WillClaim(guard'[g], m), g \in Guards /\ WillClaim(guard[g], m))
        /\ c \in Nat
        /\ c' - c = Delta(g \in Guards /\ WillCredit(guard'[g], m), g \in Guards /\ WillCredit(guard[g], m))
        /\ a' \in Int /\ b' \in Int /\ c' \in Int
    <3>1. /\ a \in Nat
          /\ a' = a + Delta(g \in Guards /\ WillMail(guard'[g], m), g \in Guards /\ WillMail(guard[g], m))
          /\ b \in Nat
          /\ b' = b + Delta(g \in Guards /\ WillClaim(guard'[g], m), g \in Guards /\ WillClaim(guard[g], m))
          /\ c \in Nat
          /\ c' = c + Delta(g \in Guards /\ WillCredit(guard'[g], m), g \in Guards /\ WillCredit(guard[g], m))
      BY <1>1, GuardSets
    <3> HIDE DEF a, b, c
    <3>2. QED BY <3>1 DEF Delta
  <2>3. /\ d \in Nat /\ d' \in Int
        /\ d' - d = Delta(g \in Guards /\ MailedBy(guard'[g], m), g \in Guards /\ MailedBy(guard[g], m))
    BY <1>1, GuardOwes DEF Delta
  <2> DEFINE o == Cardinality(Overages(m))
             s == Cardinality(Sent(m))
             e == Cardinality(Credits(m))
             f == ToCome(m)
  <2>4. o \in Nat /\ s \in Nat /\ e \in Nat
    BY <1>1, ClaimCounts
  <2>5. o' \in Nat /\ s' \in Nat /\ e' \in Nat
    OBVIOUS
  <2>6. t.mailed \in Nat /\ t.again \in Nat /\ t.unclaimed \in Nat /\ told'[m] = t
    BY <1>1, ToldFields DEF ToldRow
  <2>7. ToCome(m)' = f /\ f \in Nat
    BY <1>1 DEF ToCome, Early
  <2>8. a' <= a /\ o' - o + (b' - b) <= 0 /\ e' - e + (c' - c) <= 0 /\ s' - s + (d' - d) = 0
    <3>1. a' - a <= 0
      BY <2>1, <2>2 DEF ClaimPaid, Delta
    <3>2. a' <= a
      BY <2>2, <3>1
    <3>3. o' - o + (b' - b) <= 0 /\ e' - e + (c' - c) <= 0 /\ s' - s + (d' - d) = 0
      BY <2>1, <2>2, <2>3 DEF ClaimPaid
    <3>4. QED BY <3>2, <3>3
  <2>9. t.mailed + a + f <= 1 + t.again /\ o + b + f <= 1 + t.again /\ e + c + f <= 1 + t.again
        /\ t.mailed = s + t.unclaimed + d
    BY <2>1 DEF StartsPay, MailIsClaimed
  <2>10. a \in Nat /\ b \in Nat /\ c \in Nat /\ d \in Nat /\ a' \in Int /\ b' \in Int /\ c' \in Int /\ d' \in Int
    BY <2>2, <2>3
  <2> HIDE DEF a, b, c, d, t, o, s, e, f
  <2>11. t.mailed + a' + f <= 1 + t.again
    BY <2>6, <2>7, <2>8, <2>9, <2>10
  <2>12. o' + b' + f <= 1 + t.again
    BY <2>4, <2>5, <2>6, <2>7, <2>8, <2>9, <2>10, StillBelow
  <2>13. e' + c' + f <= 1 + t.again
    BY <2>4, <2>5, <2>6, <2>7, <2>8, <2>9, <2>10, StillBelow
  <2>14. t.mailed = s' + t.unclaimed + d'
    BY <2>4, <2>5, <2>6, <2>8, <2>9, <2>10, StillEqual
  <2>15. QED BY <2>6, <2>7, <2>11, <2>12, <2>13, <2>14 DEF StartsPay, MailIsClaimed, a, b, c, d, t, o, s, e, f
<1>3. QED BY <1>2 DEF ClaimsAreCounted

\* What is claimed for another reason leaves the returns' claims.
LEMMA ChasesStand ==
  ASSUME ClaimsGrow, \A k \in DOMAIN claims' \ DOMAIN claims : claims'[k].for # "return", NEW j
  PROVE  Chases(j)' = Chases(j)
BY DEF ClaimsGrow, Chases

LEMMA CreateClaimKeeps == ASSUME SuppliersInductive, NEW g \in Actors, CreateClaim(g) PROVE SuppliersInductive'
<1> DEFINE sent == guard[g].plan = "send"
           pc == IF sent THEN "begin" ELSE "record"
           row == [guard[g] EXCEPT !.pc = pc]
           c == [for |-> "overage", of |-> guard[g].of, job |-> guard[g].job,
                 status |-> IF sent THEN "sent" ELSE "drafted", by |-> {}]
           n == Len(claims) + 1
<1>1. /\ SupplierTypeOK /\ guard[g] \in GuardRow /\ GuardIsLinked(g) /\ g \in Guards /\ g \notin Desks
      /\ guard[g].pc = "claim" /\ guard[g].of \in Bills /\ guard[g].of \in Mail /\ guard[g].claim = 0
      /\ guard[g].job \in Jobs /\ claims \in Seq(Claim) /\ Nil \notin Mail
  <2>1. SupplierTypeOK /\ guard[g] \in GuardRow /\ GuardIsLinked(g) /\ guard[g].pc = "claim"
        /\ claims \in Seq(Claim) /\ Nil \notin Mail
    BY ActorFacts DEF CreateClaim
  <2>2. guard[g].job \in Jobs
    BY <2>1, GuardFields DEF GuardIsLinked
  <2>3. QED BY <2>1, <2>2, ActorFacts, Places DEF GuardIsLinked
<1>2. /\ row \in GuardRow /\ row.pc = pc /\ row.of = guard[g].of /\ row.plan = guard[g].plan
      /\ row.claim = 0 /\ row.tries = guard[g].tries /\ row.job = guard[g].job
  BY <1>1 DEF GuardRow, Guarding
<1>3. c \in Claim /\ c.for = "overage" /\ c.of = guard[g].of /\ c.by = {} /\ c.status # "credited"
      /\ (c.status # "drafted" <=> sent)
  BY <1>1 DEF Claim
<1>4. Turns(g, row) /\ claims' = Append(claims, c)
  BY DEF CreateClaim, Turns
<1> HIDE DEF row, c
<1>5. /\ claims' \in Seq(Claim) /\ ClaimsGrow
      /\ DOMAIN claims' = DOMAIN claims \cup {n} /\ n \notin DOMAIN claims /\ claims'[n] = c
      /\ \A k \in DOMAIN claims : claims'[k] = claims[k]
  BY <1>1, <1>3, <1>4, ClaimMade
<1> HIDE DEF n
<1>6. guard' \in [Actors -> GuardRow] /\ guard'[g] = row /\ \A h \in Actors \ {g} : guard'[h] = guard[h]
  BY <1>1, <1>2, <1>4, AnyGuard
<1>7. GuardIsLinked(g)'
  BY <1>1, <1>2, <1>6, Places DEF GuardIsLinked
<1>8. ClaimsAreCounted'
  <2>1. ASSUME NEW m \in Mail PROVE ClaimPaid(g, m)
    <3>1. ~WillMail(guard'[g], m) /\ ~WillClaim(guard'[g], m) /\ ~WillCredit(guard'[g], m)
          /\ ~MailedBy(guard'[g], m) /\ ~WillCredit(guard[g], m)
          /\ (WillClaim(guard[g], m) <=> m = guard[g].of)
          /\ (MailedBy(guard[g], m) <=> m = guard[g].of /\ sent)
      BY <1>1, <1>2, <1>6 DEF WillMail, WillClaim, WillCredit, MailedBy
    <3>2. /\ Cardinality(Overages(m)') = Cardinality(Overages(m)) + Delta(m = guard[g].of, FALSE)
          /\ Cardinality(Sent(m)') = Cardinality(Sent(m)) + Delta(m = guard[g].of /\ sent, FALSE)
          /\ Cardinality(Credits(m)') = Cardinality(Credits(m))
      <4>1. /\ Cardinality(Overages(m)') = Cardinality(Overages(m)) + Delta(c.for = "overage" /\ c.of = m, FALSE)
            /\ Cardinality(Sent(m)') = Cardinality(Sent(m))
                 + Delta(c.for = "overage" /\ c.of = m /\ c.status # "drafted", FALSE)
            /\ Cardinality(Credits(m)') = Cardinality(Credits(m))
        <5>1. claims \in Seq(Claim) /\ c \in Claim /\ c.by = {} /\ claims' = Append(claims, c)
          BY <1>1, <1>3, <1>4
        <5>2. QED BY <5>1, ClaimCounted
      <4>2. QED BY <1>3, <4>1 DEF Delta
    <3>3. Cardinality(Overages(m)) \in Nat /\ Cardinality(Sent(m)) \in Nat /\ Cardinality(Credits(m)) \in Nat
      BY <1>1, ClaimCounts
    <3> DEFINE o == Cardinality(Overages(m))
               s == Cardinality(Sent(m))
               e == Cardinality(Credits(m))
    <3>4. /\ o' = o + Delta(m = guard[g].of, FALSE) /\ s' = s + Delta(m = guard[g].of /\ sent, FALSE) /\ e' = e
          /\ o \in Nat /\ s \in Nat /\ e \in Nat
      BY <3>2, <3>3
    <3> HIDE DEF o, s, e, sent
    <3>5. /\ o' - o + Delta(g \in Guards /\ WillClaim(guard'[g], m), g \in Guards /\ WillClaim(guard[g], m)) <= 0
          /\ e' - e + Delta(g \in Guards /\ WillCredit(guard'[g], m), g \in Guards /\ WillCredit(guard[g], m)) <= 0
          /\ s' - s + Delta(g \in Guards /\ MailedBy(guard'[g], m), g \in Guards /\ MailedBy(guard[g], m)) = 0
      BY <1>1, <3>1, <3>4 DEF Delta
    <3>6. QED BY <3>1, <3>5 DEF ClaimPaid, o, s, e
  <2>2. ClaimsAreCounted /\ UNCHANGED <<told, parsed, parse>>
    BY DEF SuppliersInductive, CreateClaim, parseVars
  <2>3. \A m \in Mail : Cardinality(Overages(m)') \in Nat /\ Cardinality(Sent(m)') \in Nat
                         /\ Cardinality(Credits(m)') \in Nat
    BY <1>5, ClaimCountsNext
  <2>4. QED BY <1>1, <1>6, <2>1, <2>2, <2>3, ClaimsStillPay
<1>9. CreditsHaveMemos'
  BY <1>3, <1>5 DEF SuppliersInductive, CreditsHaveMemos
<1>10. ReturnsAreChasedOnce'
  <2>1. \A k \in DOMAIN claims' \ DOMAIN claims : claims'[k].for # "return"
    BY <1>3, <1>5
  <2>2. \A j \in Jobs : Chases(j)' = Chases(j)
    BY <1>5, <2>1, ChasesStand
  <2>3. /\ rolled \in [Jobs -> Nat] /\ rolled' = rolled /\ UNCHANGED matReturn /\ ReturnsAreChasedOnce
    BY <1>1, TypesOf DEF CreateClaim, returnVars, SuppliersInductive
  <2>4. \A j \in Jobs : rolled'[j] - rolled[j] + Delta(Chasing(guard'[g], j), Chasing(guard[g], j)) = 0
    BY <1>1, <1>2, <1>6, <2>3 DEF Delta, Chasing
  <2>5. QED BY <1>1, <1>6, <2>2, <2>3, <2>4, QuietReturns
<1>11. /\ UNCHANGED <<agentRun, work, costVars, parseVars, matReturn>> /\ leftover' \in [Jobs -> BOOLEAN]
       /\ faults' \in 0..MaxFaults /\ faults' >= faults
       /\ invoice' \in [Mail -> InvoiceRow] /\ InvoicesStand
       /\ parsed' \in [Mail -> Nat] /\ told' \in [Mail -> ToldRow] /\ rolled' \in [Jobs -> Nat]
  BY <1>1, TypesOf DEF CreateClaim, runVars, returnVars, SupplierTypeOK, InvoicesStand
<1>12. /\ row.pc # "finish" /\ row.pc \notin {"chase", "commit"} /\ guard[g].pc # "finish"
       /\ \A m \in Mail : Taken(m)' => Taken(m)
  <2>1. UNCHANGED parsed
    BY DEF CreateClaim
  <2>2. QED BY <1>1, <1>2, <1>6, <2>1, FiniteActors DEF Taken
<1>13. QED BY <1>1, <1>2, <1>4, <1>5, <1>7, <1>8, <1>9, <1>10, <1>11, <1>12, GuardStepKeeps

LEMMA NoMore ==
  ASSUME NEW e \in Nat, NEW f \in Nat, NEW d \in Nat, NEW x \in Int, f <= e + d, x + d = 0
  PROVE  f - e + x <= 0
OBVIOUS

LEMMA CreditClaimKeeps == ASSUME SuppliersInductive, NEW g \in Actors, CreditClaim(g) PROVE SuppliersInductive'
<1> DEFINE row == [guard[g] EXCEPT !.pc = "recorded", !.claim = 0]
           a == guard[g].of
           n == guard[g].claim
<1>1. /\ SupplierTypeOK /\ guard[g] \in GuardRow /\ GuardIsLinked(g) /\ g \in Guards /\ g \notin Desks
      /\ guard[g].pc = "credit" /\ a \in Memos /\ a \in Mail /\ claims \in Seq(Claim) /\ Nil \notin Mail
      /\ n \in DOMAIN claims /\ claims[n].status # "drafted"
  BY ActorFacts, Places DEF CreditClaim, GuardIsLinked
<1>2. /\ row \in GuardRow /\ row.pc = "recorded" /\ row.of = a /\ row.claim = 0 /\ row.tries = guard[g].tries
  BY <1>1 DEF GuardRow, Recovering
<1>3. /\ Turns(g, row)
      /\ claims' = [claims EXCEPT ![n].status = "credited", ![n].by = @ \cup {a}]
  BY DEF CreditClaim, Turns
<1> HIDE DEF row
<1>4. /\ claims' \in Seq(Claim) /\ ClaimsGrow /\ DOMAIN claims' = DOMAIN claims
      /\ claims'[n].status = "credited" /\ claims'[n].by # {}
      /\ \A k \in DOMAIN claims \ {n} : claims'[k] = claims[k]
      /\ \A m : /\ Cardinality(Overages(m)') = Cardinality(Overages(m))
                /\ Cardinality(Sent(m)') = Cardinality(Sent(m))
                /\ Cardinality(Credits(m)') <= Cardinality(Credits(m)) + Delta(m = a, FALSE)
  <2> HIDE DEF a, n
  <2>1. QED BY <1>1, <1>3, ClaimSettled
<1>5. guard' \in [Actors -> GuardRow] /\ guard'[g] = row /\ \A h \in Actors \ {g} : guard'[h] = guard[h]
  BY <1>1, <1>2, <1>3, AnyGuard
<1>6. GuardIsLinked(g)'
  BY <1>1, <1>2, <1>5, Places DEF GuardIsLinked
<1>7. ClaimsAreCounted'
  <2>1. \A m \in Mail : Cardinality(Overages(m)') \in Nat /\ Cardinality(Sent(m)') \in Nat
                         /\ Cardinality(Credits(m)') \in Nat
    BY <1>4, ClaimCountsNext
  <2>2. ASSUME NEW m \in Mail PROVE ClaimPaid(g, m)
    <3>1. ~WillMail(guard'[g], m) /\ ~WillClaim(guard'[g], m) /\ ~WillCredit(guard'[g], m)
          /\ ~MailedBy(guard'[g], m) /\ ~MailedBy(guard[g], m) /\ ~WillClaim(guard[g], m)
          /\ (WillCredit(guard[g], m) <=> m = a)
      BY <1>1, <1>2, <1>5 DEF WillMail, WillClaim, WillCredit, MailedBy
    <3> DEFINE o == Cardinality(Overages(m))
               s == Cardinality(Sent(m))
               e == Cardinality(Credits(m))
    <3>2. o \in Nat /\ s \in Nat /\ e \in Nat /\ e' \in Nat
      BY <1>1, <2>1, ClaimCounts
    <3>3. o' = o /\ s' = s /\ e' <= e + Delta(m = a, FALSE)
      BY <1>4
    <3> HIDE DEF o, s, e
    <3>4. /\ o' - o + Delta(g \in Guards /\ WillClaim(guard'[g], m), g \in Guards /\ WillClaim(guard[g], m)) <= 0
          /\ e' - e + Delta(g \in Guards /\ WillCredit(guard'[g], m), g \in Guards /\ WillCredit(guard[g], m)) <= 0
          /\ s' - s + Delta(g \in Guards /\ MailedBy(guard'[g], m), g \in Guards /\ MailedBy(guard[g], m)) = 0
      <4>1. /\ o' - o + Delta(g \in Guards /\ WillClaim(guard'[g], m), g \in Guards /\ WillClaim(guard[g], m)) <= 0
            /\ s' - s + Delta(g \in Guards /\ MailedBy(guard'[g], m), g \in Guards /\ MailedBy(guard[g], m)) = 0
        BY <3>1, <3>2, <3>3 DEF Delta
      <4> DEFINE d == IF m = a THEN 1 ELSE 0
                 x == Delta(g \in Guards /\ WillCredit(guard'[g], m), g \in Guards /\ WillCredit(guard[g], m))
      <4>2. e' <= e + d /\ d \in Nat
        BY <3>3 DEF Delta
      <4>3. x + d = 0 /\ x \in Int
        BY <1>1, <3>1 DEF Delta
      <4> HIDE DEF d, x
      <4>4. e' - e + x <= 0
        BY <3>2, <4>2, <4>3, NoMore
      <4>5. QED BY <4>1, <4>4 DEF x
    <3>5. QED BY <3>1, <3>4 DEF ClaimPaid, o, s, e
  <2>3. ClaimsAreCounted /\ UNCHANGED <<told, parsed, parse>>
    BY DEF SuppliersInductive, CreditClaim, parseVars
  <2>4. QED BY <1>1, <1>5, <2>1, <2>2, <2>3, ClaimsStillPay
<1>8. CreditsHaveMemos'
  BY <1>4 DEF SuppliersInductive, CreditsHaveMemos
<1>9. ReturnsAreChasedOnce'
  <2>1. \A j \in Jobs : Chases(j)' = Chases(j)
    BY <1>4, ChasesStand
  <2>2. /\ rolled \in [Jobs -> Nat] /\ rolled' = rolled /\ UNCHANGED matReturn /\ ReturnsAreChasedOnce
    BY <1>1, TypesOf DEF CreditClaim, returnVars, SuppliersInductive
  <2>3. \A j \in Jobs : rolled'[j] - rolled[j] + Delta(Chasing(guard'[g], j), Chasing(guard[g], j)) = 0
    BY <1>1, <1>2, <1>5, <2>2 DEF Delta, Chasing
  <2>4. QED BY <1>1, <1>5, <2>1, <2>2, <2>3, QuietReturns
<1>10. /\ UNCHANGED <<agentRun, work, costVars, parseVars, matReturn>> /\ leftover' \in [Jobs -> BOOLEAN]
       /\ faults' \in 0..MaxFaults /\ faults' >= faults
       /\ invoice' \in [Mail -> InvoiceRow] /\ InvoicesStand
       /\ parsed' \in [Mail -> Nat] /\ told' \in [Mail -> ToldRow] /\ rolled' \in [Jobs -> Nat]
  BY <1>1, TypesOf DEF CreditClaim, runVars, returnVars, SupplierTypeOK, InvoicesStand
<1>11. /\ row.pc # "finish" /\ row.pc \notin {"chase", "commit"} /\ guard[g].pc # "finish"
       /\ \A m \in Mail : Taken(m)' => Taken(m)
  <2>1. UNCHANGED parsed
    BY DEF CreditClaim
  <2>2. QED BY <1>1, <1>2, <1>5, <2>1, FiniteActors DEF Taken
<1>12. QED BY <1>1, <1>2, <1>3, <1>4, <1>6, <1>7, <1>8, <1>9, <1>10, <1>11, GuardStepKeeps

LEMMA ChaseReturnKeeps == ASSUME SuppliersInductive, NEW g \in Actors, ChaseReturn(g) PROVE SuppliersInductive'
<1> DEFINE n == Len(claims) + 1
           row == [guard[g] EXCEPT !.pc = "commit", !.claim = n]
           c == [for |-> "return", of |-> guard[g].anchor, job |-> guard[g].job, status |-> "drafted", by |-> {}]
           k == guard[g].job
<1>1. /\ SupplierTypeOK /\ guard[g] \in GuardRow /\ GuardIsLinked(g) /\ g \in Guards \cup Desks
      /\ guard[g].pc = "chase" /\ k \in Jobs /\ guard[g].anchor \in Mail /\ guard[g].claim = 0
      /\ claims \in Seq(Claim) /\ Nil \notin Mail
  BY ActorFacts, Places DEF ChaseReturn, GuardIsLinked
<1>2. c \in Claim /\ c.for = "return" /\ c.job = k /\ c.by = {} /\ c.status = "drafted"
  BY <1>1 DEF Claim
<1>3. Turns(g, row) /\ claims' = Append(claims, c)
  BY DEF ChaseReturn, Turns
<1> HIDE DEF c
<1>4. /\ claims' \in Seq(Claim) /\ ClaimsGrow /\ n \in Nat /\ n # 0
      /\ DOMAIN claims' = DOMAIN claims \cup {n} /\ n \notin DOMAIN claims /\ claims'[n] = c
      /\ \A i \in DOMAIN claims : claims'[i] = claims[i]
  BY <1>1, <1>2, <1>3, ClaimMade
<1> HIDE DEF n
<1>5. /\ row \in GuardRow /\ row.pc = "commit" /\ row.of = guard[g].of /\ row.claim = n /\ row.job = k
      /\ row.tries = guard[g].tries
  BY <1>1, <1>4 DEF GuardRow, Reconciling
<1> HIDE DEF row
<1>6. guard' \in [Actors -> GuardRow] /\ guard'[g] = row /\ \A h \in Actors \ {g} : guard'[h] = guard[h]
  BY <1>1, <1>3, <1>5, AnyGuard
<1>7. n \in Chases(k)'
  BY <1>2, <1>4, <1>5, <1>6 DEF Chases
<1>8. GuardIsLinked(g)'
  <2>1. HasReturn(k)' <=> HasReturn(k)
    BY <1>5, <1>6 DEF HasReturn, ChaseReturn, returnVars
  <2>2. ~HasReturn(k)'
    BY <1>1, <2>1 DEF GuardIsLinked
  <2>3. QED BY <1>1, <1>5, <1>6, <1>7, <2>2, Places DEF GuardIsLinked
<1>9. \A m \in Mail : Cardinality(Overages(m)') \in Nat /\ Cardinality(Sent(m)') \in Nat
                      /\ Cardinality(Credits(m)') \in Nat
  BY <1>4, ClaimCountsNext
<1>10. ASSUME NEW m
       PROVE  /\ Cardinality(Overages(m)') = Cardinality(Overages(m)) /\ Cardinality(Sent(m)') = Cardinality(Sent(m))
              /\ Cardinality(Credits(m)') = Cardinality(Credits(m))
              /\ Cardinality(Chases(m)') = Cardinality(Chases(m)) + Delta(m = k, FALSE)
              /\ Cardinality(Overages(m)) \in Nat /\ Cardinality(Sent(m)) \in Nat
              /\ Cardinality(Credits(m)) \in Nat /\ Cardinality(Chases(m)) \in Nat
  <2>1. claims \in Seq(Claim) /\ c \in Claim /\ c.by = {} /\ claims' = Append(claims, c)
    BY <1>1, <1>2, <1>3
  <2>2. /\ Cardinality(Overages(m)') = Cardinality(Overages(m)) + Delta(c.for = "overage" /\ c.of = m, FALSE)
        /\ Cardinality(Sent(m)') = Cardinality(Sent(m))
             + Delta(c.for = "overage" /\ c.of = m /\ c.status # "drafted", FALSE)
        /\ Cardinality(Credits(m)') = Cardinality(Credits(m))
        /\ Cardinality(Chases(m)') = Cardinality(Chases(m)) + Delta(c.for = "return" /\ c.job = m, FALSE)
    BY <2>1, ClaimCounted
  <2>3. /\ Cardinality(Overages(m)) \in Nat /\ Cardinality(Sent(m)) \in Nat
        /\ Cardinality(Credits(m)) \in Nat /\ Cardinality(Chases(m)) \in Nat
    BY <1>1, ClaimCounts
  <2> DEFINE o == Cardinality(Overages(m))
             s == Cardinality(Sent(m))
             e == Cardinality(Chases(m))
  <2>4. /\ o' = o + Delta(c.for = "overage" /\ c.of = m, FALSE) /\ o \in Nat
        /\ s' = s + Delta(c.for = "overage" /\ c.of = m /\ c.status # "drafted", FALSE) /\ s \in Nat
        /\ e' = e + Delta(c.for = "return" /\ c.job = m, FALSE) /\ e \in Nat
    BY <2>2, <2>3
  <2> HIDE DEF o, s, e
  <2>5. o' = o /\ s' = s /\ e' = e + Delta(m = k, FALSE)
    BY <1>2, <2>4 DEF Delta
  <2>6. QED BY <2>2, <2>3, <2>5 DEF o, s, e
<1>11. ClaimsAreCounted'
  <2>1. ASSUME NEW m \in Mail PROVE ClaimPaid(g, m)
    <3>1. ~WillMail(guard'[g], m) /\ ~WillClaim(guard'[g], m) /\ ~WillCredit(guard'[g], m)
          /\ ~MailedBy(guard'[g], m) /\ ~MailedBy(guard[g], m) /\ ~WillClaim(guard[g], m)
          /\ ~WillCredit(guard[g], m)
      BY <1>1, <1>5, <1>6 DEF WillMail, WillClaim, WillCredit, MailedBy
    <3> DEFINE o == Cardinality(Overages(m))
               s == Cardinality(Sent(m))
               e == Cardinality(Credits(m))
    <3>2. o' = o /\ s' = s /\ e' = e /\ o \in Nat /\ s \in Nat /\ e \in Nat
      BY <1>10
    <3> HIDE DEF o, s, e
    <3>3. /\ o' - o + Delta(g \in Guards /\ WillClaim(guard'[g], m), g \in Guards /\ WillClaim(guard[g], m)) <= 0
          /\ e' - e + Delta(g \in Guards /\ WillCredit(guard'[g], m), g \in Guards /\ WillCredit(guard[g], m)) <= 0
          /\ s' - s + Delta(g \in Guards /\ MailedBy(guard'[g], m), g \in Guards /\ MailedBy(guard[g], m)) = 0
      BY <3>1, <3>2 DEF Delta
    <3>4. QED BY <3>1, <3>3 DEF ClaimPaid, o, s, e
  <2>2. ClaimsAreCounted /\ UNCHANGED <<told, parsed, parse>>
    BY DEF SuppliersInductive, ChaseReturn, parseVars
  <2>3. QED BY <1>1, <1>6, <1>9, <2>1, <2>2, ClaimsStillPay
<1>12. CreditsHaveMemos'
  BY <1>2, <1>4 DEF SuppliersInductive, CreditsHaveMemos
<1>13. ReturnsAreChasedOnce'
  <2>0. guard \in [Actors -> GuardRow] /\ rolled \in [Jobs -> Nat] /\ ReturnsAreChasedOnce
        /\ UNCHANGED <<rolled, matReturn>>
    BY <1>1, TypesOf DEF ChaseReturn, returnVars, SuppliersInductive
  <2>1. ASSUME NEW j \in Jobs PROVE ChaseIsCounted(j)'
    <3> DEFINE a == Cardinality(Chasers(j))
               u == Cardinality(Chases(j))
               v == IF matReturn[j].claim # 0 THEN 1 ELSE 0
    <3>1. ChaseIsCounted(j) /\ matReturn'[j] = matReturn[j] /\ rolled'[j] = rolled[j] /\ rolled[j] \in Nat
      BY <2>0, ChasesAreCounted
    <3>2. a \in Nat /\ a' = a + Delta(Chasing(guard'[g], j), Chasing(guard[g], j))
      BY <1>6, <2>0, GuardOwes
    <3>3. (Chasing(guard'[g], j) <=> j = k) /\ ~Chasing(guard[g], j)
      BY <1>1, <1>4, <1>5, <1>6 DEF Chasing
    <3>4. u' = u + Delta(j = k, FALSE) /\ u \in Nat
      BY <1>10
    <3>5. v' = v /\ v \in Nat
      BY <3>1
    <3>6. u = rolled[j] + v + a
      BY <3>1 DEF ChaseIsCounted
    <3> HIDE DEF a, u, v, k
    <3>7. u' = rolled'[j] + v' + a'
      BY <3>1, <3>2, <3>3, <3>4, <3>5, <3>6 DEF Delta
    <3>8. matReturn'[j].claim # 0 => matReturn'[j].claim \in Chases(j)'
      BY <1>4, <3>1 DEF ChaseIsCounted, Chases, ClaimsGrow
    <3>9. QED BY <3>7, <3>8 DEF ChaseIsCounted, a, u, v
  <2>2. QED BY <2>1, ChasesAreCountedNext
<1>14. /\ UNCHANGED <<agentRun, work, costVars, parseVars, matReturn>> /\ leftover' \in [Jobs -> BOOLEAN]
       /\ faults' \in 0..MaxFaults /\ faults' >= faults
       /\ invoice' \in [Mail -> InvoiceRow] /\ InvoicesStand
       /\ parsed' \in [Mail -> Nat] /\ told' \in [Mail -> ToldRow] /\ rolled' \in [Jobs -> Nat]
  BY <1>1, TypesOf DEF ChaseReturn, runVars, returnVars, SupplierTypeOK, InvoicesStand
<1>15. /\ row.pc # "finish" /\ guard[g].pc # "finish" /\ guard[g].pc \in {"chase", "commit"} /\ row.job = k
       /\ \A m \in Mail : Taken(m)' => Taken(m)
  <2>1. UNCHANGED parsed
    BY DEF ChaseReturn
  <2>2. QED BY <1>1, <1>5, <1>6, <2>1, FiniteActors DEF Taken
<1>16. QED BY <1>1, <1>3, <1>4, <1>5, <1>8, <1>11, <1>12, <1>13, <1>14, <1>15, GuardStepKeeps

-----------------------------------------------------------------------------
(* The steps that write a job's return.                                    *)

LEMMA InsertReturnKeeps == ASSUME SuppliersInductive, NEW g \in Actors, InsertReturn(g) PROVE SuppliersInductive'
<1> DEFINE j == guard[g].job
<1>1. /\ SupplierTypeOK /\ guard[g] \in GuardRow /\ GuardIsLinked(g) /\ g \in Guards \cup Desks
      /\ guard[g].pc = "return" /\ j \in Jobs /\ guard[g].claim = 0 /\ Nil \notin Mail /\ Nil \notin Jobs
      /\ guard[g].anchor \in Mail \cup {Nil}
  BY ActorFacts, Places, GuardFields DEF InsertReturn, GuardIsLinked
<1>2. InvoicesStand /\ invoice' \in [Mail -> InvoiceRow] /\ leftover' \in [Jobs -> BOOLEAN]
      /\ UNCHANGED <<runVars, costVars, parseVars, parsed, claims, matReturn, rolled, told>>
  BY <1>1 DEF InsertReturn, InvoicesStand, SupplierTypeOK, returnVars
<1>3. CASE HasReturn(j)
  <2>1. Turns(g, Over)
    BY <1>3 DEF InsertReturn, Turns
  <2>2. guard'[g] = Over
    BY <1>1, <2>1, OverRow, AnyGuard
  <2>3. GuardIsLinked(g)'
    BY <2>2, OverLinked
  <2>4. /\ \A m \in Mail : /\ WillMail(Over, m) => WillMail(guard[g], m)
                           /\ WillClaim(Over, m) => WillClaim(guard[g], m)
                           /\ WillCredit(Over, m) => WillCredit(guard[g], m)
                           /\ MailedBy(Over, m) <=> MailedBy(guard[g], m)
        /\ \A i \in Jobs : Chasing(Over, i) <=> Chasing(guard[g], i)
    BY <1>1, OverRow DEF MailedBy, Chasing
  <2>5. QED BY <1>1, <1>2, <2>1, <2>3, <2>4, OverRow, QuietStepKeeps
<1>4. CASE ~HasReturn(j)
  <2> DEFINE pc == IF guard[g].anchor = Nil THEN "commit" ELSE "chase"
             row == [guard[g] EXCEPT !.pc = pc]
  <2>1. /\ row \in GuardRow /\ row.pc = pc /\ pc \in {"chase", "commit"} /\ row.of = guard[g].of
        /\ row.claim = 0 /\ row.job = j /\ row.tries = guard[g].tries /\ row.anchor = guard[g].anchor
    BY <1>1 DEF GuardRow, Reconciling
  <2>2. Turns(g, row)
    BY <1>4 DEF InsertReturn, Turns
  <2>3. pc = "chase" => guard[g].anchor \in Mail
    BY <1>1
  <2> HIDE DEF row, pc
  <2>4. guard' \in [Actors -> GuardRow] /\ guard'[g] = row /\ \A h \in Actors \ {g} : guard'[h] = guard[h]
    BY <1>1, <2>1, <2>2, AnyGuard
  <2>5. GuardIsLinked(g)'
    <3>1. ~HasReturn(guard[g].job)'
      BY <1>2, <1>4, <2>1, <2>4 DEF HasReturn
    <3>2. QED BY <1>1, <2>1, <2>3, <2>4, <3>1, Places DEF GuardIsLinked
  <2>6. ReturnsApart'
    <3>1. \A h \in InReturn : guard[h].job # j
      BY DEF InsertReturn
    <3>2. ReturnsApart
      BY DEF SuppliersInductive
    <3>3. \A h \in InReturn' \ {g} : h \in InReturn /\ guard'[h] = guard[h]
      BY <2>4 DEF InReturn, Actors
    <3>4. guard'[g].job = j
      BY <2>1, <2>4
    <3>5. \A x, y \in InReturn' : guard'[x].job = guard'[y].job => x = y
      BY <3>1, <3>2, <3>3, <3>4 DEF ReturnsApart
    <3>6. QED BY <3>5 DEF ReturnsApart
  <2>7. /\ \A m \in Mail : /\ WillMail(row, m) => WillMail(guard[g], m)
                           /\ WillClaim(row, m) => WillClaim(guard[g], m)
                           /\ WillCredit(row, m) => WillCredit(guard[g], m)
                           /\ MailedBy(row, m) <=> MailedBy(guard[g], m)
        /\ \A i \in Jobs : Chasing(row, i) <=> Chasing(guard[g], i)
    BY <1>1, <2>1 DEF WillMail, WillClaim, WillCredit, MailedBy, Chasing
  <2>8. row.pc # "finish" /\ guard[g].pc # "finish" /\ row.of \in {guard[g].of, Nil}
    BY <1>1, <2>1
  <2>9. QED BY <1>1, <1>2, <2>1, <2>2, <2>5, <2>6, <2>7, <2>8, QuietStepKeeps
<1>5. QED BY <1>3, <1>4

LEMMA CommitReturnKeeps == ASSUME SuppliersInductive, NEW g \in Actors, CommitReturn(g) PROVE SuppliersInductive'
<1> DEFINE k == guard[g].job
           r == [status |-> "pending_pickup", claim |-> guard[g].claim]
<1>1. /\ SupplierTypeOK /\ guard[g] \in GuardRow /\ GuardIsLinked(g) /\ g \in Guards \cup Desks
      /\ guard[g].pc = "commit" /\ k \in Jobs /\ Nil \notin Mail /\ ~HasReturn(k)
      /\ guard[g].claim # 0 => guard[g].claim \in Chases(k)
  BY ActorFacts, Places DEF CommitReturn, GuardIsLinked
<1>2. /\ GuardsAreLinked /\ NotesApart /\ ReturnsApart /\ NoReturnNoClaim
      /\ ParsesAreLinked /\ CostIsRight /\ ClaimsAreCounted /\ CreditsHaveMemos /\ ReturnsAreChasedOnce
      /\ NobodyWorks /\ Cardinality(LeftOf(agentRun, OwnedByNotes)) <= faults
  BY DEF SuppliersInductive
<1>3. Turns(g, Over) /\ matReturn' = [matReturn EXCEPT ![k] = r]
  BY DEF CommitReturn, Turns
<1>4. guard' \in [Actors -> GuardRow] /\ guard'[g] = Over /\ \A h \in Actors \ {g} : guard'[h] = guard[h]
  BY <1>1, <1>3, OverRow, AnyGuard
<1>5. /\ guard \in [Actors -> GuardRow] /\ matReturn \in [Jobs -> ReturnRow] /\ claims \in Seq(Claim)
      /\ agentRun \in Seq(RunStatus) /\ faults \in Nat /\ rolled \in [Jobs -> Nat]
  BY <1>1, TypesOf
<1>6. /\ UNCHANGED <<runVars, invoice, costVars, parseVars, parsed, claims, leftover, rolled, told>>
      /\ InvoicesStand /\ ClaimsGrow /\ \A j \in Jobs : Chases(j)' = Chases(j)
  BY <1>5, ClaimsUnchanged DEF CommitReturn, InvoicesStand
<1>7. guard[g].claim \in 0..Len(claims)
  BY <1>1, <1>5, ClaimsNumbered DEF Chases
<1>8. /\ matReturn' \in [Jobs -> ReturnRow] /\ matReturn'[k] = r /\ r.claim = guard[g].claim
      /\ r.status # "none"
      /\ \A j \in Jobs \ {k} : matReturn'[j] = matReturn[j]
  <2>1. r \in ReturnRow
    BY <1>1, GuardFields DEF ReturnRow
  <2>2. QED BY <1>1, <1>3, <1>5, <2>1
<1> HIDE DEF r
<1>9. SupplierTypeOK'
  <2>1. RunTypeOK'
    BY <1>1, <1>6 DEF SupplierTypeOK, RunTypeOK, runVars
  <2>2. \A j \in Jobs : matReturn'[j].claim \in 0..Len(claims')
    BY <1>1, <1>6, <1>7, <1>8 DEF SupplierTypeOK
  <2>3. QED BY <1>1, <1>4, <1>6, <1>8, <2>1, <2>2 DEF SupplierTypeOK, Actors, costVars, parseVars
<1>10. GuardsAreLinked'
  <2>1. ASSUME NEW h \in Actors \ {g} PROVE GuardIsLinked(h)'
    <3>1. GuardIsLinked(h) /\ guard'[h] = guard[h] /\ h \in Actors
      BY <1>2, <1>4 DEF GuardsAreLinked
    <3>2. guard[h].pc = "finish" => Closable(guard[h].row)'
      BY <1>6, <3>1 DEF GuardIsLinked, Closable, runVars
    <3>3. guard[h].pc \in {"chase", "commit"} => ~HasReturn(guard[h].job)'
      <4>1. guard[h].pc \in {"chase", "commit"} => guard[h].job # k /\ guard[h].job \in Jobs
        BY <1>1, <1>2, <3>1 DEF ReturnsApart, InReturn, GuardIsLinked, Actors
      <4>2. QED BY <1>8, <3>1, <4>1 DEF GuardIsLinked, HasReturn
    <3>4. QED BY <1>5, <1>6, <3>1, <3>2, <3>3, OtherStaysLinked
  <2>2. GuardIsLinked(g)'
    BY <1>4, OverLinked
  <2>3. QED BY <2>1, <2>2 DEF GuardsAreLinked
<1>11. NotesApart' /\ Cardinality(LeftOf(agentRun, OwnedByNotes))' <= faults'
  <2>1. guard'[g].pc # "finish" /\ guard[g].pc # "finish" /\ UNCHANGED agentRun /\ faults' = faults
        /\ faults' >= faults /\ faults' \in Nat
    BY <1>1, <1>4, <1>5, <1>6, OverRow DEF runVars
  <2>2. QED BY <1>2, <1>4, <1>5, <2>1, NotesStand
<1>12. ReturnsApart' /\ NoReturnNoClaim'
  <2>1. ReturnsApart'
    BY <1>2, <1>4, OverRow, ReturnsStand
  <2>2. NoReturnNoClaim'
    BY <1>2, <1>8 DEF NoReturnNoClaim, HasReturn
  <2>3. QED BY <2>1, <2>2
<1>13. \A m \in Mail : Taken(m)' => Taken(m)
  BY <1>1, <1>4, <1>6, OverRow, FiniteActors DEF Taken
<1>14. ParsesAreLinked' /\ CostIsRight'
  BY <1>2, <1>6, <1>13, ParsesStand, CostStands DEF parseVars
<1>15. ClaimsAreCounted' /\ CreditsHaveMemos'
  <2>1. \A m \in Mail : /\ ~WillMail(guard'[g], m) /\ ~WillClaim(guard'[g], m) /\ ~WillCredit(guard'[g], m)
                        /\ MailedBy(guard'[g], m) <=> MailedBy(guard[g], m)
    BY <1>1, <1>4, OverRow DEF MailedBy
  <2>2. QED BY <1>1, <1>2, <1>4, <1>6, <2>1, QuietCounts DEF parseVars
<1>16. ReturnsAreChasedOnce'
  <2>1. ASSUME NEW j \in Jobs PROVE ChaseIsCounted(j)'
    <3> DEFINE a == Cardinality(Chasers(j))
               n == Cardinality(Chases(j))
               c == matReturn[j].claim
    <3>1. ChaseIsCounted(j) /\ n' = n /\ rolled'[j] = rolled[j] /\ rolled[j] \in Nat /\ n \in Nat
      BY <1>2, <1>5, <1>6, ChasesAreCounted, ClaimCounts
    <3>2. a \in Nat /\ a' = a + Delta(Chasing(guard'[g], j), Chasing(guard[g], j))
      BY <1>4, <1>5, GuardOwes
    <3>3. ~Chasing(guard'[g], j) /\ (Chasing(guard[g], j) <=> j = k /\ guard[g].claim # 0)
      BY <1>1, <1>4, OverRow DEF Chasing
    <3>4. n = rolled[j] + (IF c # 0 THEN 1 ELSE 0) + a
      BY <3>1 DEF ChaseIsCounted
    <3>5. j = k => c = 0 /\ c' = guard[g].claim
      BY <1>1, <1>2, <1>8 DEF NoReturnNoClaim
    <3>6. j # k => c' = c
      BY <1>8
    <3>7. (c # 0 => c \in Chases(j)) /\ Chases(j)' = Chases(j)
      BY <1>6, <3>1 DEF ChaseIsCounted
    <3>8. c' # 0 => c' \in Chases(j)'
      BY <1>1, <3>5, <3>6, <3>7
    <3> HIDE DEF a, n, c, k
    <3>9. n' = rolled'[j] + (IF c' # 0 THEN 1 ELSE 0) + a'
      <4>1. CASE j = k
        <5>1. n = rolled[j] + a /\ a' = a - (IF c' # 0 THEN 1 ELSE 0)
          BY <3>1, <3>2, <3>3, <3>4, <3>5, <4>1 DEF Delta
        <5>2. QED BY <3>1, <3>2, <5>1
      <4>2. CASE j # k
        <5>1. a' = a /\ c' = c
          BY <3>2, <3>3, <3>6, <4>2 DEF Delta
        <5>2. QED BY <3>1, <3>4, <5>1
      <4>3. QED BY <4>1, <4>2
    <3>10. QED BY <3>8, <3>9 DEF ChaseIsCounted, a, n, c
  <2>2. QED BY <2>1, ChasesAreCountedNext
<1>17. NobodyWorks'
  BY <1>2, <1>6 DEF NobodyWorks, runVars
<1>18. QED BY <1>9, <1>10, <1>11, <1>12, <1>14, <1>15, <1>16, <1>17 DEF SuppliersInductive

-----------------------------------------------------------------------------
(* The steps that open and close a note's row.                             *)

LEMMA NoteStepKeeps ==
  ASSUME SuppliersInductive, NEW g \in Guards, NEW row \in GuardRow, Turns(g, row),
         UNCHANGED <<work, faults, invoice, costVars, parseVars, parsed, claims, returnVars, told>>,
         agentRun' \in Seq(RunStatus), Len(agentRun') >= Len(agentRun), row.pc \notin {"chase", "commit"}, row.of = guard[g].of,
         \A h \in Guards \ {g} : guard[h].pc = "finish" => Closable(guard[h].row)',
         NotesApart', Cardinality(LeftOf(agentRun, OwnedByNotes))' <= faults,
         \A m \in Mail : /\ WillMail(row, m) => WillMail(guard[g], m)
                         /\ WillClaim(row, m) => WillClaim(guard[g], m)
                         /\ WillCredit(row, m) => WillCredit(guard[g], m)
                         /\ MailedBy(row, m) <=> MailedBy(guard[g], m),
         \A j \in Jobs : Chasing(row, j) <=> Chasing(guard[g], j),
         GuardIsLinked(g)'
  PROVE  SuppliersInductive'
<1>1. /\ SupplierTypeOK /\ GuardsAreLinked /\ ReturnsApart /\ NoReturnNoClaim
      /\ ParsesAreLinked /\ CostIsRight /\ ClaimsAreCounted /\ CreditsHaveMemos /\ ReturnsAreChasedOnce
      /\ NobodyWorks /\ g \in Actors
  BY FiniteActors DEF SuppliersInductive
<1>2. guard' \in [Actors -> GuardRow] /\ guard'[g] = row /\ \A h \in Actors \ {g} : guard'[h] = guard[h]
  BY <1>1, AnyGuard
<1>3. claims \in Seq(Claim) /\ rolled \in [Jobs -> Nat]
  BY <1>1, TypesOf
<1>4. /\ InvoicesStand /\ ClaimsGrow /\ \A j \in Jobs : Chases(j)' = Chases(j)
      /\ UNCHANGED <<claims, told, parsed, parse, rolled, matReturn, costVars>>
  BY <1>3, ClaimsUnchanged DEF InvoicesStand, parseVars, returnVars
<1>5. SupplierTypeOK'
  <2>1. RunTypeOK'
    <3>1. Len(agentRun) \in Nat /\ Len(agentRun') \in Nat /\ RunTypeOK
      BY <1>1, TypesOf
    <3>2. \A w \in Works : work'[w].row \in 0..Len(agentRun')
      BY <3>1 DEF RunTypeOK
    <3>3. QED BY <3>1, <3>2 DEF RunTypeOK
  <2>2. QED BY <1>1, <1>2, <2>1 DEF SupplierTypeOK, Actors, costVars, parseVars, returnVars
<1>6. GuardsAreLinked'
  <2>1. ASSUME NEW h \in Actors \ {g} PROVE GuardIsLinked(h)'
    <3>1. GuardIsLinked(h) /\ guard'[h] = guard[h] /\ h \in Actors
      BY <1>1, <1>2 DEF GuardsAreLinked
    <3>2. guard[h].pc = "finish" => Closable(guard[h].row)'
      <4>1. guard[h].pc = "finish" => h \in Guards
        BY <3>1, FiniteActors, Places DEF GuardIsLinked
      <4>2. QED BY <4>1
    <3>3. guard[h].pc \in {"chase", "commit"} => ~HasReturn(guard[h].job)'
      BY <1>4, <3>1 DEF GuardIsLinked, HasReturn
    <3>4. QED BY <1>3, <1>4, <3>1, <3>2, <3>3, OtherStaysLinked
  <2>2. QED BY <2>1 DEF GuardsAreLinked
<1>7. ReturnsApart' /\ NoReturnNoClaim'
  <2>1. ReturnsApart'
    BY <1>1, <1>2, ReturnsStand
  <2>2. QED BY <1>1, <1>4, <2>1 DEF NoReturnNoClaim, HasReturn
<1>8. \A m \in Mail : Taken(m)' => Taken(m)
  BY <1>2, <1>4, FiniteActors DEF Taken
<1>9. ParsesAreLinked' /\ CostIsRight'
  BY <1>1, <1>4, <1>8, ParsesStand, CostStands
<1>10. ClaimsAreCounted' /\ CreditsHaveMemos'
  BY <1>1, <1>2, <1>4, QuietCounts
<1>11. ReturnsAreChasedOnce'
  <2>1. \A j \in Jobs : rolled'[j] - rolled[j] + Delta(Chasing(guard'[g], j), Chasing(guard[g], j)) = 0
    BY <1>2, <1>3, <1>4 DEF Delta
  <2>2. QED BY <1>1, <1>2, <1>3, <1>4, <2>1, QuietReturns
<1>12. NobodyWorks'
  BY <1>1 DEF NobodyWorks
<1>13. QED BY <1>5, <1>6, <1>7, <1>9, <1>10, <1>11, <1>12 DEF SuppliersInductive

LEMMA BeginNoteKeeps == ASSUME SuppliersInductive, NEW g \in Actors, BeginNote(g) PROVE SuppliersInductive'
<1> DEFINE n == Len(agentRun) + 1
           row == [guard[g] EXCEPT !.pc = "finish", !.row = n]
<1>1. /\ SupplierTypeOK /\ guard[g] \in GuardRow /\ GuardIsLinked(g) /\ g \in Guards /\ g \notin Desks
      /\ guard[g].pc = "begin" /\ guard[g].claim = 0 /\ guard[g].plan \in {"send", "defer"}
      /\ guard[g].job # Nil /\ guard[g].of \in Bills
      /\ agentRun \in Seq(RunStatus)
  BY ActorFacts, Places, TypesOf DEF BeginNote, GuardIsLinked
<1>2. NotesApart /\ Cardinality(LeftOf(agentRun, OwnedByNotes)) <= faults /\ GuardsAreLinked
  BY DEF SuppliersInductive
<1>3. /\ agentRun' \in Seq(RunStatus) /\ Len(agentRun') >= Len(agentRun) /\ n \in Nat /\ n \notin DOMAIN agentRun
      /\ n \in DOMAIN agentRun' /\ agentRun'[n] = "running" /\ DOMAIN agentRun' = DOMAIN agentRun \cup {n}
      /\ \A r \in DOMAIN agentRun : agentRun'[r] = agentRun[r]
  <2>1. agentRun' = Opened
    BY DEF BeginNote
  <2>2. /\ DOMAIN agentRun = 1..Len(agentRun) /\ Len(agentRun) \in Nat
        /\ agentRun' \in Seq(RunStatus) /\ Len(agentRun') = Len(agentRun) + 1
        /\ agentRun'[Len(agentRun) + 1] = "running"
        /\ \A r \in DOMAIN agentRun : agentRun'[r] = agentRun[r]
    BY <1>1, <2>1, RowsWritten
  <2>3. DOMAIN agentRun' = 1..Len(agentRun')
    BY <2>2
  <2>4. QED BY <2>2, <2>3
<1>4. Turns(g, row)
  BY DEF BeginNote, Turns
<1> HIDE DEF n
<1>5. /\ row \in GuardRow /\ row.pc = "finish" /\ row.row = n /\ row.of = guard[g].of
      /\ row.plan = guard[g].plan /\ row.claim = 0 /\ row.tries = guard[g].tries /\ row.job = guard[g].job
  BY <1>1, <1>3 DEF GuardRow, Guarding
<1> HIDE DEF row
<1>6. g \in Actors /\ guard'[g] = row /\ \A h \in Actors \ {g} : guard'[h] = guard[h]
  BY <1>1, <1>4, <1>5, AnyGuard
<1>7. Closable(guard[g].row)'
  BY <1>3, <1>5, <1>6 DEF Closable
<1>8. GuardIsLinked(g)'
  BY <1>1, <1>5, <1>6, <1>7, Places DEF GuardIsLinked
<1>9. \A h \in Guards \ {g} : guard[h].pc = "finish" => /\ guard[h].row \in DOMAIN agentRun
                                                        /\ Closable(guard[h].row)'
  <2>1. ASSUME NEW h \in Guards \ {g}, guard[h].pc = "finish"
        PROVE  guard[h].row \in DOMAIN agentRun /\ Closable(guard[h].row)'
    <3>1. Closable(guard[h].row) /\ guard'[h] = guard[h]
      BY <1>2, <1>6, <2>1, FiniteActors DEF GuardsAreLinked, GuardIsLinked
    <3>2. QED BY <1>3, <3>1 DEF Closable
  <2>2. QED BY <2>1
<1>10. NotesApart'
  <2>1. \A x, y \in Guards : guard'[x].pc = "finish" /\ guard'[y].pc = "finish" /\ guard'[x].row = guard'[y].row
                               => x = y
    BY <1>2, <1>3, <1>5, <1>6, <1>9, FiniteActors DEF NotesApart
  <2>2. QED BY <2>1 DEF NotesApart
<1>11. Cardinality(LeftOf(agentRun, OwnedByNotes))' <= faults
  <2>1. \A h \in Guards : guard[h].pc = "finish" => h # g /\ guard'[h] = guard[h]
    BY <1>1, <1>6, FiniteActors
  <2>2. OwnedByNotes \cup {n} \subseteq OwnedByNotes'
    BY <1>5, <1>6, <1>1, <2>1 DEF OwnedByNotes
  <2>3. LeftOf(agentRun', OwnedByNotes') \subseteq LeftOf(agentRun, OwnedByNotes)
    BY <1>3, <2>2 DEF LeftOf
  <2> DEFINE L == Cardinality(LeftOf(agentRun, OwnedByNotes))
             M == Cardinality(LeftOf(agentRun', OwnedByNotes'))
  <2>4. L \in Nat /\ M \in Nat /\ M <= L
    BY <1>1, <1>3, <2>3, LeftBounds
  <2>5. faults \in Nat
    BY <1>1, TypesOf
  <2>6. M <= faults
    BY <1>2, <2>4, <2>5
  <2>7. QED BY <2>6 DEF LeftOf
<1>12. /\ \A m \in Mail : /\ WillMail(row, m) => WillMail(guard[g], m)
                          /\ WillClaim(row, m) => WillClaim(guard[g], m)
                          /\ WillCredit(row, m) => WillCredit(guard[g], m)
                          /\ MailedBy(row, m) <=> MailedBy(guard[g], m)
       /\ \A j \in Jobs : Chasing(row, j) <=> Chasing(guard[g], j)
  BY <1>1, <1>5 DEF WillMail, WillClaim, WillCredit, MailedBy, Chasing
<1>13. UNCHANGED <<work, faults, invoice, costVars, parseVars, parsed, claims, returnVars, told>>
       /\ row.pc \notin {"chase", "commit"}
  BY <1>5 DEF BeginNote
<1>14. QED BY <1>1, <1>3, <1>4, <1>5, <1>8, <1>9, <1>10, <1>11, <1>12, <1>13, NoteStepKeeps

LEMMA FinishNoteKeeps == ASSUME SuppliersInductive, NEW g \in Actors, FinishNote(g) PROVE SuppliersInductive'
<1> DEFINE n == guard[g].row
           pc == IF guard[g].plan = "send" THEN "record" ELSE "claim"
           row == [guard[g] EXCEPT !.pc = pc, !.row = 0]
<1>1. /\ SupplierTypeOK /\ guard[g] \in GuardRow /\ GuardIsLinked(g) /\ g \in Guards /\ g \notin Desks
      /\ guard[g].pc = "finish" /\ guard[g].claim = 0 /\ guard[g].plan \in {"send", "defer"}
      /\ guard[g].job # Nil /\ guard[g].of \in Bills /\ n \in Nat
      /\ agentRun \in Seq(RunStatus)
  BY ActorFacts, Places, TypesOf, GuardFields DEF FinishNote, GuardIsLinked
<1>2. NotesApart /\ Cardinality(LeftOf(agentRun, OwnedByNotes)) <= faults /\ GuardsAreLinked
  BY DEF SuppliersInductive
<1>3. /\ agentRun' \in Seq(RunStatus) /\ DOMAIN agentRun' = DOMAIN agentRun /\ Len(agentRun') >= Len(agentRun)
      /\ \A r \in DOMAIN agentRun : agentRun'[r] = IF r = n THEN NoteOf(g) ELSE agentRun[r]
      /\ NoteOf(g) \in {"ok", "skipped"}
  <2>1. agentRun' = Closed(n, NoteOf(g)) /\ NoteOf(g) \in {"ok", "skipped"} /\ NoteOf(g) \in RunStatus
    BY DEF FinishNote, NoteOf, RunStatus
  <2> HIDE DEF n
  <2>2. Len(agentRun) \in Nat
    BY <1>1
  <2>3. /\ Closed(n, NoteOf(g)) \in Seq(RunStatus) /\ Len(Closed(n, NoteOf(g))) = Len(agentRun)
        /\ DOMAIN Closed(n, NoteOf(g)) = DOMAIN agentRun
        /\ \A r \in DOMAIN agentRun : Closed(n, NoteOf(g))[r] = IF r = n THEN NoteOf(g) ELSE agentRun[r]
    BY <1>1, <2>1, RowsWritten
  <2>4. Len(agentRun') >= Len(agentRun)
    BY <2>1, <2>2, <2>3
  <2>5. QED BY <2>1, <2>3, <2>4
<1>4. Turns(g, row)
  BY DEF FinishNote, Turns
<1>5. /\ row \in GuardRow /\ row.pc = pc /\ row.of = guard[g].of /\ row.plan = guard[g].plan /\ row.claim = 0
      /\ row.tries = guard[g].tries /\ row.job = guard[g].job
      /\ \/ row.pc = "record" /\ row.plan = "send"
         \/ row.pc = "claim" /\ row.plan = "defer"
  BY <1>1 DEF GuardRow, Guarding
<1> HIDE DEF row
<1>6. g \in Actors /\ guard'[g] = row /\ \A h \in Actors \ {g} : guard'[h] = guard[h]
  BY <1>1, <1>4, <1>5, AnyGuard
<1>7. GuardIsLinked(g)'
  BY <1>1, <1>5, <1>6, Places DEF GuardIsLinked
<1>8. \A h \in Guards \ {g} : guard[h].pc = "finish" => guard[h].row # n /\ Closable(guard[h].row)'
  <2>1. ASSUME NEW h \in Guards \ {g}, guard[h].pc = "finish"
        PROVE  guard[h].row # n /\ Closable(guard[h].row)'
    <3>1. Closable(guard[h].row) /\ guard'[h] = guard[h]
      BY <1>2, <1>6, <2>1, FiniteActors DEF GuardsAreLinked, GuardIsLinked
    <3>2. guard[h].row # n
      BY <1>1, <1>2, <2>1 DEF NotesApart
    <3>3. QED BY <1>3, <3>1, <3>2 DEF Closable
  <2>2. QED BY <2>1
<1>9. NotesApart'
  BY <1>2, <1>5, <1>6, FiniteActors DEF NotesApart
<1>10. Cardinality(LeftOf(agentRun, OwnedByNotes))' <= faults
  <2>1. OwnedByNotes \subseteq OwnedByNotes' \cup {n}
    BY <1>6, FiniteActors DEF OwnedByNotes
  <2>2. LeftOf(agentRun', OwnedByNotes') \subseteq LeftOf(agentRun, OwnedByNotes)
    BY <1>3, <2>1 DEF LeftOf
  <2> DEFINE L == Cardinality(LeftOf(agentRun, OwnedByNotes))
             M == Cardinality(LeftOf(agentRun', OwnedByNotes'))
  <2>3. L \in Nat /\ M \in Nat /\ M <= L
    BY <1>1, <1>3, <2>2, LeftBounds
  <2>4. faults \in Nat
    BY <1>1, TypesOf
  <2>5. M <= faults
    BY <1>2, <2>3, <2>4
  <2>6. QED BY <2>5 DEF LeftOf
<1>11. /\ \A m \in Mail : /\ WillMail(row, m) => WillMail(guard[g], m)
                          /\ WillClaim(row, m) => WillClaim(guard[g], m)
                          /\ WillCredit(row, m) => WillCredit(guard[g], m)
                          /\ MailedBy(row, m) <=> MailedBy(guard[g], m)
       /\ \A j \in Jobs : Chasing(row, j) <=> Chasing(guard[g], j)
  BY <1>1, <1>5 DEF WillMail, WillClaim, WillCredit, MailedBy, Chasing
<1>12. UNCHANGED <<work, faults, invoice, costVars, parseVars, parsed, claims, returnVars, told>>
       /\ row.pc \notin {"chase", "commit"}
  BY <1>5 DEF FinishNote
<1>13. QED BY <1>1, <1>3, <1>4, <1>5, <1>7, <1>8, <1>9, <1>10, <1>11, <1>12, NoteStepKeeps

-----------------------------------------------------------------------------
(* A guard takes an event of the parser.                                   *)

LEMMA TakesOne ==
  ASSUME NEW o \in Nat, NEW a \in Nat, NEW b \in Int, NEW f \in Nat, NEW n \in {0, 1}, NEW e, NEW k \in Nat,
         o + a + f <= 1 + k, b <= a + n, e = f - n
  PROVE  o + b + e <= 1 + k
OBVIOUS

LEMMA StartGuardKeeps ==
  ASSUME SuppliersInductive, NEW g \in Guards, NEW m \in Mail, StartGuard(g, m) PROVE SuppliersInductive'
<1> DEFINE first == IF m \in Memos THEN "open" ELSE "load"
           row == [guard[g] EXCEPT !.pc = first, !.of = m]
<1>1. /\ SupplierTypeOK /\ guard[g] \in GuardRow /\ GuardIsLinked(g) /\ g \notin Desks /\ g \in Actors
      /\ guard[g].pc = "idle" /\ guard[g].of = Nil /\ guard[g].claim = 0 /\ Nil \notin Mail
      /\ Mail = Bills \cup Memos /\ parsed[m] > 0 /\ MaxTries \in Nat \ {0}
  BY FiniteActors, ActorFacts DEF StartGuard, GuardIsLinked
<1>2. /\ first \in {"open", "load"}
      /\ (first = "open" => m \in Memos) /\ (first = "load" => m \in Bills)
  BY <1>1
<1>3. Turns(g, row) /\ parsed' = [parsed EXCEPT ![m] = @ - 1]
  BY DEF StartGuard, Turns
<1> HIDE DEF first
<1>4. /\ row \in GuardRow /\ row.pc = first /\ row.of = m /\ row.claim = 0
       /\ row.tries = guard[g].tries
  BY <1>1, <1>2 DEF GuardRow, Guarding, Recovering
<1> HIDE DEF row
<1>5. guard' \in [Actors -> GuardRow] /\ guard'[g] = row /\ \A h \in Actors \ {g} : guard'[h] = guard[h]
  BY <1>1, <1>2, <1>4, <1>3, AnyGuard
<1>6. /\ guard \in [Actors -> GuardRow] /\ parsed \in [Mail -> Nat] /\ parsed' \in [Mail -> Nat]
      /\ claims \in Seq(Claim) /\ told \in [Mail -> ToldRow] /\ rolled \in [Jobs -> Nat]
      /\ parsed'[m] = parsed[m] - 1 /\ \A x \in Mail \ {m} : parsed'[x] = parsed[x]
  <2>1. parsed \in [Mail -> Nat] /\ parsed[m] \in Nat /\ parsed[m] - 1 \in Nat
    BY <1>1, TypesOf
  <2>2. QED BY <1>1, <1>3, <2>1, TypesOf
<1>7. GuardIsLinked(g)'
  BY <1>1, <1>2, <1>4, <1>5, Places DEF GuardIsLinked
<1>8. /\ UNCHANGED <<runVars, invoice, costVars, parseVars, claims, returnVars, told>>
      /\ InvoicesStand /\ ClaimsGrow /\ \A j \in Jobs : Chases(j)' = Chases(j)
  BY <1>6, ClaimsUnchanged DEF StartGuard, InvoicesStand
<1>9. ClaimsAreCounted'
  <2>1. ASSUME NEW x \in Mail PROVE StartsPay(x)' /\ MailIsClaimed(x)'
    <3> DEFINE a == Cardinality(Mailers(x))
               b == Cardinality(Claimers(x))
               c == Cardinality(Creditors(x))
               d == Cardinality(HasMailed(x))
               o == Cardinality(Overages(x))
               s == Cardinality(Sent(x))
               k == Cardinality(Credits(x))
               t == told[x]
               n == IF x = m THEN 1 ELSE 0
    <3>1. StartsPay(x) /\ MailIsClaimed(x)
      BY DEF SuppliersInductive, ClaimsAreCounted
    <3>2. ~WillMail(guard[g], x) /\ ~WillClaim(guard[g], x) /\ ~WillCredit(guard[g], x)
          /\ ~MailedBy(guard[g], x) /\ ~MailedBy(guard'[g], x)
          /\ (WillMail(guard'[g], x) => x = m) /\ (WillClaim(guard'[g], x) => x = m)
          /\ (WillCredit(guard'[g], x) => x = m)
      BY <1>1, <1>2, <1>4, <1>5 DEF WillMail, WillClaim, WillCredit, MailedBy
    <3>3. /\ a \in Nat /\ b \in Nat /\ c \in Nat /\ d \in Nat
          /\ a' = a + Delta(g \in Guards /\ WillMail(guard'[g], x), g \in Guards /\ WillMail(guard[g], x))
          /\ b' = b + Delta(g \in Guards /\ WillClaim(guard'[g], x), g \in Guards /\ WillClaim(guard[g], x))
          /\ c' = c + Delta(g \in Guards /\ WillCredit(guard'[g], x), g \in Guards /\ WillCredit(guard[g], x))
          /\ d' = d + Delta(g \in Guards /\ MailedBy(guard'[g], x), g \in Guards /\ MailedBy(guard[g], x))
      <4>1. g \in Actors /\ guard \in [Actors -> GuardRow] /\ guard' \in [Actors -> GuardRow]
            /\ \A h \in Actors \ {g} : guard'[h] = guard[h]
        BY <1>1, <1>5, <1>6
      <4>2. /\ a \in Nat /\ b \in Nat /\ c \in Nat
            /\ a' = a + Delta(g \in Guards /\ WillMail(guard'[g], x), g \in Guards /\ WillMail(guard[g], x))
            /\ b' = b + Delta(g \in Guards /\ WillClaim(guard'[g], x), g \in Guards /\ WillClaim(guard[g], x))
            /\ c' = c + Delta(g \in Guards /\ WillCredit(guard'[g], x), g \in Guards /\ WillCredit(guard[g], x))
        BY <4>1, GuardSets
      <4>3. d \in Nat /\ d' = d + Delta(g \in Guards /\ MailedBy(guard'[g], x), g \in Guards /\ MailedBy(guard[g], x))
        BY <4>1, GuardOwes
      <4>4. QED BY <4>2, <4>3
    <3>4. o' = o /\ s' = s /\ k' = k /\ o \in Nat /\ s \in Nat /\ k \in Nat
      BY <1>6, <1>8, ClaimsSame, ClaimCounts
    <3>5. t.mailed \in Nat /\ t.again \in Nat /\ t.unclaimed \in Nat /\ told'[x] = t
      BY <1>6, <1>8, ToldFields
    <3> DEFINE f == ToCome(x)
    <3>6. f' = f - n /\ f \in Nat /\ n \in {0, 1} /\ (n = 0 <=> x # m)
      <4>1. Early(x)' = Early(x) /\ Early(x) \in {0, 1}
        BY <1>8 DEF Early, parseVars
      <4>2. parsed'[x] = parsed[x] - n /\ parsed[x] \in Nat
        BY <1>6
      <4> HIDE DEF n
      <4>3. n \in {0, 1} /\ (n = 0 <=> x # m)
        BY DEF n
      <4>4. ToCome(x)' = parsed'[x] + Early(x)
        BY <4>1 DEF ToCome
      <4>5. QED BY <4>1, <4>2, <4>3, <4>4 DEF ToCome
    <3>7. /\ t.mailed + a + f <= 1 + t.again /\ o + b + f <= 1 + t.again /\ k + c + f <= 1 + t.again
          /\ t.mailed = s + t.unclaimed + d
      BY <3>1 DEF StartsPay, MailIsClaimed
    <3> HIDE DEF a, b, c, d, o, s, k, t, n, f
    <3>8. /\ a' \in Int /\ b' \in Int /\ c' \in Int /\ a' <= a + n /\ b' <= b + n /\ c' <= c + n /\ d' = d
      BY <3>2, <3>3, <3>6 DEF Delta
    <3>9. /\ t.mailed + a' + f' <= 1 + t.again /\ o + b' + f' <= 1 + t.again /\ k + c' + f' <= 1 + t.again
      <4>1. t.mailed + a' + f' <= 1 + t.again
        BY <3>3, <3>5, <3>6, <3>7, <3>8, TakesOne
      <4>2. o + b' + f' <= 1 + t.again
        BY <3>3, <3>4, <3>5, <3>6, <3>7, <3>8, TakesOne
      <4>3. k + c' + f' <= 1 + t.again
        BY <3>3, <3>4, <3>5, <3>6, <3>7, <3>8, TakesOne
      <4>4. QED BY <4>1, <4>2, <4>3
    <3>10. QED BY <3>4, <3>5, <3>7, <3>8, <3>9 DEF StartsPay, MailIsClaimed, a, b, c, d, o, s, k, t, f
  <2>2. QED BY <2>1 DEF ClaimsAreCounted
<1>10. CreditsHaveMemos'
  BY <1>8 DEF SuppliersInductive, CreditsHaveMemos
<1>11. ReturnsAreChasedOnce'
  <2>1. ReturnsAreChasedOnce /\ UNCHANGED <<rolled, matReturn>>
    BY <1>8 DEF SuppliersInductive, returnVars
  <2>2. \A j \in Jobs : rolled'[j] - rolled[j] + Delta(Chasing(guard'[g], j), Chasing(guard[g], j)) = 0
    BY <1>1, <1>2, <1>4, <1>5, <1>6, <2>1 DEF Delta, Chasing
  <2>3. QED BY <1>1, <1>5, <1>6, <1>8, <2>1, <2>2, QuietReturns
<1>12. \A x \in Mail : Taken(x)' => Taken(x)
  <2>1. ASSUME NEW x \in Mail, Taken(x)' PROVE Taken(x)
    <3>1. CASE x = m
      BY <1>1, <3>1 DEF Taken
    <3>2. CASE x # m
      BY <1>2, <1>4, <1>5, <1>6, <2>1, <3>2, FiniteActors DEF Taken
    <3>3. QED BY <3>1, <3>2
  <2>2. QED BY <2>1
<1>13. /\ UNCHANGED <<agentRun, work, costVars, parseVars, matReturn>> /\ leftover' \in [Jobs -> BOOLEAN]
       /\ faults' \in 0..MaxFaults /\ faults' >= faults
       /\ invoice' \in [Mail -> InvoiceRow] /\ claims' \in Seq(Claim)
       /\ told' \in [Mail -> ToldRow] /\ rolled' \in [Jobs -> Nat]
  BY <1>1, <1>8, TypesOf DEF runVars, returnVars, SupplierTypeOK
<1>14. row.pc # "finish" /\ row.pc \notin {"chase", "commit"} /\ guard[g].pc # "finish"
  BY <1>1, <1>2, <1>4
<1>15. QED BY <1>1, <1>2, <1>4, <1>3, <1>6, <1>7, <1>8, <1>9, <1>10, <1>11, <1>12, <1>13, <1>14, GuardStepKeeps

-----------------------------------------------------------------------------
(* The steps in which no actor moves.                                      *)

\* An invoice's starts to come are paid for by what is told of it, and nothing is mailed.
TellsNoMail(m) ==
    /\ told'[m].mailed = told[m].mailed /\ told'[m].unclaimed = told[m].unclaimed
    /\ ToCome(m)' <= ToCome(m) + told'[m].again - told[m].again

LEMMA StartsRest ==
  ASSUME SupplierTypeOK, ClaimsAreCounted, UNCHANGED <<guard, claims>>, told' \in [Mail -> ToldRow],
         parsed' \in [Mail -> Nat], \A m \in Mail : TellsNoMail(m)
  PROVE  ClaimsAreCounted'
<1>1. guard \in [Actors -> GuardRow] /\ claims \in Seq(Claim) /\ told \in [Mail -> ToldRow]
      /\ parsed \in [Mail -> Nat]
  BY DEF SupplierTypeOK, Actors
<1>2. ASSUME NEW m \in Mail PROVE StartsPay(m)' /\ MailIsClaimed(m)'
  <2> DEFINE a == Cardinality(Mailers(m))
             b == Cardinality(Claimers(m))
             c == Cardinality(Creditors(m))
             d == Cardinality(HasMailed(m))
             o == Cardinality(Overages(m))
             s == Cardinality(Sent(m))
             k == Cardinality(Credits(m))
             t == told[m]
             u == told'[m]
             f == ToCome(m)
  <2>1. StartsPay(m) /\ MailIsClaimed(m) /\ TellsNoMail(m)
    BY DEF ClaimsAreCounted
  <2>2. a' = a /\ b' = b /\ c' = c /\ d' = d
    BY DEF Mailers, Claimers, Creditors, HasMailed, Mailed, WillMail, WillClaim, WillCredit
  <2>3. a \in Nat /\ b \in Nat /\ c \in Nat /\ d \in Nat
    <3>1. IsFiniteSet(Guards)
      BY FiniteActors
    <3>2. Mailers(m) \subseteq Guards /\ Claimers(m) \subseteq Guards /\ Creditors(m) \subseteq Guards
          /\ HasMailed(m) \subseteq Guards
      BY DEF Mailers, Claimers, Creditors, HasMailed
    <3>3. IsFiniteSet(Mailers(m)) /\ IsFiniteSet(Claimers(m)) /\ IsFiniteSet(Creditors(m))
          /\ IsFiniteSet(HasMailed(m))
      BY <3>1, <3>2, FS_Subset
    <3>4. QED BY <3>3, FS_CardinalityType
  <2>4. o' = o /\ s' = s /\ k' = k /\ o \in Nat /\ s \in Nat /\ k \in Nat
    BY <1>1, ClaimsSame, ClaimCounts
  <2>5. t.mailed \in Nat /\ t.again \in Nat /\ t.unclaimed \in Nat /\ u.again \in Nat
    BY <1>1, ToldFields DEF ToldRow
  <2>6. f \in Nat /\ f' \in Nat
    BY <1>1 DEF ToCome, Early
  <2>7. /\ t.mailed + a + f <= 1 + t.again /\ o + b + f <= 1 + t.again /\ k + c + f <= 1 + t.again
        /\ t.mailed = s + t.unclaimed + d
    BY <2>1 DEF StartsPay, MailIsClaimed
  <2>8. u.mailed = t.mailed /\ u.unclaimed = t.unclaimed /\ f' <= f + u.again - t.again
    BY <2>1 DEF TellsNoMail
  <2> HIDE DEF a, b, c, d, o, s, k, t, u, f
  <2>9. /\ t.mailed + a + f' <= 1 + u.again /\ o + b + f' <= 1 + u.again /\ k + c + f' <= 1 + u.again
    BY <2>3, <2>4, <2>5, <2>6, <2>7, <2>8
  <2>10. QED BY <2>2, <2>4, <2>7, <2>8, <2>9 DEF StartsPay, MailIsClaimed, a, b, c, d, o, s, k, t, u, f
<1>3. QED BY <1>2 DEF ClaimsAreCounted

LEMMA RestKeeps ==
  ASSUME SuppliersInductive, UNCHANGED <<agentRun, work, guard, claims, returnVars>>,
         faults' \in 0..MaxFaults, faults' >= faults,
         invoice' \in [Mail -> InvoiceRow], order' \in [Jobs -> {"draft", "ordered", "delivered"}],
         cost' \in [Jobs -> Nat], taken' \subseteq Mail, parse' \in [Mail -> ParseRow],
         parsed' \in [Mail -> Nat], told' \in [Mail -> ToldRow], stale' \subseteq Jobs,
         \A m \in Mail : TellsNoMail(m), ParsesAreLinked', CostIsRight'
  PROVE  SuppliersInductive'
<1>1. /\ SupplierTypeOK /\ GuardsAreLinked /\ NotesApart /\ ReturnsApart /\ NoReturnNoClaim
      /\ ClaimsAreCounted /\ CreditsHaveMemos /\ ReturnsAreChasedOnce
      /\ NobodyWorks /\ Cardinality(LeftOf(agentRun, OwnedByNotes)) <= faults
  BY DEF SuppliersInductive
<1>2. UNCHANGED <<leftover, matReturn, rolled>>
  BY DEF returnVars
<1>3. SupplierTypeOK'
  <2>1. RunTypeOK'
    BY <1>1 DEF SupplierTypeOK, RunTypeOK
  <2>2. QED BY <1>1, <1>2, <2>1 DEF SupplierTypeOK
<1>4. GuardsAreLinked'
  BY <1>1, <1>2 DEF GuardsAreLinked, GuardIsLinked, Closable, Chases, HasReturn
<1>5. NotesApart' /\ ReturnsApart' /\ NoReturnNoClaim' /\ NobodyWorks'
  BY <1>1, <1>2 DEF NotesApart, ReturnsApart, InReturn, NoReturnNoClaim, HasReturn, NobodyWorks
<1>6. CreditsHaveMemos' /\ ReturnsAreChasedOnce'
  <2>1. CreditsHaveMemos'
    BY <1>1 DEF CreditsHaveMemos
  <2>2. \A j : Chases(j)' = Chases(j) /\ Chasers(j)' = Chasers(j)
    BY <1>2 DEF Chases, Chasers, InReturn
  <2>3. \A j \in Jobs : ChaseIsCounted(j)'
    BY <1>1, <1>2, <2>2, ChasesAreCounted DEF ChaseIsCounted
  <2>4. QED BY <2>1, <2>3, ChasesAreCountedNext
<1>7. Cardinality(LeftOf(agentRun, OwnedByNotes))' <= faults'
  <2> DEFINE L == Cardinality(LeftOf(agentRun, OwnedByNotes))
  <2>1. L' = L
    BY DEF LeftOf, OwnedByNotes
  <2>2. L \in Nat /\ faults \in Nat /\ faults' \in Nat
    <3>1. agentRun \in Seq(RunStatus) /\ faults \in Nat
      BY <1>1, TypesOf
    <3>2. L \in Nat
      BY <3>1, LeftBounds
    <3>3. QED BY <3>1, <3>2, RunLimits
  <2> HIDE DEF L
  <2>3. L' <= faults'
    BY <1>1, <2>1, <2>2 DEF L
  <2>4. QED BY <2>3 DEF L
<1>8. ClaimsAreCounted'
  BY <1>1, StartsRest
<1>9. QED BY <1>1, <1>3, <1>4, <1>5, <1>6, <1>7, <1>8 DEF SuppliersInductive

\* A run of the parser that at most is overtaken.
ParseStays(x) ==
    /\ parse'[x].pc = parse[x].pc /\ parse'[x].job = parse[x].job /\ parse'[x].tries = parse[x].tries
    /\ parse'[x].actuals = parse[x].actuals /\ parse'[x].estimate = parse[x].estimate
    /\ ~parse'[x].late => ~parse[x].late

LEMMA LinkStays ==
  ASSUME NEW x \in Mail, ParseStays(x), ParseIsLinked(x), Taken(x)' => Taken(x),
         invoice'[x].job = invoice[x].job, Counts(invoice[x].status) => Counts(invoice'[x].status)
  PROVE  ParseIsLinked(x)'
<1>1. Counts(invoice[x].status) => Counts(invoice[x].status)'
  BY DEF Counts
<1> HIDE DEF Taken
<1>2. QED BY <1>1 DEF ParseIsLinked, ParseStays

LEMMA SumsStay ==
  ASSUME NEW x \in Mail, ParseStays(x), SumsAreCurrent(x),
         NEW j, j = parse[x].job,
         ~parse'[x].late /\ parse[x].pc \in {"estimate", "write"} => Actuals(j)' = Actuals(j),
         ~parse'[x].late /\ parse[x].pc = "write" => Estimated(j)' = Estimated(j)
  PROVE  SumsAreCurrent(x)'
<1>1. parse'[x].job = j
  BY DEF ParseStays
<1>2. Actuals(parse[x].job)' = Actuals(j)' /\ Estimated(parse[x].job)' = Estimated(j)'
  BY <1>1 DEF Actuals, Estimated, IsOpen
<1>3. QED BY <1>2 DEF SumsAreCurrent, ParseStays

LEMMA OvertakenRows ==
  ASSUME parse \in [Mail -> ParseRow], NEW jobs, NEW read
  PROVE  /\ Overtaken(parse, jobs, read) \in [Mail -> ParseRow]
         /\ \A x \in Mail : LET o == Overtaken(parse, jobs, read)[x] IN
               /\ o.pc = parse[x].pc /\ o.job = parse[x].job /\ o.tries = parse[x].tries
               /\ o.actuals = parse[x].actuals /\ o.estimate = parse[x].estimate
               /\ ~o.late => ~parse[x].late
               /\ parse[x].job \in jobs /\ parse[x].pc \in read => o.late
<1>1. ASSUME NEW x \in Mail
      PROVE  LET o == Overtaken(parse, jobs, read)[x] IN
               /\ o \in ParseRow
               /\ o.pc = parse[x].pc /\ o.job = parse[x].job /\ o.tries = parse[x].tries
               /\ o.actuals = parse[x].actuals /\ o.estimate = parse[x].estimate
               /\ ~o.late => ~parse[x].late
               /\ parse[x].job \in jobs /\ parse[x].pc \in read => o.late
  <2>1. Overtaken(parse, jobs, read)[x]
          = IF parse[x].job \in jobs /\ parse[x].pc \in read THEN [parse[x] EXCEPT !.late = TRUE] ELSE parse[x]
    BY DEF Overtaken
  <2>2. parse[x] \in ParseRow
    OBVIOUS
  <2>3. CASE parse[x].job \in jobs /\ parse[x].pc \in read
    BY <2>1, <2>2, <2>3 DEF ParseRow
  <2>4. CASE ~(parse[x].job \in jobs /\ parse[x].pc \in read)
    BY <2>1, <2>2, <2>4
  <2>5. QED BY <2>3, <2>4
<1>2. Overtaken(parse, jobs, read) = [x \in Mail |-> Overtaken(parse, jobs, read)[x]]
  BY DEF Overtaken
<1>3. QED BY <1>1, <1>2

-----------------------------------------------------------------------------
(* The steps of the parser.                                                *)

LEMMA ParseWritten ==
  ASSUME parse \in [Mail -> ParseRow], NEW m \in Mail, NEW row \in ParseRow, parse' = [parse EXCEPT ![m] = row]
  PROVE  /\ parse' \in [Mail -> ParseRow] /\ parse'[m] = row
         /\ \A x \in Mail \ {m} : parse'[x] = parse[x] /\ ParseStays(x)
<1>1. parse' \in [Mail -> ParseRow] /\ parse'[m] = row /\ \A x \in Mail \ {m} : parse'[x] = parse[x]
  OBVIOUS
<1>2. QED BY <1>1 DEF ParseStays

ParseFields(r) ==
    /\ r.pc \in Parsing \cup {"idle", "emit", "sent", "done", "failed"} /\ r.job \in Jobs \cup {Nil}
    /\ r.actuals \in Nat /\ r.estimate \in Nat /\ r.tries \in 0..MaxTries /\ r.late \in BOOLEAN

LEMMA ParseFacts ==
  ASSUME SuppliersInductive, NEW m \in Mail
  PROVE  /\ SupplierTypeOK /\ parse \in [Mail -> ParseRow] /\ parse[m] \in ParseRow /\ ParseFields(parse[m])
         /\ ParseIsLinked(m) /\ SumsAreCurrent(m) /\ CostIsRight /\ ParsesAreLinked
         /\ invoice \in [Mail -> InvoiceRow] /\ told \in [Mail -> ToldRow] /\ parsed \in [Mail -> Nat]
         /\ cost \in [Jobs -> Nat] /\ faults \in Nat /\ faults \in 0..MaxFaults /\ taken \subseteq Mail
         /\ stale \subseteq Jobs /\ order \in [Jobs -> {"draft", "ordered", "delivered"}]
         /\ Nil \notin Jobs /\ MaxTries \in Nat \ {0}
<1>1. SupplierTypeOK /\ ParseIsLinked(m) /\ SumsAreCurrent(m) /\ CostIsRight /\ ParsesAreLinked
  BY DEF SuppliersInductive, ParsesAreLinked
<1>2. parse \in [Mail -> ParseRow] /\ parse[m] \in ParseRow
  BY <1>1 DEF SupplierTypeOK
<1>3. ParseFields(parse[m])
  BY <1>2 DEF ParseRow, ParseFields
<1>4. QED BY <1>1, <1>2, <1>3, TypesOf, RunLimits, SupplierAssumption DEF SupplierTypeOK

LEMMA ParsePlaces ==
  /\ Writing = {"actuals", "estimate", "write"}
  /\ Parsing = {"match", "save", "record", "actuals", "estimate", "write"}
BY DEF Parsing, Writing

\* A run of the parser moves, and what it writes is read by nobody but the guards to come.
LEMMA ParseMoves ==
  ASSUME SuppliersInductive, NEW m \in Mail, NEW row \in ParseRow, parse' = [parse EXCEPT ![m] = row],
         UNCHANGED <<runVars, invoice, costVars, taken, guard, claims, returnVars, told>>,
         parsed' \in [Mail -> Nat], \A x \in Mail \ {m} : parsed'[x] = parsed[x], ToCome(m)' <= ToCome(m),
         parse[m].pc \in Writing => row.pc \in Writing /\ row.job = parse[m].job,
         ParseIsLinked(m)', SumsAreCurrent(m)'
  PROVE  SuppliersInductive'
<1>1. /\ SupplierTypeOK /\ parse \in [Mail -> ParseRow] /\ CostIsRight /\ ParsesAreLinked
      /\ invoice \in [Mail -> InvoiceRow] /\ told \in [Mail -> ToldRow] /\ parsed \in [Mail -> Nat]
      /\ cost \in [Jobs -> Nat] /\ faults \in 0..MaxFaults /\ faults \in Nat /\ taken \subseteq Mail
      /\ stale \subseteq Jobs /\ order \in [Jobs -> {"draft", "ordered", "delivered"}]
  BY ParseFacts
<1>2. /\ parse' \in [Mail -> ParseRow] /\ parse'[m] = row
      /\ \A x \in Mail \ {m} : parse'[x] = parse[x] /\ ParseStays(x)
  BY <1>1, ParseWritten
<1>3. InvoicesStand /\ UNCHANGED <<order, cost, stale>>
  BY DEF InvoicesStand, costVars
<1>4. \A j : Actuals(j)' = Actuals(j) /\ Estimated(j)' = Estimated(j)
  BY <1>3, AllActualsStand DEF Estimated, IsOpen
<1>5. ParsesAreLinked'
  <2>1. ASSUME NEW x \in Mail \ {m} PROVE ParseIsLinked(x)' /\ SumsAreCurrent(x)'
    <3>1. ParseIsLinked(x) /\ SumsAreCurrent(x) /\ ParseStays(x)
      BY <1>1, <1>2 DEF ParsesAreLinked
    <3>2. Taken(x)' => Taken(x)
      BY DEF Taken
    <3>3. invoice'[x].job = invoice[x].job /\ (Counts(invoice[x].status) => Counts(invoice'[x].status))
      BY <1>3 DEF InvoicesStand
    <3>4. ParseIsLinked(x)'
      BY <3>1, <3>2, <3>3, LinkStays
    <3>5. SumsAreCurrent(x)'
      BY <1>4, <3>1, SumsStay
    <3>6. QED BY <3>4, <3>5
  <2>2. QED BY <2>1 DEF ParsesAreLinked
<1>6. CostIsRight'
  <2>1. ASSUME NEW j \in Jobs \ stale, \A x \in Mail : parse'[x].job = j => parse'[x].pc \notin Writing
        PROVE  cost[j] = CostOf(j)
    <3>1. \A x \in Mail : parse[x].job = j => parse[x].pc \notin Writing
      BY <1>2, <2>1
    <3>2. QED BY <1>1, <3>1 DEF CostIsRight
  <2>2. \A j : CostOf(j)' = CostOf(j)
    <3>1. \A j : Billed(j)' = Billed(j)
      BY <1>3 DEF Billed
    <3>2. QED BY <1>3, <3>1 DEF CostOf, IsOpen
  <2>3. QED BY <1>3, <2>1, <2>2 DEF CostIsRight
<1>7. \A x \in Mail : TellsNoMail(x)
  <2>1. ASSUME NEW x \in Mail PROVE TellsNoMail(x)
    <3>1. ToCome(x)' <= ToCome(x) /\ ToCome(x) \in Nat /\ ToCome(x)' \in Nat
      <4>1. ToCome(x) \in Nat /\ ToCome(x)' \in Nat
        BY <1>1 DEF ToCome, Early
      <4>2. x # m => ToCome(x)' = ToCome(x)
        BY <1>2 DEF ToCome, Early
      <4>3. QED BY <4>1, <4>2
    <3>2. told[x].again \in Nat /\ told' = told
      BY <1>1, ToldFields
    <3> DEFINE f == ToCome(x)
               n == told[x].again
    <3>3. f' <= f + n - n
      <4> HIDE DEF f, n
      <4>1. f' <= f /\ f \in Nat /\ f' \in Nat /\ n \in Nat
        BY <3>1, <3>2 DEF f, n
      <4>2. QED BY <4>1
    <3>4. QED BY <3>2, <3>3 DEF TellsNoMail
  <2>2. QED BY <2>1
<1>8. /\ UNCHANGED <<agentRun, work, guard, claims, returnVars>>
      /\ faults' \in 0..MaxFaults /\ faults' >= faults
      /\ invoice' \in [Mail -> InvoiceRow] /\ order' \in [Jobs -> {"draft", "ordered", "delivered"}]
      /\ cost' \in [Jobs -> Nat] /\ taken' \subseteq Mail
      /\ told' \in [Mail -> ToldRow] /\ stale' \subseteq Jobs
  BY <1>1, <1>3 DEF runVars
<1>9. QED BY <1>2, <1>5, <1>6, <1>7, <1>8, RestKeeps

\* Nothing was announced yet, nor is it now.
LEMMA NothingToCome ==
  ASSUME NEW m, Early(m)' <= Early(m), parsed' = parsed, parsed[m] \in Nat
  PROVE  ToCome(m)' <= ToCome(m)
<1>1. Early(m) \in {0, 1} /\ Early(m)' \in {0, 1}
  BY DEF Early
<1> DEFINE e == Early(m)
<1>2. e \in Nat /\ e' \in Nat /\ e' <= e
  BY <1>1
<1> HIDE DEF e
<1>3. parsed[m] + e' <= parsed[m] + e
  BY <1>2
<1>4. QED BY <1>3 DEF ToCome, e

\* What a step says of the rest of the suppliers' side.
ParseAlone == UNCHANGED <<runVars, invoice, costVars, taken, guard, claims, returnVars, told>>

LEMMA StartParseKeeps == ASSUME SuppliersInductive, NEW m \in Mail, StartParse(m) PROVE SuppliersInductive'
<1> DEFINE row == [parse[m] EXCEPT !.pc = "match"]
<1>1. /\ parse[m] \in ParseRow /\ ParseFields(parse[m]) /\ parse[m].pc = "idle" /\ ParseIsLinked(m)
      /\ parse \in [Mail -> ParseRow] /\ parsed \in [Mail -> Nat]
  BY ParseFacts DEF StartParse
<1>2. /\ row \in ParseRow /\ row.pc = "match" /\ row.tries = parse[m].tries
  BY <1>1 DEF ParseRow, Parsing
<1>3. parse' = [parse EXCEPT ![m] = row]
  BY DEF StartParse
<1> HIDE DEF row
<1>4. parse'[m] = row /\ UNCHANGED <<parsed, guard>> /\ ParseAlone
  BY <1>1, <1>2, <1>3, ParseWritten DEF StartParse, ParseAlone
<1>5. ~Taken(m)
  BY <1>1 DEF ParseIsLinked
<1>6. ~Taken(m)'
  BY <1>4, <1>5 DEF Taken
<1>7. ParseIsLinked(m)' /\ SumsAreCurrent(m)'
  BY <1>1, <1>2, <1>4, <1>6, ParsePlaces DEF ParseIsLinked, SumsAreCurrent
<1>8. ToCome(m)' <= ToCome(m)
  <2>1. Early(m)' <= Early(m)
    BY <1>1, <1>2, <1>4 DEF Early
  <2>2. QED BY <1>1, <1>4, <2>1, NothingToCome
<1>9. QED BY <1>1, <1>2, <1>3, <1>4, <1>7, <1>8, ParsePlaces, ParseMoves DEF ParseAlone

TheJob == IF Cardinality(OpenJobs) = 1 THEN CHOOSE j \in OpenJobs : TRUE ELSE Nil

LEMMA MatchJobKeeps == ASSUME SuppliersInductive, NEW m \in Mail, MatchJob(m) PROVE SuppliersInductive'
<1> DEFINE row == [parse[m] EXCEPT !.pc = "save", !.late = FALSE, !.job = TheJob]
<1>1. /\ parse[m] \in ParseRow /\ ParseFields(parse[m]) /\ parse[m].pc = "match" /\ ParseIsLinked(m)
      /\ parse \in [Mail -> ParseRow] /\ parsed \in [Mail -> Nat]
  BY ParseFacts DEF MatchJob
<1>2. TheJob \in Jobs \cup {Nil}
  <2>1. ASSUME Cardinality(OpenJobs) = 1 PROVE OpenJobs # {}
    <3>1. Cardinality({}) = 0
      BY FS_EmptySet
    <3>2. QED BY <2>1, <3>1
  <2>2. OpenJobs \subseteq Jobs
    BY DEF OpenJobs
  <2>3. QED BY <2>1, <2>2 DEF TheJob
<1>3. parse' = [parse EXCEPT ![m] = row]
  <2>1. parse' = [parse EXCEPT ![m].pc = "save", ![m].late = FALSE, ![m].job = TheJob]
    BY DEF MatchJob, TheJob
  <2>2. QED BY <2>1
<1>4. /\ row \in ParseRow /\ row.pc = "save" /\ row.tries = parse[m].tries
  BY <1>1, <1>2 DEF ParseRow, Parsing
<1> HIDE DEF row
<1>5. parse'[m] = row /\ UNCHANGED <<parsed, guard>> /\ ParseAlone
  BY <1>1, <1>4, <1>3, ParseWritten DEF MatchJob, ParseAlone
<1>6. ~Taken(m)'
  BY <1>1, <1>5, ParsePlaces DEF ParseIsLinked, Taken
<1>7. ParseIsLinked(m)' /\ SumsAreCurrent(m)'
  BY <1>1, <1>4, <1>5, <1>6, ParsePlaces DEF ParseIsLinked, SumsAreCurrent
<1>8. ToCome(m)' <= ToCome(m)
  <2>1. Early(m)' <= Early(m)
    BY <1>1, <1>4, <1>5 DEF Early
  <2>2. QED BY <1>1, <1>5, <2>1, NothingToCome
<1>9. QED BY <1>1, <1>3, <1>4, <1>5, <1>7, <1>8, ParsePlaces, ParseMoves DEF ParseAlone

LEMMA SumActualsKeeps == ASSUME SuppliersInductive, NEW m \in Mail, SumActuals(m) PROVE SuppliersInductive'
<1> DEFINE n == Actuals(parse[m].job)
           row == [parse[m] EXCEPT !.pc = "estimate", !.actuals = n]
<1>1. /\ parse[m] \in ParseRow /\ ParseFields(parse[m]) /\ parse[m].pc = "actuals" /\ ParseIsLinked(m)
      /\ parse \in [Mail -> ParseRow] /\ parsed \in [Mail -> Nat] /\ n \in Nat
  BY ParseFacts, BilledIsActual DEF SumActuals
<1>2. parse' = [parse EXCEPT ![m] = row]
  BY DEF SumActuals
<1> HIDE DEF n
<1>3. /\ row \in ParseRow /\ row.pc = "estimate" /\ row.tries = parse[m].tries /\ row.job = parse[m].job
      /\ row.actuals = n
  BY <1>1 DEF ParseRow, Parsing, Writing
<1> HIDE DEF row
<1>4. parse'[m] = row /\ UNCHANGED <<parsed, guard, invoice, order>> /\ ParseAlone
  BY <1>1, <1>2, <1>3, ParseWritten DEF SumActuals, ParseAlone, costVars
<1>5. ~Taken(m)'
  BY <1>1, <1>4, ParsePlaces DEF ParseIsLinked, Taken
<1>6. ParseIsLinked(m)'
  BY <1>1, <1>3, <1>4, <1>5, ParsePlaces DEF ParseIsLinked, Counts
<1>7. SumsAreCurrent(m)'
  <2>1. \A i : Actuals(i)' = Actuals(i)
    BY <1>4, AllActualsStand DEF InvoicesStand
  <2>2. Actuals(parse[m].job)' = Actuals(parse'[m].job)
    BY <1>4 DEF Actuals
  <2>3. parse'[m].actuals = Actuals(parse'[m].job) /\ parse'[m].pc = "estimate"
    BY <1>3, <1>4 DEF n
  <2>4. QED BY <2>2, <2>3 DEF SumsAreCurrent
<1>8. ToCome(m)' <= ToCome(m)
  <2>1. Early(m)' <= Early(m)
    BY <1>1, <1>3, <1>4 DEF Early
  <2>2. QED BY <1>1, <1>4, <2>1, NothingToCome
<1>9. QED BY <1>1, <1>2, <1>3, <1>4, <1>6, <1>7, <1>8, ParsePlaces, ParseMoves DEF ParseAlone

LEMMA SumOrdersKeeps == ASSUME SuppliersInductive, NEW m \in Mail, SumOrders(m) PROVE SuppliersInductive'
<1> DEFINE n == Estimated(parse[m].job)
           row == [parse[m] EXCEPT !.pc = "write", !.estimate = n]
<1>1. /\ parse[m] \in ParseRow /\ ParseFields(parse[m]) /\ parse[m].pc = "estimate" /\ ParseIsLinked(m)
      /\ parse \in [Mail -> ParseRow] /\ parsed \in [Mail -> Nat] /\ n \in Nat /\ SumsAreCurrent(m)
  BY ParseFacts, BilledIsActual DEF SumOrders
<1>2. parse' = [parse EXCEPT ![m] = row]
  BY DEF SumOrders
<1> HIDE DEF n
<1>3. /\ row \in ParseRow /\ row.pc = "write" /\ row.tries = parse[m].tries /\ row.job = parse[m].job
      /\ row.estimate = n /\ row.actuals = parse[m].actuals /\ row.late = parse[m].late
  BY <1>1 DEF ParseRow, Parsing, Writing
<1> HIDE DEF row
<1>4. parse'[m] = row /\ UNCHANGED <<parsed, guard, invoice, order>> /\ ParseAlone
  BY <1>1, <1>2, <1>3, ParseWritten DEF SumOrders, ParseAlone, costVars
<1>5. ~Taken(m)'
  BY <1>1, <1>4, ParsePlaces DEF ParseIsLinked, Taken
<1>6. ParseIsLinked(m)'
  BY <1>1, <1>3, <1>4, <1>5, ParsePlaces DEF ParseIsLinked, Counts
<1>7. SumsAreCurrent(m)'
  <2>1. Actuals(parse[m].job)' = Actuals(parse'[m].job) /\ Estimated(parse[m].job)' = Estimated(parse'[m].job)
    BY <1>4 DEF Actuals, Estimated, IsOpen
  <2>2. parse'[m].estimate = Estimated(parse'[m].job) /\ parse'[m].pc = "write"
    BY <1>3, <1>4 DEF n
  <2>3. ~parse'[m].late => parse'[m].actuals = Actuals(parse'[m].job)
    BY <1>1, <1>3, <1>4 DEF SumsAreCurrent
  <2>4. QED BY <2>1, <2>2, <2>3 DEF SumsAreCurrent
<1>8. ToCome(m)' <= ToCome(m)
  <2>1. Early(m)' <= Early(m)
    BY <1>1, <1>3, <1>4 DEF Early
  <2>2. QED BY <1>1, <1>4, <2>1, NothingToCome
<1>9. QED BY <1>1, <1>2, <1>3, <1>4, <1>6, <1>7, <1>8, ParsePlaces, ParseMoves DEF ParseAlone

LEMMA RecordParsedKeeps == ASSUME SuppliersInductive, NEW m \in Mail, RecordParsed(m) PROVE SuppliersInductive'
<1> DEFINE row == [parse[m] EXCEPT !.pc = "emit", !.tries = 0]
<1>1. /\ parse[m] \in ParseRow /\ ParseFields(parse[m]) /\ parse[m].pc = "record" /\ ParseIsLinked(m)
      /\ parse \in [Mail -> ParseRow] /\ parsed \in [Mail -> Nat] /\ MaxTries \in Nat \ {0}
  BY ParseFacts DEF RecordParsed
<1>2. parse' = [parse EXCEPT ![m] = row]
  BY DEF RecordParsed
<1>3. /\ row \in ParseRow /\ row.pc = "emit" /\ row.tries = 0
  <2>1. 0 \in 0..MaxTries
    BY <1>1
  <2>2. QED BY <1>1, <2>1 DEF ParseRow
<1> HIDE DEF row
<1>4. parse'[m] = row /\ UNCHANGED <<parsed, guard, invoice>> /\ ParseAlone
  BY <1>1, <1>2, <1>3, ParseWritten DEF RecordParsed, ParseAlone
<1>5. Counts(invoice[m].status) /\ Counts(invoice[m].status)'
  BY <1>1, <1>4 DEF ParseIsLinked, Counts
<1>6. ParseIsLinked(m)' /\ SumsAreCurrent(m)'
  BY <1>1, <1>3, <1>4, <1>5, ParsePlaces DEF ParseIsLinked, SumsAreCurrent
<1>7. ToCome(m)' <= ToCome(m)
  <2>1. Early(m)' <= Early(m)
    BY <1>1, <1>3, <1>4 DEF Early
  <2>2. QED BY <1>1, <1>4, <2>1, NothingToCome
<1>8. QED BY <1>1, <1>2, <1>3, <1>4, <1>6, <1>7, ParsePlaces, ParseMoves DEF ParseAlone

LEMMA EmitParsedKeeps == ASSUME SuppliersInductive, NEW m \in Mail, EmitParsed(m) PROVE SuppliersInductive'
<1> DEFINE row == [parse[m] EXCEPT !.pc = "sent"]
<1>1. /\ parse[m] \in ParseRow /\ ParseFields(parse[m]) /\ parse[m].pc = "emit" /\ ParseIsLinked(m)
      /\ parse \in [Mail -> ParseRow] /\ parsed \in [Mail -> Nat] /\ parsed[m] \in Nat
  BY ParseFacts DEF EmitParsed
<1>2. parse' = [parse EXCEPT ![m] = row]
  BY DEF EmitParsed
<1>3. /\ row \in ParseRow /\ row.pc = "sent" /\ row.tries = parse[m].tries
  BY <1>1 DEF ParseRow
<1> HIDE DEF row
<1>4. /\ parse'[m] = row /\ UNCHANGED <<guard, invoice>> /\ ParseAlone
      /\ parsed' \in [Mail -> Nat] /\ parsed'[m] = parsed[m] + 1
      /\ \A x \in Mail \ {m} : parsed'[x] = parsed[x]
  <2>1. parsed' = [parsed EXCEPT ![m] = @ + 1] /\ UNCHANGED <<guard, invoice>> /\ ParseAlone
    BY DEF EmitParsed, ParseAlone
  <2>2. parsed' \in [Mail -> Nat] /\ parsed'[m] = parsed[m] + 1 /\ \A x \in Mail \ {m} : parsed'[x] = parsed[x]
    BY <1>1, <2>1
  <2>3. parse'[m] = row
    BY <1>1, <1>2, <1>3, ParseWritten
  <2>4. QED BY <2>1, <2>2, <2>3
<1>5. Counts(invoice[m].status) /\ Counts(invoice[m].status)'
  BY <1>1, <1>4 DEF ParseIsLinked, Counts
<1>6. ParseIsLinked(m)' /\ SumsAreCurrent(m)'
  BY <1>1, <1>3, <1>4, <1>5, ParsePlaces DEF ParseIsLinked, SumsAreCurrent
<1>7. ToCome(m)' <= ToCome(m)
  <2>1. Early(m)' = 0 /\ Early(m) = 1
    BY <1>1, <1>3, <1>4 DEF Early
  <2>2. QED BY <1>1, <1>4, <2>1 DEF ToCome
<1>8. QED BY <1>1, <1>2, <1>3, <1>4, <1>6, <1>7, ParsePlaces, ParseMoves DEF ParseAlone

\* A run that is over holds nothing.
Spent(end) == [NoParse EXCEPT !.pc = end]

LEMMA SpentRow ==
  ASSUME NEW end \in {"done", "failed"}
  PROVE  /\ Spent(end) \in ParseRow /\ Spent(end).pc = end /\ Spent(end).tries = 0 /\ Spent(end).job = Nil
<1>1. NoParse \in ParseRow
  BY RunLimits DEF NoParse, ParseRow
<1>2. QED BY <1>1, RunLimits DEF Spent, NoParse, ParseRow

LEMMA RecordSentKeeps == ASSUME SuppliersInductive, NEW m \in Mail, RecordSent(m) PROVE SuppliersInductive'
<1> DEFINE row == Spent("done")
<1>1. /\ parse[m] \in ParseRow /\ ParseFields(parse[m]) /\ parse[m].pc = "sent" /\ ParseIsLinked(m)
      /\ parse \in [Mail -> ParseRow] /\ parsed \in [Mail -> Nat] /\ MaxTries \in Nat \ {0}
  BY ParseFacts DEF RecordSent
<1>2. parse' = [parse EXCEPT ![m] = row]
  BY DEF RecordSent, Spent
<1>3. /\ row \in ParseRow /\ row.pc = "done" /\ row.tries = 0
  BY SpentRow
<1> HIDE DEF row
<1>4. parse'[m] = row /\ UNCHANGED <<parsed, guard, invoice>> /\ ParseAlone
  BY <1>1, <1>2, <1>3, ParseWritten DEF RecordSent, ParseAlone
<1>5. Counts(invoice[m].status) /\ Counts(invoice[m].status)'
  BY <1>1, <1>4 DEF ParseIsLinked, Counts
<1>6. ParseIsLinked(m)' /\ SumsAreCurrent(m)'
  BY <1>1, <1>3, <1>4, <1>5, ParsePlaces DEF ParseIsLinked, SumsAreCurrent
<1>7. ToCome(m)' <= ToCome(m)
  <2>1. Early(m)' <= Early(m)
    BY <1>1, <1>3, <1>4 DEF Early
  <2>2. QED BY <1>1, <1>4, <2>1, NothingToCome
<1>8. QED BY <1>1, <1>2, <1>3, <1>4, <1>6, <1>7, ParsePlaces, ParseMoves DEF ParseAlone

-----------------------------------------------------------------------------
(* The steps that write invoices, orders and costs.                        *)

LEMMA StillToCome ==
  ASSUME NEW n \in Nat, NEW e \in Nat, NEW f \in Nat, NEW a \in Nat, NEW b \in Nat, f <= e + b - a
  PROVE  n + f <= n + e + b - a
OBVIOUS

LEMMA QuietTells ==
  ASSUME SuppliersInductive, told' \in [Mail -> ToldRow], parsed' = parsed, NEW m \in Mail,
         Early(m)' <= Early(m) + told'[m].again - told[m].again,
         told'[m].mailed = told[m].mailed, told'[m].unclaimed = told[m].unclaimed
  PROVE  TellsNoMail(m)
<1>1. told[m].again \in Nat /\ parsed[m] \in Nat
  BY ParseFacts, ToldFields
<1>2. told'[m].again \in Nat
  BY DEF ToldRow
<1>3. Early(m) \in {0, 1} /\ Early(m)' \in {0, 1}
  BY DEF Early
<1> DEFINE e == Early(m)
           f == ToCome(m)
           a == told[m].again
<1>4. e \in Nat /\ e' \in Nat /\ a \in Nat /\ a' \in Nat /\ e' <= e + a' - a
  BY <1>1, <1>2, <1>3
<1>5. f = parsed[m] + e /\ f' = parsed[m] + e'
  BY DEF ToCome
<1> HIDE DEF e, f, a
<1>6. f' <= f + a' - a
  <2>1. parsed[m] + e' <= parsed[m] + e + a' - a
    BY <1>1, <1>4, StillToCome
  <2>2. QED BY <1>5, <2>1
<1>7. QED BY <1>6 DEF TellsNoMail, f, a

LEMMA CostSame ==
  ASSUME CostIsRight, NEW j \in Jobs, j \notin stale, cost'[j] = cost[j],
         Actuals(j)' = Actuals(j), Estimated(j)' = Estimated(j),
         \A x \in Mail : parse[x].job = j => parse[x].pc \notin Writing
  PROVE  cost'[j] = CostOf(j)'
<1>1. cost[j] = CostOf(j)
  BY DEF CostIsRight
<1>2. CostOf(j) = JobCost(Actuals(j), Estimated(j))
  BY BilledIsActual
<1>3. CostOf(j)' = JobCost(Actuals(j)', Estimated(j)')
  BY DEF CostOf, Billed, Actuals, Counts, JobCost, Estimated, IsOpen
<1>4. QED BY <1>1, <1>2, <1>3

LEMMA WriteCostKeeps == ASSUME SuppliersInductive, NEW m \in Mail, WriteCost(m) PROVE SuppliersInductive'
<1> DEFINE p == parse[m]
           row == [p EXCEPT !.pc = "record", !.actuals = 0, !.estimate = 0]
           n == JobCost(p.actuals, p.estimate)
<1>1. /\ parse[m] \in ParseRow /\ ParseFields(p) /\ p.pc = "write" /\ ParseIsLinked(m) /\ SumsAreCurrent(m)
      /\ parse \in [Mail -> ParseRow] /\ CostIsRight /\ ParsesAreLinked /\ p.job \in Jobs
      /\ cost \in [Jobs -> Nat] /\ stale \subseteq Jobs /\ told \in [Mail -> ToldRow]
  BY ParseFacts, ParsePlaces DEF WriteCost, ParseIsLinked
<1>2. /\ parse' = [parse EXCEPT ![m] = row] /\ cost' = [cost EXCEPT ![p.job] = n]
      /\ stale' = IF p.late THEN stale \cup {p.job} ELSE stale \ {p.job}
      /\ UNCHANGED <<runVars, invoice, order, taken, parsed, guard, claims, returnVars, told>>
  BY DEF WriteCost
<1>3. /\ row \in ParseRow /\ row.pc = "record" /\ row.tries = p.tries /\ row.job = p.job
  BY <1>1 DEF ParseRow, Parsing, Writing
<1>4. n \in Nat
  BY <1>1 DEF JobCost, ParseFields
<1>5. ~p.late => n = CostOf(p.job)
  BY <1>1, BilledIsActual DEF SumsAreCurrent
<1> HIDE DEF row, n
<1>6. /\ parse' \in [Mail -> ParseRow] /\ parse'[m] = row
      /\ \A x \in Mail \ {m} : parse'[x] = parse[x] /\ ParseStays(x)
  BY <1>1, <1>2, <1>3, ParseWritten
<1>7. /\ cost' \in [Jobs -> Nat] /\ cost'[p.job] = n /\ \A j \in Jobs \ {p.job} : cost'[j] = cost[j]
      /\ stale' \subseteq Jobs
  BY <1>1, <1>2, <1>4
<1>8. \A j : Actuals(j)' = Actuals(j) /\ Estimated(j)' = Estimated(j) /\ CostOf(j)' = CostOf(j)
  BY <1>2 DEF Actuals, Estimated, IsOpen, CostOf, Billed
<1>9. ParsesAreLinked'
  <2>1. ASSUME NEW x \in Mail \ {m} PROVE ParseIsLinked(x)' /\ SumsAreCurrent(x)'
    <3>1. ParseIsLinked(x) /\ SumsAreCurrent(x) /\ ParseStays(x) /\ (Taken(x)' => Taken(x))
          /\ invoice'[x].job = invoice[x].job /\ (Counts(invoice[x].status) => Counts(invoice'[x].status))
      BY <1>1, <1>2, <1>6 DEF ParsesAreLinked, Taken
    <3>2. ParseIsLinked(x)'
      BY <3>1, LinkStays
    <3>3. SumsAreCurrent(x)'
      BY <1>8, <3>1, SumsStay
    <3>4. QED BY <3>2, <3>3
  <2>2. ~Taken(m)'
    BY <1>1, <1>2, ParsePlaces DEF ParseIsLinked, Taken
  <2>3. Counts(invoice[m].status) /\ Counts(invoice[m].status)' /\ invoice'[m].job = p.job
    BY <1>1, <1>2, ParsePlaces DEF ParseIsLinked, Counts
  <2>4. ParseIsLinked(m)' /\ SumsAreCurrent(m)'
    BY <1>1, <1>3, <1>6, <2>2, <2>3 DEF ParseIsLinked, SumsAreCurrent
  <2>5. QED BY <2>1, <2>4 DEF ParsesAreLinked
<1>10. CostIsRight'
  <2>1. ASSUME NEW j \in Jobs, j \notin stale', \A x \in Mail : parse'[x].job = j => parse'[x].pc \notin Writing
        PROVE  cost'[j] = CostOf(j)'
    <3>1. CASE j = p.job
      BY <1>1, <1>2, <1>5, <1>7, <1>8, <2>1, <3>1
    <3>2. CASE j # p.job
      <4>1. \A x \in Mail : parse[x].job = j => parse[x].pc \notin Writing
        BY <1>6, <2>1, <3>2
      <4>2. j \notin stale /\ cost'[j] = cost[j]
        BY <1>2, <1>7, <2>1, <3>2
      <4>3. Actuals(j)' = Actuals(j) /\ Estimated(j)' = Estimated(j) /\ CostIsRight
        BY <1>1, <1>8
      <4>4. QED BY <4>1, <4>2, <4>3, CostSame
    <3>3. QED BY <3>1, <3>2
  <2>2. QED BY <2>1 DEF CostIsRight
<1>11. \A x \in Mail : TellsNoMail(x)
  <2>1. ASSUME NEW x \in Mail PROVE TellsNoMail(x)
    <3>1. Early(x)' <= Early(x)
      BY <1>1, <1>3, <1>6 DEF Early
    <3>2. told' = told /\ told[x].again \in Nat /\ Early(x) \in {0, 1} /\ Early(x)' \in {0, 1}
      BY <1>1, <1>2, ToldFields DEF Early
    <3>3. Early(x)' <= Early(x) + told'[x].again - told[x].again
      BY <3>1, <3>2
    <3>4. told' \in [Mail -> ToldRow] /\ parsed' = parsed
      BY <1>1, <1>2
    <3>5. QED BY <3>2, <3>3, <3>4, QuietTells
  <2>2. QED BY <2>1
<1>12. /\ UNCHANGED <<agentRun, work, guard, claims, returnVars>>
       /\ faults' \in 0..MaxFaults /\ faults' >= faults
       /\ invoice' \in [Mail -> InvoiceRow] /\ order' \in [Jobs -> {"draft", "ordered", "delivered"}]
       /\ taken' \subseteq Mail /\ told' \in [Mail -> ToldRow] /\ parsed' \in [Mail -> Nat]
  BY <1>2, ParseFacts DEF runVars
<1>13. QED BY <1>6, <1>7, <1>9, <1>10, <1>11, <1>12, RestKeeps

LEMMA OvertakenWritten ==
  ASSUME parse \in [Mail -> ParseRow], NEW m \in Mail, NEW row \in ParseRow, NEW jobs, NEW read,
         parse' = [Overtaken(parse, jobs, read) EXCEPT ![m] = row]
  PROVE  /\ parse' \in [Mail -> ParseRow] /\ parse'[m] = row
         /\ \A x \in Mail \ {m} :
               ParseStays(x) /\ (parse[x].job \in jobs /\ parse[x].pc \in read => parse'[x].late)
<1> DEFINE rows == Overtaken(parse, jobs, read)
<1>1. rows \in [Mail -> ParseRow]
  BY OvertakenRows
<1>2. \A x \in Mail : /\ rows[x].pc = parse[x].pc /\ rows[x].job = parse[x].job /\ rows[x].tries = parse[x].tries
                      /\ rows[x].actuals = parse[x].actuals /\ rows[x].estimate = parse[x].estimate
                      /\ ~rows[x].late => ~parse[x].late
                      /\ parse[x].job \in jobs /\ parse[x].pc \in read => rows[x].late
  BY OvertakenRows
<1>3. parse' = [rows EXCEPT ![m] = row]
  OBVIOUS
<1> HIDE DEF rows
<1>4. parse' \in [Mail -> ParseRow] /\ parse'[m] = row /\ \A x \in Mail \ {m} : parse'[x] = rows[x]
  BY <1>1, <1>3
<1>5. QED BY <1>2, <1>4 DEF ParseStays

\* A run that is overtaken, or reads nothing that changed, stays linked.
LEMMA OvertakenLinked ==
  ASSUME ParsesAreLinked, NEW x \in Mail, ParseStays(x), invoice'[x] = invoice[x], Taken(x)' => Taken(x), NEW jobs,
         parse[x].job \in jobs /\ parse[x].pc \in {"estimate", "write"} => parse'[x].late,
         \A j : j \notin jobs => Actuals(j)' = Actuals(j), UNCHANGED order
  PROVE  ParseIsLinked(x)' /\ SumsAreCurrent(x)'
<1>1. /\ ParseIsLinked(x) /\ SumsAreCurrent(x)
      /\ invoice'[x].job = invoice[x].job /\ (Counts(invoice[x].status) => Counts(invoice'[x].status))
  BY DEF ParsesAreLinked
<1>2. ParseIsLinked(x)'
  BY <1>1, LinkStays
<1>3. PICK j : j = parse[x].job
  OBVIOUS
<1>4. /\ ~parse'[x].late /\ parse[x].pc \in {"estimate", "write"} => Actuals(j)' = Actuals(j)
      /\ ~parse'[x].late /\ parse[x].pc = "write" => Estimated(j)' = Estimated(j)
  BY <1>3 DEF Estimated, IsOpen
<1>5. SumsAreCurrent(x)'
  BY <1>1, <1>3, <1>4, SumsStay
<1>6. QED BY <1>2, <1>5

LEMMA SaveParsedKeeps == ASSUME SuppliersInductive, NEW m \in Mail, SaveParsed(m) PROVE SuppliersInductive'
<1> DEFINE p == parse[m]
           o == invoice[m].job
           jobs == {p.job, o}
           next == IF p.job = Nil THEN "record" ELSE "actuals"
           row == [p EXCEPT !.pc = next]
           saved == [status |-> "parsed", job |-> p.job]
<1>1. /\ parse[m] \in ParseRow /\ ParseFields(p) /\ p.pc = "save" /\ ParseIsLinked(m) /\ ~Taken(m)
      /\ parse \in [Mail -> ParseRow] /\ CostIsRight /\ ParsesAreLinked
      /\ invoice \in [Mail -> InvoiceRow] /\ o \in Jobs \cup {Nil} /\ p.job \in Jobs \cup {Nil} /\ Nil \notin Jobs
      /\ stale \subseteq Jobs /\ told \in [Mail -> ToldRow]
  <2>1. /\ parse[m] \in ParseRow /\ ParseFields(p) /\ p.pc = "save" /\ ParseIsLinked(m)
        /\ parse \in [Mail -> ParseRow] /\ CostIsRight /\ ParsesAreLinked
        /\ invoice \in [Mail -> InvoiceRow] /\ p.job \in Jobs \cup {Nil} /\ Nil \notin Jobs
        /\ stale \subseteq Jobs /\ told \in [Mail -> ToldRow]
    BY ParseFacts DEF SaveParsed, ParseFields
  <2>2. o \in Jobs \cup {Nil}
    BY <2>1 DEF InvoiceRow
  <2>3. ~Taken(m)
    BY <2>1 DEF ParseIsLinked
  <2>4. QED BY <2>1, <2>2, <2>3
<1>2. next \in {"record", "actuals"} /\ (next = "record" <=> p.job = Nil)
  OBVIOUS
<1>3. /\ invoice' = [invoice EXCEPT ![m] = saved]
      /\ parse' = [Overtaken(parse, jobs, {"estimate", "write"}) EXCEPT ![m].pc = next]
      /\ stale' = IF o \in Jobs \ {p.job} THEN stale \cup {o} ELSE stale
      /\ UNCHANGED <<runVars, order, cost, taken, parsed, guard, claims, returnVars, told>>
  BY DEF SaveParsed
<1> HIDE DEF next
<1>4. /\ row \in ParseRow /\ row.pc = next /\ row.tries = p.tries /\ row.job = p.job
  BY <1>1, <1>2 DEF ParseRow, Parsing, Writing
<1>5. parse' = [Overtaken(parse, jobs, {"estimate", "write"}) EXCEPT ![m] = row]
  <2>1. Overtaken(parse, jobs, {"estimate", "write"})[m] = p
    BY <1>1 DEF Overtaken
  <2>2. QED BY <1>3, <2>1
<1>6. saved \in InvoiceRow /\ saved.job = p.job /\ saved.status = "parsed"
  BY <1>1 DEF InvoiceRow
<1> HIDE DEF row, saved
<1>7. invoice' \in [Mail -> InvoiceRow] /\ invoice'[m] = saved /\ \A x \in Mail \ {m} : invoice'[x] = invoice[x]
  BY <1>1, <1>3, <1>6
<1>8. /\ parse' \in [Mail -> ParseRow] /\ parse'[m] = row
      /\ \A x \in Mail \ {m} : /\ ParseStays(x)
                               /\ parse[x].job \in jobs /\ parse[x].pc \in {"estimate", "write"} => parse'[x].late
  <2> DEFINE read == {"estimate", "write"}
  <2> HIDE DEF jobs, read
  <2>1. parse \in [Mail -> ParseRow] /\ row \in ParseRow
        /\ parse' = [Overtaken(parse, jobs, read) EXCEPT ![m] = row]
    BY <1>1, <1>4, <1>5 DEF read
  <2>2. /\ parse' \in [Mail -> ParseRow] /\ parse'[m] = row
        /\ \A x \in Mail \ {m} : ParseStays(x) /\ (parse[x].job \in jobs /\ parse[x].pc \in read => parse'[x].late)
    BY <2>1, OvertakenWritten
  <2>3. QED BY <2>2 DEF read
<1>9. ASSUME NEW j, j \notin jobs PROVE Actuals(j)' = Actuals(j)
  <2>1. ASSUME NEW b \in Bills
        PROVE  invoice'[b].job = j /\ Counts(invoice'[b].status) <=> invoice[b].job = j /\ Counts(invoice[b].status)
    BY <1>6, <1>7, <1>9 DEF Mail
  <2>2. QED BY <2>1, ActualsStand DEF BillsStand
<1>10. ParsesAreLinked'
  <2>1. ASSUME NEW x \in Mail \ {m} PROVE ParseIsLinked(x)' /\ SumsAreCurrent(x)'
    <3>1. Taken(x)' => Taken(x)
      BY <1>3 DEF Taken
    <3>2. QED BY <1>1, <1>3, <1>7, <1>8, <1>9, <3>1, OvertakenLinked
  <2>2. ~Taken(m)'
    BY <1>1, <1>3 DEF Taken
  <2>3. Counts(invoice[m].status)' /\ invoice'[m].job = p.job
    BY <1>6, <1>7 DEF Counts
  <2>4. ParseIsLinked(m)' /\ SumsAreCurrent(m)'
    BY <1>1, <1>2, <1>4, <1>8, <2>2, <2>3, ParsePlaces DEF ParseIsLinked, SumsAreCurrent
  <2>5. QED BY <2>1, <2>4 DEF ParsesAreLinked
<1>11. CostIsRight'
  <2>1. ASSUME NEW j \in Jobs, j \notin stale', \A x \in Mail : parse'[x].job = j => parse'[x].pc \notin Writing
        PROVE  cost'[j] = CostOf(j)'
    <3>1. j # p.job
      BY <1>1, <1>2, <1>4, <1>8, <2>1, ParsePlaces
    <3>2. j # o /\ j \notin stale
      BY <1>3, <2>1, <3>1
    <3>3. \A x \in Mail : parse[x].job = j => parse[x].pc \notin Writing
      BY <1>8, <2>1, <3>1 DEF ParseStays
    <3>4. Actuals(j)' = Actuals(j) /\ Estimated(j)' = Estimated(j) /\ cost'[j] = cost[j]
      BY <1>3, <1>9, <3>1, <3>2 DEF Estimated, IsOpen
    <3>5. QED BY <1>1, <3>2, <3>3, <3>4, CostSame
  <2>2. QED BY <2>1 DEF CostIsRight
<1>12. \A x \in Mail : TellsNoMail(x)
  <2>1. ASSUME NEW x \in Mail PROVE TellsNoMail(x)
    <3>1. Early(x)' <= Early(x)
      BY <1>1, <1>2, <1>4, <1>8 DEF Early, ParseStays
    <3>2. told' = told /\ told[x].again \in Nat /\ Early(x) \in {0, 1} /\ Early(x)' \in {0, 1}
      BY <1>1, <1>3, ToldFields DEF Early
    <3>3. Early(x)' <= Early(x) + told'[x].again - told[x].again
      BY <3>1, <3>2
    <3>4. told' \in [Mail -> ToldRow] /\ parsed' = parsed
      BY <1>1, <1>3
    <3>5. QED BY <3>2, <3>3, <3>4, QuietTells
  <2>2. QED BY <2>1
<1>13. /\ UNCHANGED <<agentRun, work, guard, claims, returnVars>>
       /\ faults' \in 0..MaxFaults /\ faults' >= faults
       /\ cost' \in [Jobs -> Nat] /\ order' \in [Jobs -> {"draft", "ordered", "delivered"}]
       /\ taken' \subseteq Mail /\ told' \in [Mail -> ToldRow] /\ parsed' \in [Mail -> Nat] /\ stale' \subseteq Jobs
  <2>1. stale' \subseteq Jobs
    BY <1>1, <1>3
  <2>2. QED BY <1>3, <2>1, ParseFacts DEF runVars
<1>14. QED BY <1>7, <1>8, <1>10, <1>11, <1>12, <1>13, RestKeeps

LEMMA ParseThrowsKeeps == ASSUME SuppliersInductive, NEW m \in Mail, ParseThrows(m) PROVE SuppliersInductive'
<1> DEFINE p == parse[m]
           o == invoice[m].job
           jobs == {o}
           row == Spent("failed")
<1>1. /\ parse[m] \in ParseRow /\ ParseFields(p) /\ p.pc \in Parsing \ {"record"} /\ ParseIsLinked(m)
      /\ parse \in [Mail -> ParseRow] /\ CostIsRight /\ ParsesAreLinked /\ invoice \in [Mail -> InvoiceRow]
      /\ stale \subseteq Jobs /\ told \in [Mail -> ToldRow] /\ Fault /\ Nil \notin Jobs /\ SupplierTypeOK
      /\ MaxTries \in Nat \ {0}
  BY ParseFacts DEF ParseThrows
<1>2. ~Taken(m) /\ (p.pc \in Writing => p.job = o)
  BY <1>1, ParsePlaces DEF ParseIsLinked
<1>3. /\ parse' = [Overtaken(parse, jobs, {"estimate", "write"}) EXCEPT ![m] = row]
      /\ stale' = IF o \in Jobs THEN stale \cup {o} ELSE stale
      /\ UNCHANGED <<agentRun, work, order, cost, taken, parsed, guard, claims, returnVars>>
  BY DEF ParseThrows, Spent
<1>4. PICK marked \in BOOLEAN :
         /\ invoice' = IF marked THEN [invoice EXCEPT ![m].status = "parse_failed"] ELSE invoice
         /\ told' = IF marked THEN told ELSE [told EXCEPT ![m].skipped = TRUE]
  BY DEF ParseThrows
<1>5. row \in ParseRow /\ row.pc = "failed" /\ row.tries = 0
  BY SpentRow
<1> HIDE DEF row
<1>6. /\ invoice' \in [Mail -> InvoiceRow] /\ \A x \in Mail \ {m} : invoice'[x] = invoice[x]
      /\ invoice'[m].job = o
  <2>1. CASE marked
    <3> DEFINE saved == [invoice[m] EXCEPT !.status = "parse_failed"]
    <3>1. saved \in InvoiceRow /\ saved.job = o
      BY <1>1 DEF InvoiceRow
    <3>2. invoice' = [invoice EXCEPT ![m] = saved]
      BY <1>4, <2>1
    <3> HIDE DEF saved
    <3>3. QED BY <1>1, <3>1, <3>2
  <2>2. CASE ~marked
    BY <1>1, <1>4, <2>2
  <2>3. QED BY <2>1, <2>2
<1>7. /\ told' \in [Mail -> ToldRow]
      /\ \A x \in Mail : /\ told'[x].again = told[x].again /\ told'[x].mailed = told[x].mailed
                         /\ told'[x].unclaimed = told[x].unclaimed
  <2>1. CASE marked
    BY <1>1, <1>4, <2>1
  <2>2. CASE ~marked
    <3> DEFINE t == [told[m] EXCEPT !.skipped = TRUE]
    <3>1. t \in ToldRow /\ t.again = told[m].again /\ t.mailed = told[m].mailed /\ t.unclaimed = told[m].unclaimed
      BY <1>1 DEF ToldRow
    <3>2. told' = [told EXCEPT ![m] = t]
      BY <1>4, <2>2
    <3> HIDE DEF t
    <3>3. QED BY <1>1, <3>1, <3>2, Tells
  <2>3. QED BY <2>1, <2>2
<1>8. /\ parse' \in [Mail -> ParseRow] /\ parse'[m] = row
      /\ \A x \in Mail \ {m} : /\ ParseStays(x)
                               /\ parse[x].job \in jobs /\ parse[x].pc \in {"estimate", "write"} => parse'[x].late
  <2> DEFINE read == {"estimate", "write"}
  <2> HIDE DEF jobs, read
  <2>1. parse \in [Mail -> ParseRow] /\ row \in ParseRow
        /\ parse' = [Overtaken(parse, jobs, read) EXCEPT ![m] = row]
    BY <1>1, <1>3, <1>5 DEF read
  <2>2. /\ parse' \in [Mail -> ParseRow] /\ parse'[m] = row
        /\ \A x \in Mail \ {m} : ParseStays(x) /\ (parse[x].job \in jobs /\ parse[x].pc \in read => parse'[x].late)
    BY <2>1, OvertakenWritten
  <2>3. QED BY <2>2 DEF read
<1>9. ASSUME NEW j, j \notin jobs PROVE Actuals(j)' = Actuals(j)
  <2>1. ASSUME NEW b \in Bills
        PROVE  invoice'[b].job = j /\ Counts(invoice'[b].status) <=> invoice[b].job = j /\ Counts(invoice[b].status)
    BY <1>6, <1>9 DEF Mail
  <2>2. QED BY <2>1, ActualsStand DEF BillsStand
<1>10. ParsesAreLinked'
  <2>1. ASSUME NEW x \in Mail \ {m} PROVE ParseIsLinked(x)' /\ SumsAreCurrent(x)'
    <3>1. Taken(x)' => Taken(x)
      BY <1>3 DEF Taken
    <3>2. QED BY <1>1, <1>3, <1>6, <1>8, <1>9, <3>1, OvertakenLinked
  <2>2. ~Taken(m)'
    BY <1>2, <1>3 DEF Taken
  <2>3. ParseIsLinked(m)' /\ SumsAreCurrent(m)'
    BY <1>5, <1>8, <2>2, ParsePlaces DEF ParseIsLinked, SumsAreCurrent
  <2>4. QED BY <2>1, <2>3 DEF ParsesAreLinked
<1>11. CostIsRight'
  <2>1. ASSUME NEW j \in Jobs, j \notin stale', \A x \in Mail : parse'[x].job = j => parse'[x].pc \notin Writing
        PROVE  cost'[j] = CostOf(j)'
    <3>1. j # o /\ j \notin stale
      BY <1>3, <2>1
    <3>2. \A x \in Mail : parse[x].job = j => parse[x].pc \notin Writing
      BY <1>2, <1>8, <2>1, <3>1 DEF ParseStays
    <3>3. Actuals(j)' = Actuals(j) /\ Estimated(j)' = Estimated(j) /\ cost'[j] = cost[j]
      BY <1>3, <1>9, <3>1 DEF Estimated, IsOpen
    <3>4. QED BY <1>1, <3>1, <3>2, <3>3, CostSame
  <2>2. QED BY <2>1 DEF CostIsRight
<1>12. \A x \in Mail : TellsNoMail(x)
  <2>1. ASSUME NEW x \in Mail PROVE TellsNoMail(x)
    <3>1. Early(x)' <= Early(x) /\ Early(x) \in {0, 1} /\ Early(x)' \in {0, 1}
      BY <1>1, <1>5, <1>8, ParsePlaces DEF Early, ParseStays
    <3>2. told[x].again \in Nat /\ told'[x].again = told[x].again
      BY <1>1, <1>7, ToldFields
    <3>3. Early(x)' <= Early(x) + told'[x].again - told[x].again
      BY <3>1, <3>2
    <3>4. parsed' = parsed
      BY <1>3
    <3>5. QED BY <1>7, <3>3, <3>4, QuietTells
  <2>2. QED BY <2>1
<1>13. /\ UNCHANGED <<agentRun, work, guard, claims, returnVars>>
       /\ faults' \in 0..MaxFaults /\ faults' >= faults
       /\ cost' \in [Jobs -> Nat] /\ order' \in [Jobs -> {"draft", "ordered", "delivered"}]
       /\ taken' \subseteq Mail /\ parsed' \in [Mail -> Nat] /\ stale' \subseteq Jobs
  <2>1. stale' \subseteq Jobs
    BY <1>1, <1>3
  <2>2. faults' \in 0..MaxFaults /\ faults' >= faults
    BY <1>1, FaultCounts
  <2>3. QED BY <1>3, <2>1, <2>2, ParseFacts
<1>14. QED BY <1>6, <1>7, <1>8, <1>10, <1>11, <1>12, <1>13, RestKeeps

LEMMA ParseDiesKeeps == ASSUME SuppliersInductive, NEW m \in Mail, ParseDies(m) PROVE SuppliersInductive'
<1> DEFINE p == parse[m]
           next == IF LastTry(p) THEN "failed" ELSE ParseRestart(p.pc)
           row == [p EXCEPT !.pc = next, !.tries = @ + 1, !.actuals = 0, !.estimate = 0]
           more == IF p.pc = "sent" THEN told[m].again + 1 ELSE told[m].again
           t == [told[m] EXCEPT !.skipped = @ \/ LastTry(p), !.again = more]
<1>1. /\ parse[m] \in ParseRow /\ ParseFields(p) /\ p.pc \in Parsing \cup {"emit", "sent"} /\ ParseIsLinked(m)
      /\ parse \in [Mail -> ParseRow] /\ CostIsRight /\ ParsesAreLinked /\ invoice \in [Mail -> InvoiceRow]
      /\ stale \subseteq Jobs /\ told \in [Mail -> ToldRow] /\ Fault /\ Nil \notin Jobs /\ SupplierTypeOK
      /\ MaxTries \in Nat \ {0}
  BY ParseFacts DEF ParseDies
<1>2. /\ p.tries \in Nat /\ p.tries + 1 \in 0..MaxTries /\ (next # "failed" => p.tries + 1 < MaxTries)
  <2>1. p.tries \in Nat /\ p.tries < MaxTries
    BY <1>1, ParsePlaces DEF ParseIsLinked, ParseFields
  <2>2. next # "failed" => p.tries + 1 # MaxTries
    BY DEF LastTry
  <2> DEFINE n == p.tries
  <2> HIDE DEF n, next
  <2>3. n + 1 \in 0..MaxTries /\ (next # "failed" => n + 1 < MaxTries)
    BY <1>1, <2>1, <2>2 DEF n
  <2>4. QED BY <2>1, <2>3 DEF n
<1>3. /\ next \in {"failed", "match", "emit"} /\ (next = "match" => p.pc \in Parsing)
      /\ (next = "emit" => p.pc \in {"emit", "sent"})
  BY <1>1, ParsePlaces DEF ParseRestart
<1>4. /\ parse' = [parse EXCEPT ![m] = row]
      /\ told' = [told EXCEPT ![m].skipped = @ \/ LastTry(p), ![m].again = IF p.pc = "sent" THEN @ + 1 ELSE @]
      /\ stale' = IF p.pc \in Writing THEN stale \cup {p.job} ELSE stale
      /\ UNCHANGED <<agentRun, work, invoice, order, cost, taken, parsed, guard, claims, returnVars>>
  BY DEF ParseDies
<1>5. told[m].again \in Nat /\ more \in Nat /\ told[m].mailed \in Nat /\ told[m].unclaimed \in Nat
      /\ told[m].skipped \in BOOLEAN
  BY <1>1, ToldFields
<1>6. told' = [told EXCEPT ![m] = t]
  BY <1>1, <1>4
<1> HIDE DEF next, more
<1>7. /\ row \in ParseRow /\ row.pc = next /\ row.tries = p.tries + 1 /\ row.job = p.job
  BY <1>1, <1>2, <1>3 DEF ParseRow, Parsing
<1>8. t \in ToldRow /\ t.again = more /\ t.mailed = told[m].mailed /\ t.unclaimed = told[m].unclaimed
  <2>1. told[m] \in ToldRow
    BY <1>1
  <2>2. (told[m].skipped \/ LastTry(p)) \in BOOLEAN
    OBVIOUS
  <2> DEFINE s == told[m].skipped \/ LastTry(p)
  <2>3. t = [told[m] EXCEPT !.skipped = s, !.again = more]
    OBVIOUS
  <2> HIDE DEF s, t
  <2>4. s \in BOOLEAN
    BY DEF s
  <2>5. QED BY <1>5, <2>1, <2>3, <2>4 DEF ToldRow
<1> HIDE DEF row, t
<1>9. /\ parse' \in [Mail -> ParseRow] /\ parse'[m] = row
      /\ \A x \in Mail \ {m} : parse'[x] = parse[x] /\ ParseStays(x)
  BY <1>1, <1>4, <1>7, ParseWritten
<1>10. told' \in [Mail -> ToldRow] /\ told'[m] = t /\ \A x \in Mail \ {m} : told'[x] = told[x]
  BY <1>1, <1>6, <1>8, Tells
<1>11. \A j : Actuals(j)' = Actuals(j) /\ Estimated(j)' = Estimated(j)
  BY <1>4 DEF Actuals, Estimated, IsOpen
<1>12. ParsesAreLinked'
  <2>1. ASSUME NEW x \in Mail \ {m} PROVE ParseIsLinked(x)' /\ SumsAreCurrent(x)'
    <3>1. ParseIsLinked(x) /\ SumsAreCurrent(x) /\ ParseStays(x) /\ (Taken(x)' => Taken(x))
          /\ invoice'[x].job = invoice[x].job /\ (Counts(invoice[x].status) => Counts(invoice'[x].status))
      BY <1>1, <1>4, <1>9 DEF ParsesAreLinked, Taken
    <3>2. ParseIsLinked(x)'
      BY <3>1, LinkStays
    <3>3. SumsAreCurrent(x)'
      BY <1>11, <3>1, SumsStay
    <3>4. QED BY <3>2, <3>3
  <2>2. Taken(m)' => Taken(m) /\ p.pc \in {"emit", "sent"} /\ Counts(invoice[m].status)
    <3>1. Taken(m)' => Taken(m)
      BY <1>4 DEF Taken
    <3>2. QED BY <1>1, <3>1, ParsePlaces DEF ParseIsLinked
  <2>3. Counts(invoice[m].status)' <=> Counts(invoice[m].status)
    BY <1>4 DEF Counts
  <2>4. next = "emit" => Counts(invoice[m].status)
    BY <1>1, <1>3 DEF ParseIsLinked
  <2>5. next = "match" => ~Taken(m)'
    BY <1>3, <2>2, ParsePlaces
  <2>6. ParseIsLinked(m)'
    <3>1. row.pc = next /\ next \in {"failed", "match", "emit"} /\ row.tries = p.tries + 1 /\ parse'[m] = row
      BY <1>3, <1>7, <1>9
    <3> HIDE DEF Taken
    <3>2. QED BY <1>2, <2>2, <2>3, <2>4, <2>5, <3>1, ParsePlaces DEF ParseIsLinked
  <2>7. SumsAreCurrent(m)'
    BY <1>3, <1>7, <1>9 DEF SumsAreCurrent
  <2>8. QED BY <2>1, <2>6, <2>7 DEF ParsesAreLinked
<1>13. CostIsRight'
  <2>1. ASSUME NEW j \in Jobs, j \notin stale', \A x \in Mail : parse'[x].job = j => parse'[x].pc \notin Writing
        PROVE  cost'[j] = CostOf(j)'
    <3>1. j \notin stale /\ (p.pc \in Writing => j # p.job)
      BY <1>4, <2>1
    <3>2. \A x \in Mail : parse[x].job = j => parse[x].pc \notin Writing
      BY <1>9, <2>1, <3>1
    <3>3. Actuals(j)' = Actuals(j) /\ Estimated(j)' = Estimated(j) /\ cost'[j] = cost[j]
      BY <1>4, <1>11
    <3>4. QED BY <1>1, <3>1, <3>2, <3>3, CostSame
  <2>2. QED BY <2>1 DEF CostIsRight
<1>14. \A x \in Mail : TellsNoMail(x)
  <2>1. ASSUME NEW x \in Mail PROVE TellsNoMail(x)
    <3>1. Early(x)' <= Early(x) + told'[x].again - told[x].again
      <4>1. CASE x = m
        <5>1. Early(m) \in {0, 1} /\ Early(m)' \in {0, 1} /\ (p.pc # "sent" => Early(m) = 1)
          BY <1>1, ParsePlaces DEF Early
        <5>2. told'[m].again = IF p.pc = "sent" THEN told[m].again + 1 ELSE told[m].again
          BY <1>8, <1>10 DEF more
        <5> DEFINE e == Early(m)
                   a == told[m].again
        <5> HIDE DEF e, a
        <5>3. e' <= e + a' - a
          BY <1>5, <5>1, <5>2 DEF e, a
        <5>4. QED BY <4>1, <5>3 DEF e, a
      <4>2. CASE x # m
        <5>1. Early(x)' = Early(x) /\ Early(x) \in {0, 1} /\ told'[x] = told[x] /\ told[x].again \in Nat
          BY <1>1, <1>9, <1>10, <4>2, ToldFields DEF Early
        <5>2. QED BY <5>1
      <4>3. QED BY <4>1, <4>2
    <3>2. told'[x].mailed = told[x].mailed /\ told'[x].unclaimed = told[x].unclaimed
      BY <1>8, <1>10
    <3>3. told' \in [Mail -> ToldRow] /\ parsed' = parsed
      BY <1>4, <1>10
    <3>4. QED BY <3>1, <3>2, <3>3, QuietTells
  <2>2. QED BY <2>1
<1>15. /\ UNCHANGED <<agentRun, work, guard, claims, returnVars>>
       /\ faults' \in 0..MaxFaults /\ faults' >= faults /\ invoice' \in [Mail -> InvoiceRow]
       /\ cost' \in [Jobs -> Nat] /\ order' \in [Jobs -> {"draft", "ordered", "delivered"}]
       /\ taken' \subseteq Mail /\ parsed' \in [Mail -> Nat] /\ stale' \subseteq Jobs
  <2>1. stale' \subseteq Jobs
    BY <1>1, <1>4 DEF ParseIsLinked
  <2>2. faults' \in 0..MaxFaults /\ faults' >= faults
    BY <1>1, FaultCounts
  <2>3. QED BY <1>4, <2>1, <2>2, ParseFacts
<1>16. QED BY <1>9, <1>10, <1>12, <1>13, <1>14, <1>15, RestKeeps

\* A new invoice has no job yet and counts for nothing.
LEMMA IngestKeeps == ASSUME SuppliersInductive, NEW m \in Mail, Ingest(m) PROVE SuppliersInductive'
<1> DEFINE saved == [invoice[m] EXCEPT !.status = "received"]
<1>1. /\ invoice \in [Mail -> InvoiceRow] /\ CostIsRight /\ ParsesAreLinked /\ told \in [Mail -> ToldRow]
      /\ invoice[m].status = "absent" /\ taken \subseteq Mail
  BY ParseFacts DEF Ingest
<1>2. /\ invoice' = [invoice EXCEPT ![m] = saved] /\ taken' \in {taken, taken \cup {m}}
      /\ UNCHANGED <<runVars, costVars, parse, parsed, guard, claims, returnVars, told>>
  BY DEF Ingest
<1>3. saved \in InvoiceRow /\ saved.status = "received" /\ saved.job = invoice[m].job
  BY <1>1 DEF InvoiceRow
<1> HIDE DEF saved
<1>4. invoice' \in [Mail -> InvoiceRow] /\ InvoicesStand /\ taken' \subseteq Mail
  BY <1>1, <1>2, <1>3 DEF InvoicesStand, Counts
<1>5. \A x \in Mail : Taken(x)' => Taken(x)
  BY <1>2 DEF Taken
<1>6. ParsesAreLinked' /\ CostIsRight'
  BY <1>1, <1>2, <1>4, <1>5, ParsesStand, CostStands
<1>7. \A x \in Mail : TellsNoMail(x)
  <2>1. ASSUME NEW x \in Mail PROVE TellsNoMail(x)
    <3>1. Early(x)' = Early(x) /\ Early(x) \in {0, 1} /\ told' = told /\ told[x].again \in Nat
      BY <1>1, <1>2, ToldFields DEF Early
    <3>2. Early(x)' <= Early(x) + told'[x].again - told[x].again
      BY <3>1
    <3>3. told' \in [Mail -> ToldRow] /\ parsed' = parsed
      BY <1>1, <1>2
    <3>4. QED BY <3>1, <3>2, <3>3, QuietTells
  <2>2. QED BY <2>1
<1>8. /\ UNCHANGED <<agentRun, work, guard, claims, returnVars>>
      /\ faults' \in 0..MaxFaults /\ faults' >= faults /\ parse' \in [Mail -> ParseRow]
      /\ cost' \in [Jobs -> Nat] /\ order' \in [Jobs -> {"draft", "ordered", "delivered"}]
      /\ parsed' \in [Mail -> Nat] /\ stale' \subseteq Jobs /\ told' \in [Mail -> ToldRow]
  BY <1>2, ParseFacts DEF runVars, costVars
<1>9. QED BY <1>4, <1>6, <1>7, <1>8, RestKeeps

LEMMA AdvanceOrderKeeps == ASSUME SuppliersInductive, NEW j \in Jobs, AdvanceOrder(j) PROVE SuppliersInductive'
<1> DEFINE jobs == {j}
           read == {"write"}
           moved == IF order[j] = "draft" THEN "ordered" ELSE "delivered"
<1>1. /\ parse \in [Mail -> ParseRow] /\ CostIsRight /\ ParsesAreLinked /\ cost \in [Jobs -> Nat]
      /\ order \in [Jobs -> {"draft", "ordered", "delivered"}] /\ stale \subseteq Jobs
      /\ told \in [Mail -> ToldRow] /\ OrderCents \in Nat
  <2>1. SupplierTypeOK /\ CostIsRight /\ ParsesAreLinked
    BY DEF SuppliersInductive
  <2>2. QED BY <2>1, SupplierAssumption DEF SupplierTypeOK
<1>2. /\ order' = [order EXCEPT ![j] = moved] /\ cost' = [cost EXCEPT ![j] = OrderCents]
      /\ parse' = Overtaken(parse, jobs, read)
      /\ stale' = IF Actuals(j) > 0 THEN stale \cup {j} ELSE stale \ {j}
      /\ UNCHANGED <<runVars, invoice, taken, parsed, guard, claims, returnVars, told>>
  BY <1>1 DEF AdvanceOrder
<1>3. moved \in {"ordered", "delivered"}
  OBVIOUS
<1> HIDE DEF moved, jobs, read
<1>4. /\ parse' \in [Mail -> ParseRow]
      /\ \A x \in Mail : ParseStays(x) /\ (parse[x].job \in jobs /\ parse[x].pc \in read => parse'[x].late)
  BY <1>1, <1>2, OvertakenRows DEF ParseStays
<1>5. /\ order' \in [Jobs -> {"draft", "ordered", "delivered"}] /\ order'[j] = moved
      /\ cost' \in [Jobs -> Nat] /\ cost'[j] = OrderCents /\ stale' \subseteq Jobs
      /\ \A i \in Jobs \ {j} : order'[i] = order[i] /\ cost'[i] = cost[i]
  BY <1>1, <1>2, <1>3
<1>6. \A i : Actuals(i)' = Actuals(i) /\ Actuals(i) \in Nat
  BY <1>2, BilledIsActual DEF Actuals
<1>7. \A i \in Jobs \ {j} : Estimated(i)' = Estimated(i)
  BY <1>5 DEF Estimated, IsOpen
<1>8. Estimated(j)' = OrderCents
  BY <1>3, <1>5 DEF Estimated, IsOpen
<1>9. ParsesAreLinked'
  <2>1. ASSUME NEW x \in Mail PROVE ParseIsLinked(x)' /\ SumsAreCurrent(x)'
    <3>1. ParseIsLinked(x) /\ SumsAreCurrent(x) /\ ParseStays(x) /\ (Taken(x)' => Taken(x))
          /\ invoice'[x].job = invoice[x].job /\ (Counts(invoice[x].status) => Counts(invoice'[x].status))
      BY <1>1, <1>2, <1>4 DEF ParsesAreLinked, Taken
    <3>2. ParseIsLinked(x)'
      BY <3>1, LinkStays
    <3>3. PICK i : i = parse[x].job
      OBVIOUS
    <3>4. parse[x].pc = "write" => i \in Jobs
      BY <3>1, <3>3, ParsePlaces DEF ParseIsLinked
    <3>5. ~parse'[x].late /\ parse[x].pc = "write" => Estimated(i)' = Estimated(i)
      BY <1>4, <1>7, <3>3, <3>4 DEF jobs, read
    <3>6. Actuals(i)' = Actuals(i)
      BY <1>6
    <3>7. SumsAreCurrent(x)'
      BY <3>1, <3>3, <3>5, <3>6, SumsStay
    <3>8. QED BY <3>2, <3>7
  <2>2. QED BY <2>1 DEF ParsesAreLinked
<1>10. CostIsRight'
  <2>1. ASSUME NEW i \in Jobs, i \notin stale', \A x \in Mail : parse'[x].job = i => parse'[x].pc \notin Writing
        PROVE  cost'[i] = CostOf(i)'
    <3>1. CASE i = j
      <4>1. Actuals(i) = 0
        BY <1>2, <1>6, <2>1, <3>1
      <4>2. CostOf(i)' = JobCost(Actuals(i)', Estimated(i)')
        BY DEF CostOf, Billed, Actuals, Counts, JobCost, Estimated, IsOpen
      <4>3. Actuals(i)' = 0 /\ Estimated(i)' = OrderCents
        BY <1>6, <1>8, <3>1, <4>1 DEF Estimated, IsOpen
      <4>4. CostOf(i)' = OrderCents
        BY <4>2, <4>3 DEF JobCost
      <4>5. QED BY <1>5, <3>1, <4>4
    <3>2. CASE i # j
      <4>1. \A x \in Mail : parse[x].job = i => parse[x].pc \notin Writing
        BY <1>4, <2>1 DEF ParseStays
      <4>2. i \notin stale /\ cost'[i] = cost[i] /\ Actuals(i)' = Actuals(i) /\ Estimated(i)' = Estimated(i)
        BY <1>2, <1>5, <1>6, <1>7, <2>1, <3>2
      <4>3. QED BY <1>1, <4>1, <4>2, CostSame
    <3>3. QED BY <3>1, <3>2
  <2>2. QED BY <2>1 DEF CostIsRight
<1>11. \A x \in Mail : TellsNoMail(x)
  <2>1. ASSUME NEW x \in Mail PROVE TellsNoMail(x)
    <3>1. Early(x)' = Early(x) /\ Early(x) \in {0, 1}
      BY <1>4 DEF Early, ParseStays
    <3>2. told' = told /\ told[x].again \in Nat
      BY <1>1, <1>2, ToldFields
    <3>3. Early(x)' <= Early(x) + told'[x].again - told[x].again
      BY <3>1, <3>2
    <3>4. told' \in [Mail -> ToldRow] /\ parsed' = parsed
      BY <1>1, <1>2
    <3>5. QED BY <3>2, <3>3, <3>4, QuietTells
  <2>2. QED BY <2>1
<1>12. /\ UNCHANGED <<agentRun, work, guard, claims, returnVars>>
       /\ faults' \in 0..MaxFaults /\ faults' >= faults /\ invoice' \in [Mail -> InvoiceRow]
       /\ taken' \subseteq Mail /\ parsed' \in [Mail -> Nat] /\ told' \in [Mail -> ToldRow]
  <2>1. SupplierTypeOK /\ faults \in 0..MaxFaults /\ faults \in Nat
    BY TypesOf DEF SuppliersInductive
  <2>2. QED BY <1>2, <2>1 DEF runVars, SupplierTypeOK
<1>13. QED BY <1>4, <1>5, <1>9, <1>10, <1>11, <1>12, RestKeeps

-----------------------------------------------------------------------------
(* The office settles a return, and the reaper comes.                      *)

LEMMA ResolveReturnKeeps == ASSUME SuppliersInductive, NEW j \in Jobs, ResolveReturn(j) PROVE SuppliersInductive'
<1>1. /\ SupplierTypeOK /\ GuardsAreLinked /\ NotesApart /\ ReturnsApart /\ NoReturnNoClaim
      /\ ParsesAreLinked /\ CostIsRight
      /\ ClaimsAreCounted /\ CreditsHaveMemos /\ ReturnsAreChasedOnce
      /\ NobodyWorks /\ Cardinality(LeftOf(agentRun, OwnedByNotes)) <= faults
      /\ matReturn \in [Jobs -> ReturnRow]
  BY TypesOf DEF SuppliersInductive
<1>2. PICK outcome \in {"credited", "written_off"} : matReturn' = [matReturn EXCEPT ![j].status = outcome]
  BY DEF ResolveReturn
<1> DEFINE row == [matReturn[j] EXCEPT !.status = outcome]
<1>3. row \in ReturnRow /\ row.status = outcome /\ row.claim = matReturn[j].claim
  BY <1>1 DEF ReturnRow
<1>4. matReturn' = [matReturn EXCEPT ![j] = row]
  BY <1>2
<1>5. matReturn[j].status = "pending_pickup"
      /\ UNCHANGED <<agentRun, work, faults, invoice, order, cost, stale, taken, parse, parsed, guard, claims,
                     leftover, rolled, told>>
  BY DEF ResolveReturn, runVars, costVars, parseVars
<1> HIDE DEF row
<1>6. /\ matReturn' \in [Jobs -> ReturnRow]
      /\ \A i \in Jobs : matReturn'[i].claim = matReturn[i].claim /\ (HasReturn(i)' <=> HasReturn(i))
  BY <1>1, <1>3, <1>4, <1>5 DEF HasReturn
<1>7. SupplierTypeOK'
  <2>1. RunTypeOK'
    BY <1>1, <1>5 DEF SupplierTypeOK, RunTypeOK
  <2>2. QED BY <1>1, <1>5, <1>6, <2>1 DEF SupplierTypeOK
<1>8. GuardsAreLinked'
  <2>1. ASSUME NEW g \in Actors PROVE GuardIsLinked(g)'
    <3>1. GuardIsLinked(g) /\ claims \in Seq(Claim) /\ ClaimsGrow
      BY <1>1, <1>5, TypesOf, ClaimsUnchanged DEF GuardsAreLinked
    <3>2. guard[g].pc = "finish" => Closable(guard[g].row)'
      BY <1>5, <3>1 DEF GuardIsLinked, Closable
    <3>3. guard[g].pc \in {"chase", "commit"} => guard[g].job \in Jobs /\ ~HasReturn(guard[g].job)
      BY <3>1 DEF GuardIsLinked
    <3>4. PICK i : i = guard[g].job
      OBVIOUS
    <3>5. HasReturn(guard[g].job)' <=> HasReturn(i)'
      BY <1>5, <3>4 DEF HasReturn
    <3>6. guard[g].pc \in {"chase", "commit"} => ~HasReturn(guard[g].job)'
      BY <1>6, <3>3, <3>4, <3>5
    <3>7. QED BY <1>5, <3>1, <3>2, <3>6, OtherStaysLinked
  <2>2. QED BY <2>1 DEF GuardsAreLinked
<1>9. NotesApart' /\ ReturnsApart' /\ NobodyWorks' /\ CreditsHaveMemos'
  BY <1>1, <1>5 DEF NotesApart, ReturnsApart, InReturn, NobodyWorks, CreditsHaveMemos
<1>10. NoReturnNoClaim'
  BY <1>1, <1>6 DEF NoReturnNoClaim
<1>11. ReturnsAreChasedOnce'
  <2>1. \A i : Chases(i)' = Chases(i) /\ Chasers(i)' = Chasers(i)
    BY <1>5 DEF Chases, Chasers, InReturn
  <2>2. \A i \in Jobs : ChaseIsCounted(i)'
    BY <1>1, <1>5, <1>6, <2>1, ChasesAreCounted DEF ChaseIsCounted
  <2>3. QED BY <2>2, ChasesAreCountedNext
<1>12. ParsesAreLinked' /\ CostIsRight'
  <2>1. InvoicesStand /\ UNCHANGED <<costVars, parse>> /\ \A m \in Mail : Taken(m)' => Taken(m)
    BY <1>5 DEF InvoicesStand, costVars, Taken
  <2>2. QED BY <1>1, <2>1, ParsesStand, CostStands
<1>13. ClaimsAreCounted'
  BY <1>1, <1>5 DEF ClaimsAreCounted, StartsPay, MailIsClaimed, Mailers, Claimers, Creditors, HasMailed, Mailed,
        Sent, Credits, Overages, ToCome, Early
<1>14. Cardinality(LeftOf(agentRun, OwnedByNotes))' <= faults'
  BY <1>1, <1>5 DEF LeftOf, OwnedByNotes
<1>15. QED BY <1>7, <1>8, <1>9, <1>10, <1>11, <1>12, <1>13, <1>14 DEF SuppliersInductive

LEMMA ReapRunsKeeps == ASSUME SuppliersInductive, ReapRuns PROVE SuppliersInductive' /\ EndsStand(Closing \cup NotesClosing)
<1>1. /\ SupplierTypeOK /\ GuardsAreLinked /\ NotesApart /\ ReturnsApart /\ NoReturnNoClaim
      /\ ParsesAreLinked /\ CostIsRight /\ RunTypeOK /\ agentRun \in Seq(RunStatus)
      /\ ClaimsAreCounted /\ CreditsHaveMemos /\ ReturnsAreChasedOnce
      /\ NobodyWorks /\ Cardinality(LeftOf(agentRun, OwnedByNotes)) <= faults /\ faults \in Nat
  BY TypesOf DEF SuppliersInductive
<1>2. /\ agentRun' \in Seq(RunStatus) /\ DOMAIN agentRun' = DOMAIN agentRun /\ Len(agentRun') = Len(agentRun)
      /\ \A r \in DOMAIN agentRun :
            agentRun'[r] = agentRun[r] \/ (agentRun[r] = "running" /\ agentRun'[r] = "timed_out")
  BY <1>1, ReapWrites DEF ReapRuns
<1>3. /\ UNCHANGED <<work, faults, invoice, order, cost, stale, taken, parse, parsed, guard, claims,
                     leftover, matReturn, rolled, told>>
  BY DEF ReapRuns, Reap, mailVars, costVars, parseVars, returnVars
<1>4. SupplierTypeOK'
  <2>1. RunTypeOK'
    BY <1>1, <1>2, <1>3 DEF RunTypeOK
  <2>2. QED BY <1>1, <1>3, <2>1 DEF SupplierTypeOK
<1>5. GuardsAreLinked'
  <2>1. ASSUME NEW g \in Actors PROVE GuardIsLinked(g)'
    <3>1. GuardIsLinked(g) /\ claims \in Seq(Claim) /\ ClaimsGrow
      BY <1>1, <1>3, TypesOf, ClaimsUnchanged DEF GuardsAreLinked
    <3>2. guard[g].pc = "finish" => Closable(guard[g].row)'
      BY <1>2, <1>3, <3>1 DEF GuardIsLinked, Closable
    <3>3. guard[g].pc \in {"chase", "commit"} => ~HasReturn(guard[g].job)'
      BY <1>3, <3>1 DEF GuardIsLinked, HasReturn
    <3>4. QED BY <1>3, <3>1, <3>2, <3>3, OtherStaysLinked
  <2>2. QED BY <2>1 DEF GuardsAreLinked
<1>6. NotesApart' /\ ReturnsApart' /\ NobodyWorks' /\ CreditsHaveMemos' /\ NoReturnNoClaim'
  BY <1>1, <1>3 DEF NotesApart, ReturnsApart, InReturn, NobodyWorks, CreditsHaveMemos, NoReturnNoClaim, HasReturn
<1>7. ReturnsAreChasedOnce'
  <2>1. \A i : Chases(i)' = Chases(i) /\ Chasers(i)' = Chasers(i)
    BY <1>3 DEF Chases, Chasers, InReturn
  <2>2. \A i \in Jobs : ChaseIsCounted(i)'
    BY <1>1, <1>3, <2>1, ChasesAreCounted DEF ChaseIsCounted
  <2>3. QED BY <2>2, ChasesAreCountedNext
<1>8. ParsesAreLinked' /\ CostIsRight'
  <2>1. InvoicesStand /\ UNCHANGED <<costVars, parse>> /\ \A m \in Mail : Taken(m)' => Taken(m)
    BY <1>3 DEF InvoicesStand, costVars, Taken
  <2>2. QED BY <1>1, <2>1, ParsesStand, CostStands
<1>9. ClaimsAreCounted'
  BY <1>1, <1>3 DEF ClaimsAreCounted, StartsPay, MailIsClaimed, Mailers, Claimers, Creditors, HasMailed, Mailed,
        Sent, Credits, Overages, ToCome, Early
<1>10. Cardinality(LeftOf(agentRun, OwnedByNotes))' <= faults'
  <2> DEFINE L == Cardinality(LeftOf(agentRun, OwnedByNotes))
             M == Cardinality(LeftOf(agentRun', OwnedByNotes'))
  <2>1. LeftOf(agentRun', OwnedByNotes') \subseteq LeftOf(agentRun, OwnedByNotes)
    BY <1>2, <1>3 DEF LeftOf, OwnedByNotes
  <2>2. M <= L /\ M \in Nat /\ L \in Nat
    BY <1>1, <1>2, <2>1, LeftBounds
  <2>3. M <= faults'
    BY <1>1, <1>3, <2>2
  <2>4. QED BY <2>3 DEF LeftOf
<1>11. EndsStand(Closing \cup NotesClosing)
  BY <1>2 DEF EndsStand
<1>12. QED BY <1>4, <1>5, <1>6, <1>7, <1>8, <1>9, <1>10, <1>11 DEF SuppliersInductive

-----------------------------------------------------------------------------
(* For any number of invoices, jobs, guards and faults.                    *)

LEMMA SupplierInitHolds == SupplierInit => SuppliersInductive
<1> SUFFICES ASSUME SupplierInit PROVE SuppliersInductive
  OBVIOUS
<1>1. 0 \in 0..MaxTries /\ MaxTries \in Nat \ {0} /\ 0 \in 0..MaxFaults
  BY RunLimits
<1>2. /\ agentRun = <<>> /\ claims = <<>> /\ faults = 0 /\ stale = {} /\ taken = {}
      /\ work = [w \in Works |-> [pc |-> "idle", row |-> 0, tries |-> 0]]
      /\ invoice = [m \in Mail |-> [status |-> "absent", job |-> Nil]]
      /\ order = [j \in Jobs |-> "draft"] /\ cost = [j \in Jobs |-> 0]
      /\ parse = [m \in Mail |-> NoParse] /\ parsed = [m \in Mail |-> 0]
      /\ guard = [g \in Actors |-> NoGuard] /\ leftover = [j \in Jobs |-> FALSE]
      /\ matReturn = [j \in Jobs |-> [status |-> "none", claim |-> 0]] /\ rolled = [j \in Jobs |-> 0]
      /\ told = [m \in Mail |-> [mailed |-> 0, again |-> 0, unclaimed |-> 0, skipped |-> FALSE]]
  BY DEF SupplierInit, RunInit, Actors
<1>3. DOMAIN claims = {} /\ DOMAIN agentRun = {} /\ Len(claims) = 0 /\ Len(agentRun) = 0
  BY <1>2
<1>4. NoParse \in ParseRow /\ NoGuard \in GuardRow
  BY RunLimits DEF NoParse, ParseRow, NoGuard, GuardRow
<1>5. RunTypeOK
  BY <1>1, <1>2, <1>3 DEF RunTypeOK, WorkRow, RunId
<1>6. SupplierTypeOK
  <2>1. agentRun \in Seq(RunStatus) /\ claims \in Seq(Claim)
    BY <1>2
  <2>2. invoice \in [Mail -> InvoiceRow] /\ told \in [Mail -> ToldRow]
    BY <1>2 DEF InvoiceRow, ToldRow
  <2>3. matReturn \in [Jobs -> ReturnRow] /\ \A j \in Jobs : matReturn[j].claim = 0
    BY <1>2 DEF ReturnRow
  <2>4. parse \in [Mail -> ParseRow] /\ guard \in [Guards \cup Desks -> GuardRow]
    BY <1>2, <1>4 DEF Actors
  <2>5. order \in [Jobs -> {"draft", "ordered", "delivered"}] /\ cost \in [Jobs -> Nat] /\ parsed \in [Mail -> Nat]
        /\ leftover \in [Jobs -> BOOLEAN] /\ rolled \in [Jobs -> Nat] /\ taken \subseteq Mail /\ stale \subseteq Jobs
    BY <1>2
  <2>6. \A j \in Jobs : matReturn[j].claim \in 0..Len(claims)
    BY <1>3, <2>3
  <2>7. QED BY <1>5, <2>1, <2>2, <2>3, <2>4, <2>5, <2>6 DEF SupplierTypeOK
<1>7. /\ \A m \in Mail : parse[m].pc = "idle" /\ parse[m].tries = 0 /\ parsed[m] = 0 /\ ~parse[m].late
      /\ \A g \in Actors : guard[g].pc = "idle" /\ guard[g].of = Nil /\ guard[g].claim = 0 /\ guard[g].tries = 0
  BY <1>2 DEF NoParse, NoGuard
<1>8. GuardsAreLinked
  BY <1>1, <1>7, Places DEF GuardsAreLinked, GuardIsLinked
<1>9. NotesApart /\ ReturnsApart
  BY <1>7 DEF NotesApart, ReturnsApart, InReturn, Actors
<1>10. NoReturnNoClaim /\ CreditsHaveMemos /\ NobodyWorks
  BY <1>2, <1>3 DEF NoReturnNoClaim, CreditsHaveMemos, NobodyWorks
<1>11. ParsesAreLinked
  <2>1. ASSUME NEW m \in Mail PROVE ~Taken(m)
    BY <1>7, SupplierAssumption DEF Taken, Actors, Mail
  <2>2. QED BY <1>1, <1>7, <2>1, ParsePlaces DEF ParsesAreLinked, ParseIsLinked, SumsAreCurrent
<1>12. CostIsRight
  <2>1. ASSUME NEW j \in Jobs PROVE cost[j] = CostOf(j)
    <3>1. {b \in Bills : invoice[b].job = j /\ Counts(invoice[b].status)} = {}
      BY <1>2 DEF Counts, Mail
    <3>2. Actuals(j) = 0
      <4>1. Cardinality({b \in Bills : invoice[b].job = j /\ Counts(invoice[b].status)}) = 0
        BY <3>1, FS_EmptySet, Zenon
      <4>2. BillCents * 0 = 0
        BY SupplierAssumption
      <4>3. QED BY <4>1, <4>2 DEF Actuals
    <3>3. Estimated(j) = 0
      BY <1>2 DEF Estimated, IsOpen
    <3>4. QED BY <1>2, <3>2, <3>3, BilledIsActual DEF JobCost
  <2>2. QED BY <2>1 DEF CostIsRight
<1>13. ClaimsAreCounted
  <2>1. ASSUME NEW m \in Mail PROVE StartsPay(m) /\ MailIsClaimed(m)
    <3>1. /\ Mailers(m) = {} /\ Claimers(m) = {} /\ Creditors(m) = {} /\ HasMailed(m) = {}
          /\ Overages(m) = {} /\ Sent(m) = {} /\ Credits(m) = {}
      BY <1>3, <1>7, SupplierAssumption DEF Mailers, Claimers, Creditors, HasMailed, Overages, Sent, Credits, Actors,
            Mail, WillMail, WillClaim, WillCredit
    <3>2. ToCome(m) = 1
      BY <1>7 DEF ToCome, Early
    <3>3. told[m].mailed = 0 /\ told[m].again = 0 /\ told[m].unclaimed = 0
      BY <1>2
    <3>4. Cardinality({}) = 0
      BY FS_EmptySet
    <3>5. QED BY <3>1, <3>2, <3>3, <3>4 DEF StartsPay, MailIsClaimed
  <2>2. QED BY <2>1 DEF ClaimsAreCounted
<1>14. ReturnsAreChasedOnce
  <2>1. ASSUME NEW j \in Jobs PROVE ChaseIsCounted(j)
    <3>1. Chases(j) = {} /\ Chasers(j) = {}
      BY <1>3, <1>7 DEF Chases, Chasers, InReturn, Actors
    <3>2. Cardinality({}) = 0 /\ matReturn[j].claim = 0 /\ rolled[j] = 0
      BY <1>2, FS_EmptySet
    <3>3. QED BY <3>1, <3>2 DEF ChaseIsCounted
  <2>2. QED BY <2>1, ChasesAreCounted
<1>15. Cardinality(LeftOf(agentRun, OwnedByNotes)) <= faults
  <2>1. LeftOf(agentRun, OwnedByNotes) = {}
    BY <1>3 DEF LeftOf
  <2>2. Cardinality(LeftOf(agentRun, OwnedByNotes)) = 0
    BY <2>1, FS_EmptySet, Zenon
  <2>3. QED BY <1>2, <2>2
<1>16. QED BY <1>6, <1>8, <1>9, <1>10, <1>11, <1>12, <1>13, <1>14, <1>15 DEF SuppliersInductive

\* Whose turn it is: every step of the specification but the reaper's leaves the rows alone,
\* opens one or closes the one it holds.
LEMMA ParseStepKeeps ==
  ASSUME SuppliersInductive, NEW m \in Mail, Ingest(m) \/ ParseStep(m) \/ ParseThrows(m) \/ ParseDies(m)
  PROVE  SuppliersInductive' /\ UNCHANGED agentRun
<1>1. SuppliersInductive'
  BY IngestKeeps, StartParseKeeps, MatchJobKeeps, SaveParsedKeeps, SumActualsKeeps, SumOrdersKeeps, WriteCostKeeps,
     RecordParsedKeeps, EmitParsedKeeps, RecordSentKeeps, ParseThrowsKeeps, ParseDiesKeeps DEF ParseStep
<1>2. UNCHANGED agentRun
  BY DEF ParseStep, Ingest, StartParse, MatchJob, SaveParsed, SumActuals, SumOrders, WriteCost, RecordParsed,
     EmitParsed, RecordSent, ParseThrows, ParseDies, runVars
<1>3. QED BY <1>1, <1>2

LEMMA ActorStepKeeps ==
  ASSUME SuppliersInductive, NEW g \in Actors, GuardStep(g)
  PROVE  SuppliersInductive' /\ (UNCHANGED agentRun \/ BeginNote(g) \/ FinishNote(g))
<1>1. SuppliersInductive'
  BY LoadInvoiceKeeps, SaveGuardedKeeps, EmailSupplierKeeps, CreateClaimKeeps, BeginNoteKeeps, FinishNoteKeeps,
     RecordGuardedKeeps, ListOpenKeeps, CreditClaimKeeps, RecordRecoveredKeeps, ReconcileKeeps, InsertReturnKeeps,
     ChaseReturnKeeps, CommitReturnKeeps DEF GuardStep
<1>2. UNCHANGED agentRun \/ BeginNote(g) \/ FinishNote(g)
  BY DEF GuardStep, LoadInvoice, SaveGuarded, EmailSupplier, CreateClaim, RecordGuarded, ListOpen, CreditClaim,
     RecordRecovered, Reconcile, InsertReturn, ChaseReturn, CommitReturn, runVars
<1>3. QED BY <1>1, <1>2

LEMMA ActorFaultKeeps ==
  ASSUME SuppliersInductive, NEW g \in Actors,
         \/ ReconcileThrows(g) \/ GuardDies(g)
         \/ g \in Guards /\ (GuardThrows(g) \/ RecoverThrows(g))
         \/ g \in Guards /\ \E m \in Mail : StartGuard(g, m)
         \/ g \in Desks /\ \E j \in Jobs : LogLeftover(g, j)
  PROVE  SuppliersInductive' /\ UNCHANGED agentRun
<1>1. g \in Guards \/ g \in Desks
  BY DEF Actors
<1>2. SuppliersInductive'
  BY <1>1, ReconcileThrowsKeeps, DeskDiesKeeps, GuardDiesKeeps, GuardThrowsKeeps, RecoverThrowsKeeps,
     StartGuardKeeps, LogLeftoverKeeps
<1>3. UNCHANGED agentRun
  BY DEF ReconcileThrows, GuardDies, GuardThrows, RecoverThrows, StartGuard, LogLeftover, runVars
<1>4. QED BY <1>2, <1>3

LEMMA NotesWritten ==
  ASSUME SuppliersInductive, NEW g \in Actors, UNCHANGED agentRun \/ BeginNote(g) \/ FinishNote(g)
  PROVE  EndsStand(Closing \cup NotesClosing)
<1>1. SupplierTypeOK /\ agentRun \in Seq(RunStatus) /\ GuardIsLinked(g)
  BY ActorFacts, TypesOf
<1>2. CASE UNCHANGED agentRun
  BY <1>2 DEF EndsStand
<1>3. CASE BeginNote(g)
  BY <1>1, <1>3, RowsWritten DEF BeginNote, EndsStand
<1>4. CASE FinishNote(g)
  <2> DEFINE r == guard[g].row
             s == NoteOf(g)
  <2>1. guard[g].pc = "finish" /\ g \in Guards /\ agentRun' = Closed(r, s)
    BY <1>4, ActorFacts, Places DEF FinishNote
  <2>2. r \in DOMAIN agentRun /\ agentRun[r] \in {"running", "timed_out"} /\ r \in Nat /\ s \in RunStatus
    <3>1. r \in DOMAIN agentRun /\ agentRun[r] \in {"running", "timed_out"}
      BY <1>1, <2>1 DEF GuardIsLinked, Closable
    <3>2. QED BY <1>1, <3>1, RowsWritten DEF NoteOf, RunStatus
  <2>3. <<r, s>> \in NotesClosing
    BY <2>1 DEF NotesClosing
  <2> HIDE DEF r, s
  <2>4. \A q \in DOMAIN agentRun : agentRun'[q] = IF q = r THEN s ELSE agentRun[q]
    BY <1>1, <2>1, <2>2, RowsWritten, ZenonT(30)
  <2>5. QED BY <2>2, <2>3, <2>4 DEF EndsStand
<1>5. QED BY <1>2, <1>3, <1>4

LEMMA SupplierStepKeeps ==
  ASSUME SuppliersInductive, SupplierNext
  PROVE  SuppliersInductive' /\ EndsStand(Closing \cup NotesClosing)
<1>1. CASE \E j \in Jobs : AdvanceOrder(j) \/ ResolveReturn(j)
  <2>1. PICK j \in Jobs : AdvanceOrder(j) \/ ResolveReturn(j)
    BY <1>1
  <2>2. SuppliersInductive'
    BY <2>1, AdvanceOrderKeeps, ResolveReturnKeeps
  <2>3. UNCHANGED agentRun
    BY <2>1 DEF AdvanceOrder, ResolveReturn, runVars
  <2>4. QED BY <2>2, <2>3 DEF EndsStand
<1>2. CASE \E m \in Mail : Ingest(m) \/ ParseStep(m) \/ ParseThrows(m) \/ ParseDies(m)
  BY <1>2, ParseStepKeeps DEF EndsStand
<1>3. CASE \E g \in Actors : GuardStep(g)
  BY <1>3, ActorStepKeeps, NotesWritten
<1>4. CASE \E g \in Actors : \/ ReconcileThrows(g) \/ GuardDies(g)
                             \/ g \in Guards /\ (GuardThrows(g) \/ RecoverThrows(g))
                             \/ g \in Guards /\ \E m \in Mail : StartGuard(g, m)
                             \/ g \in Desks /\ \E j \in Jobs : LogLeftover(g, j)
  BY <1>4, ActorFaultKeeps DEF EndsStand
<1>5. CASE ReapRuns
  BY <1>5, ReapRunsKeeps
<1>6. QED BY <1>1, <1>2, <1>3, <1>4, <1>5 DEF SupplierNext, TakeParsed, Actors

LEMMA SuppliersRest == ASSUME SuppliersInductive, UNCHANGED supplierVars PROVE SuppliersInductive'
<1>1. /\ SupplierTypeOK /\ GuardsAreLinked /\ NotesApart /\ ReturnsApart /\ NoReturnNoClaim
      /\ ParsesAreLinked /\ CostIsRight
      /\ ClaimsAreCounted /\ CreditsHaveMemos /\ ReturnsAreChasedOnce
      /\ NobodyWorks /\ Cardinality(LeftOf(agentRun, OwnedByNotes)) <= faults
  BY DEF SuppliersInductive
<1>2. /\ UNCHANGED <<agentRun, work, faults, invoice, order, cost, stale, taken, parse, parsed, guard, claims,
                     leftover, matReturn, rolled, told>>
  BY DEF supplierVars, runVars, mailVars, costVars, parseVars, returnVars
<1>3. SupplierTypeOK' /\ faults' \in 0..MaxFaults /\ faults' >= faults
  BY <1>1, <1>2, TypesOf DEF SupplierTypeOK, RunTypeOK
<1>4. InvoicesStand /\ \A m \in Mail : Taken(m)' => Taken(m)
  BY <1>2 DEF InvoicesStand, Taken
<1>5. ParsesAreLinked' /\ CostIsRight'
  BY <1>1, <1>2, <1>4, ParsesStand, CostStands DEF costVars
<1>6. \A m \in Mail : TellsNoMail(m)
  <2>1. ASSUME NEW m \in Mail PROVE TellsNoMail(m)
    <3>1. Early(m)' = Early(m) /\ Early(m) \in {0, 1} /\ told' = told /\ told[m].again \in Nat
      BY <1>1, <1>2, TypesOf, ToldFields DEF Early
    <3>2. Early(m)' <= Early(m) + told'[m].again - told[m].again
      BY <3>1
    <3>3. told' \in [Mail -> ToldRow] /\ parsed' = parsed
      BY <1>2, <1>3 DEF SupplierTypeOK
    <3>4. QED BY <3>1, <3>2, <3>3, QuietTells
  <2>2. QED BY <2>1
<1>7. QED BY <1>2, <1>3, <1>5, <1>6, RestKeeps DEF SupplierTypeOK, returnVars

LEMMA SuppliersKept == SupplierSpec => []SuppliersInductive
<1>1. SuppliersInductive /\ [SupplierNext]_supplierVars => SuppliersInductive'
  BY SupplierStepKeeps, SuppliersRest
<1>2. QED BY <1>1, SupplierInitHolds, PTL DEF SupplierSpec

LEMMA SuppliersPromise == SuppliersInductive => SuppliersInv
<1> SUFFICES ASSUME SuppliersInductive PROVE SuppliersInv
  OBVIOUS
<1>1. /\ SupplierTypeOK /\ NotesApart /\ ClaimsAreCounted /\ CreditsHaveMemos /\ ReturnsAreChasedOnce /\ CostIsRight
      /\ NobodyWorks /\ Cardinality(LeftOf(agentRun, OwnedByNotes)) <= faults
  BY DEF SuppliersInductive
<1>2. ASSUME NEW m \in Mail
      PROVE  /\ told[m].mailed <= 1 + told[m].again /\ Cardinality(Overages(m)) <= 1 + told[m].again
             /\ Cardinality(Credits(m)) <= 1 + told[m].again
  <2> DEFINE a == Cardinality(Mailers(m))
             b == Cardinality(Claimers(m))
             c == Cardinality(Creditors(m))
             o == Cardinality(Overages(m))
             k == Cardinality(Credits(m))
             t == told[m]
             f == ToCome(m)
  <2>1. a \in Nat /\ b \in Nat /\ c \in Nat
    <3>1. IsFiniteSet(Guards)
      BY FiniteActors
    <3>2. Mailers(m) \subseteq Guards /\ Claimers(m) \subseteq Guards /\ Creditors(m) \subseteq Guards
      BY DEF Mailers, Claimers, Creditors
    <3>3. IsFiniteSet(Mailers(m)) /\ IsFiniteSet(Claimers(m)) /\ IsFiniteSet(Creditors(m))
      BY <3>1, <3>2, FS_Subset
    <3>4. QED BY <3>3, FS_CardinalityType
  <2>2. o \in Nat /\ k \in Nat
    BY <1>1, TypesOf, ClaimCounts
  <2>3. t.mailed \in Nat /\ t.again \in Nat
    BY <1>1, TypesOf, ToldFields
  <2>4. f \in Nat
    BY <1>1, TypesOf DEF ToCome, Early
  <2>5. t.mailed + a + f <= 1 + t.again /\ o + b + f <= 1 + t.again /\ k + c + f <= 1 + t.again
    BY <1>1 DEF ClaimsAreCounted, StartsPay
  <2> HIDE DEF a, b, c, o, k, t, f
  <2>6. t.mailed <= 1 + t.again /\ o <= 1 + t.again /\ k <= 1 + t.again
    BY <2>1, <2>2, <2>3, <2>4, <2>5
  <2>7. QED BY <2>6 DEF o, k, t
<1>3. ClaimsAreMailed
  <2>1. \A b \in Bills : MailIsClaimed(b) /\ b \in Mail
    BY <1>1 DEF ClaimsAreCounted, Mail
  <2>2. QED BY <1>2, <2>1 DEF ClaimsAreMailed, MailIsClaimed, Sent, HasMailed
<1>4. MemosCreditOnce
  <2>1. \A m \in Memos : Cardinality({c \in DOMAIN claims : m \in claims[c].by}) <= 1 + told[m].again
    BY <1>2 DEF Credits, Mail
  <2>2. QED BY <1>1, <2>1 DEF MemosCreditOnce, CreditsHaveMemos
<1>5. RunningIsOwned(Closing \cup NotesClosing)
  <2>1. Closing = {}
    BY <1>1 DEF Closing, NobodyWorks, Busy
  <2>2. LeftOf(agentRun, OwnedByNotes)
          = {r \in DOMAIN agentRun : agentRun[r] = "running" /\ \A c \in Closing \cup NotesClosing : c[1] # r}
    <3>1. ASSUME NEW r PROVE r \in OwnedByNotes <=> \E c \in NotesClosing : c[1] = r
      <4>1. ASSUME r \in OwnedByNotes PROVE \E c \in NotesClosing : c[1] = r
        <5>1. PICK g \in Guards : guard[g].pc = "finish" /\ guard[g].row = r
          BY <4>1 DEF OwnedByNotes
        <5>2. <<guard[g].row, NoteOf(g)>> \in NotesClosing
          BY <5>1 DEF NotesClosing
        <5>3. QED BY <5>1, <5>2
      <4>2. QED BY <4>1 DEF OwnedByNotes, NotesClosing
    <3>2. QED BY <2>1, <3>1 DEF LeftOf
  <2>3. \A c, d \in NotesClosing : c[1] = d[1] => c = d
    BY <1>1 DEF NotesClosing, NotesApart
  <2>4. QED BY <1>1, <2>1, <2>2, <2>3 DEF RunningIsOwned
<1>6. QED BY <1>1, <1>3, <1>4, <1>5 DEF SuppliersInv

(* For any number of bills, memos, jobs, guards, desks and faults a job's cost is its bills' or   *)
(* its order's unless something is known to have left it behind, claims, e-mails, memos and       *)
(* returns account for one another, and a fault alone leaves a row of a run open                  *)
(* (supplier-invoice-parse.ts, supplier-invoice-guard.ts, material-order.ts, materials-reconcile.ts). *)
THEOREM SuppliersHold == SupplierSpec => []SuppliersInv
BY SuppliersKept, SuppliersPromise, PTL

(* An end of a guard's row stands, but for a row reaped while the guard was only slow.            *)
THEOREM NotesEndOnce == SupplierSpec => RunsEndOnce
<1>1. SuppliersInductive /\ [SupplierNext]_supplierVars => [EndsStand(Closing \cup NotesClosing)]_supplierVars
  BY SupplierStepKeeps
<1>2. QED BY <1>1, SuppliersKept, PTL DEF SupplierSpec, RunsEndOnce

=============================================================================
