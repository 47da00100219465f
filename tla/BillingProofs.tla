--------------------------- MODULE BillingProofs ---------------------------
(***************************************************************************)
(* Proofs about what is billed beside the invoices of a roof.              *)
(*   ChangeOrders  for any orders, runs and attempts: the contract value   *)
(*                 is the sum of the deltas applied, by the lemmas about   *)
(*                 sums over finite sets that come first; the rest follows *)
(*                 from what the place of a run says of it.                *)
(*   CertRequests  for any requests, bookings and deaths: the inductive    *)
(*                 invariant is kept by what people do, by each step of    *)
(*                 the sweep and of a delivery, and by an early end at any *)
(*                 of them.                                                *)
(***************************************************************************)
EXTENDS ChangeOrders, CertRequests, FiniteSetTheorems, WellFoundedInduction, TLAPS

-----------------------------------------------------------------------------
(* Sums over a finite set.  A family of subsets of a finite set that is not *)
(* empty has a member no part of which is in it: what holds of a set when it *)
(* holds of its parts holds of every subset.                               *)

\* The element a fold takes away first.
First(s) == CHOOSE x \in s : TRUE

\* g gives for each subset of S the sum of f over it, on top of b, in the order of a fold.
Adds(g, f, b, S) ==
    \A s \in SUBSET S : g[s] = IF s = {} THEN b ELSE g[s \ {First(s)}] + f[First(s)]

Sums(f, b, S) ==
    CHOOSE g : g = [s \in SUBSET S |-> IF s = {} THEN b ELSE g[s \ {First(s)}] + f[First(s)]]

LEMMA LeastNumber ==
    ASSUME NEW T \in SUBSET Nat, T # {}
    PROVE  \E n \in T : \A m \in T : n <= m
<1>1. PICK n \in T : \A m \in T : ~(<<m, n>> \in OpToRel(<, Nat))
    BY WFMin, NatLessThanWellFounded
<1>2. \A m \in T : ~(m < n) BY <1>1 DEF OpToRel
<1> QED BY <1>2

LEMMA SmallestSet ==
    ASSUME NEW S, IsFiniteSet(S), NEW T \in SUBSET (SUBSET S), T # {}
    PROVE  \E s \in T : /\ IsFiniteSet(s)
                        /\ \A t \in SUBSET s : t # s => t \notin T
<1> DEFINE N == {Cardinality(s) : s \in T}
<1>1. \A s \in T : IsFiniteSet(s) /\ Cardinality(s) \in Nat
    BY FS_Subset, FS_CardinalityType
<1>2. N \in SUBSET Nat /\ N # {} BY <1>1
<1>3. PICK n \in N : \A m \in N : n <= m
    <2> HIDE DEF N
    <2> QED BY <1>2, LeastNumber
<1>4. PICK s \in T : n = Cardinality(s) OBVIOUS
<1>5. ASSUME NEW t \in SUBSET s, t # s, t \in T PROVE FALSE
    <2>1. Cardinality(t) <= Cardinality(s) /\ Cardinality(t) # Cardinality(s)
        BY <1>1, <1>5, FS_Subset
    <2>2. Cardinality(t) \in N BY <1>5
    <2> QED BY <2>1, <2>2, <1>3, <1>4, <1>5, <1>1
<1> QED BY <1>1, <1>5

LEMMA FirstIn == ASSUME NEW s, s # {} PROVE First(s) \in s
BY DEF First

\* Sums of integers are integers, whichever element is taken away first.
LEMMA AnyOrder ==
    ASSUME NEW S, IsFiniteSet(S), NEW f, \A x \in S : f[x] \in Int, NEW b \in Int,
           NEW g, Adds(g, f, b, S)
    PROVE  \A s \in SUBSET S : g[s] \in Int /\ \A x \in s : g[s] = g[s \ {x}] + f[x]
<1> DEFINE Good(s) == g[s] \in Int /\ \A x \in s : g[s] = g[s \ {x}] + f[x]
<1> DEFINE T == {s \in SUBSET S : ~Good(s)}
<1> SUFFICES ASSUME T # {} PROVE FALSE OBVIOUS
<1>1. PICK s \in T : IsFiniteSet(s) /\ \A t \in SUBSET s : t # s => t \notin T
    <2> T \in SUBSET (SUBSET S) OBVIOUS
    <2> HIDE DEF T
    <2> QED BY SmallestSet
<1>2. \A t \in SUBSET s : t # s => Good(t)
    <2> HIDE DEF Good
    <2> QED BY <1>1
<1>3. CASE s = {} BY <1>3 DEF Adds
<1>4. CASE s # {}
    <2> DEFINE y == First(s)
    <2>1. y \in s /\ f[y] \in Int BY <1>4, FirstIn
    <2>2. g[s] = g[s \ {y}] + f[y] BY <1>4 DEF Adds
    <2>3. g[s \ {y}] \in Int
        <3> s \ {y} \in SUBSET s /\ s \ {y} # s BY <2>1
        <3> QED BY <1>2
    <2>4. ASSUME NEW x \in s PROVE g[s] = g[s \ {x}] + f[x]
        <3>1. CASE x = y BY <3>1, <2>2
        <3>2. CASE x # y
            <4> DEFINE c == g[(s \ {x}) \ {y}]
            <4>1. g[s \ {y}] = g[(s \ {y}) \ {x}] + f[x] BY <1>2, <2>1, <3>2
            <4>2. g[s \ {x}] = c + f[y] BY <1>2, <2>1, <3>2
            <4>3. (s \ {y}) \ {x} = (s \ {x}) \ {y} OBVIOUS
            <4>4. g[s \ {y}] = c + f[x] BY <4>1, <4>3
            <4>5. f[x] \in Int /\ c \in Int BY <1>2
            <4> HIDE DEF y, c
            <4> QED BY <2>1, <2>2, <4>2, <4>4, <4>5
        <3> QED BY <3>1, <3>2
    <2> HIDE DEF y
    <2> QED BY <2>1, <2>2, <2>3, <2>4
<1> QED BY <1>3, <1>4

\* Two families of sums of the same things agree where both say something.
LEMMA OneSum ==
    ASSUME NEW B, IsFiniteSet(B), NEW Q, B \subseteq Q, NEW R, B \subseteq R, NEW b, NEW e, NEW f,
           \A x \in B : e[x] = f[x], NEW g, Adds(g, e, b, Q), NEW h, Adds(h, f, b, R)
    PROVE  g[B] = h[B]
<1> DEFINE T == {s \in SUBSET B : g[s] # h[s]}
<1> SUFFICES ASSUME T # {} PROVE FALSE OBVIOUS
<1>1. PICK s \in T : IsFiniteSet(s) /\ \A t \in SUBSET s : t # s => t \notin T
    <2> T \in SUBSET (SUBSET B) OBVIOUS
    <2> HIDE DEF T
    <2> QED BY SmallestSet
<1>2. CASE s = {} BY <1>2 DEF Adds
<1>3. CASE s # {}
    <2> DEFINE y == First(s)
    <2>1. y \in s BY <1>3, FirstIn
    <2>2. g[s] = g[s \ {y}] + e[y] /\ h[s] = h[s \ {y}] + f[y] BY <1>3 DEF Adds
    <2>3. s \ {y} \in SUBSET s /\ s \ {y} # s BY <2>1
    <2>4. g[s \ {y}] = h[s \ {y}] BY <2>3, <1>1
    <2> HIDE DEF y
    <2> QED BY <2>1, <2>2, <2>4
<1> QED BY <1>2, <1>3

\* A finite set has sums: were there a set without, the sums of its parts would give it one.
LEMMA SumsExist ==
    ASSUME NEW S, IsFiniteSet(S), NEW f, NEW b
    PROVE  Adds(Sums(f, b, S), f, b, S)
<1> DEFINE Then(g, s) == IF s = {} THEN b ELSE g[s \ {First(s)}] + f[First(s)]
<1> DEFINE Upto(t) == \E g : g = [s \in SUBSET t |-> Then(g, s)]
<1>1. ASSUME NEW t, Upto(t) PROVE Adds(Sums(f, b, t), f, b, t)
    <2>1. Sums(f, b, t) = [s \in SUBSET t |-> Then(Sums(f, b, t), s)]
        BY <1>1 DEF Sums
    <2> DEFINE g == Sums(f, b, t)
    <2>2. \A s \in SUBSET t : g[s] = Then(g, s)
        <3> HIDE DEF g, Then
        <3>1. g = [s \in SUBSET t |-> Then(g, s)] BY <2>1 DEF g
        <3> QED BY <3>1
    <2> QED BY <2>2 DEF Adds
<1>2. Upto(S)
    <2> DEFINE T == {t \in SUBSET S : ~Upto(t)}
    <2> SUFFICES ASSUME T # {} PROVE FALSE OBVIOUS
    <2>1. PICK s \in T : IsFiniteSet(s) /\ \A t \in SUBSET s : t # s => t \notin T
        <3> T \in SUBSET (SUBSET S) OBVIOUS
        <3> HIDE DEF T
        <3> QED BY SmallestSet
    <2> HIDE DEF Upto
    <2>2. \A t \in SUBSET s : t # s => Adds(Sums(f, b, t), f, b, t) BY <2>1, <1>1
    <2> DEFINE y == First(s)
    <2> DEFINE own(q) == Sums(f, b, q)[q]
    <2> DEFINE h == [q \in SUBSET s |-> IF q # s THEN own(q)
                        ELSE IF s = {} THEN b ELSE own(s \ {y}) + f[y]]
    <2>3. ASSUME NEW q \in SUBSET s, q # s, q # {}
          PROVE  own(q) = own(q \ {First(q)}) + f[First(q)]
        <3> DEFINE p == q \ {First(q)}
        <3>1. First(q) \in q BY <2>3, FirstIn
        <3>2. p \in SUBSET q /\ p # s /\ p \in SUBSET s BY <3>1, <2>3
        <3>3. own(q) = Sums(f, b, q)[p] + f[First(q)] BY <2>2, <2>3 DEF Adds
        <3>4. IsFiniteSet(p) BY <2>1, <3>2, FS_Subset
        <3>5. Adds(Sums(f, b, q), f, b, q) /\ Adds(Sums(f, b, p), f, b, p) BY <2>2, <2>3, <3>2
        <3> HIDE DEF p
        <3>6. Sums(f, b, q)[p] = Sums(f, b, p)[p]
            <4> DEFINE g1 == Sums(f, b, q)
            <4> DEFINE g2 == Sums(f, b, p)
            <4> HIDE DEF g1, g2
            <4>1. Adds(g1, f, b, q) /\ Adds(g2, f, b, p) BY <3>5 DEF g1, g2
            <4>2. g1[p] = g2[p] BY <4>1, <3>2, <3>4, OneSum
            <4> QED BY <4>2 DEF g1, g2
        <3> QED BY <3>3, <3>6 DEF p
    <2>4. ASSUME NEW q \in SUBSET s PROVE h[q] = Then(h, q)
        <3>1. CASE q # s /\ q = {}
            <4>1. Adds(Sums(f, b, q), f, b, q) BY <2>2, <3>1
            <4> QED BY <4>1, <3>1 DEF Adds
        <3>2. CASE q # s /\ q # {}
            <4>1. First(q) \in q BY <3>2, FirstIn
            <4>2. q \ {First(q)} # s BY <4>1
            <4>3. h[q] = own(q) BY <3>2
            <4>4. h[q \ {First(q)}] = own(q \ {First(q)}) BY <4>2
            <4> HIDE DEF h, own
            <4> QED BY <4>3, <4>4, <2>3, <3>2
        <3>3. CASE q = s /\ s = {} BY <3>3
        <3>4. CASE q = s /\ s # {}
            <4>1. y \in s BY <3>4, FirstIn
            <4>2. s \ {y} # s BY <4>1
            <4>3. h[q] = own(s \ {y}) + f[y] BY <3>4
            <4>4. h[s \ {y}] = own(s \ {y}) BY <4>2
            <4> HIDE DEF h, own
            <4> QED BY <4>3, <4>4, <3>4
        <3> QED BY <3>1, <3>2, <3>3, <3>4
    <2>5. h = [q \in SUBSET s |-> Then(h, q)]
        <3>1. h = [q \in SUBSET s |-> h[q]] OBVIOUS
        <3> HIDE DEF h, Then
        <3> QED BY <2>4, <3>1
    <2>6. Upto(s)
        <3> HIDE DEF h, Then
        <3> QED BY <2>5 DEF Upto
    <2> QED BY <2>6
<1> QED BY <1>1, <1>2

-----------------------------------------------------------------------------
(* The inductive invariant of a change order.                              *)

SignedFor(o) == \E s \in Submissions : signing[s].order = o /\ Completed(s)

\* Every approval, event and run of an order goes back to a signature on it.
SigningIsLinked ==
    /\ \A s \in Submissions : signing[s].phase # "unused" => signing[s].order \in Orders
    /\ \A d \in Deliveries : delivery[d].pc \in {"flip", "emit"} => SignedFor(delivery[d].order)
    /\ \A e \in accepted : SignedFor(e[1])
    /\ \A r \in Runs : run[r].pc # "idle" => SignedFor(run[r].order)

Applying == {"idle", "apply", "write", "logApplied"}
Paying   == {"checkout", "store", "logSent", "enroll"}

\* What a run's place says: it writes what it has not written yet, holds an invoice from the
\* numbering on, and is before a numbering it has done only if one of its steps failed.
RunIsSound(r) ==
    /\ run[r].pc \in {"idle", "write"} => ~run[r].bumped
    /\ run[r].pc # "failed" => run[r].tries < MaxAttempts
    /\ run[r].pc \in Paying \cup {"number"} => run[r].invoice \in Runs
    /\ run[r].pc \in Paying => run[r].numbered
    /\ run[r].pc \in {"logSent", "enroll"} => supplement[run[r].invoice].checkout
    /\ run[r].numbered =>
          /\ run[r].pc \notin Applying
          /\ run[r].invoice \in Runs
          /\ supplement[run[r].invoice].status \in {"sent", "void"}
          /\ run[r].pc \in {"load", "number"} => run[r].stumbled

ChangeOrdersInductive ==
    /\ ChangeOrdersTypeOK /\ SigningIsLinked /\ AppliedWasSigned
    /\ BilledIsApplied /\ NumberedOnce /\ EnrolledWasSent /\ GapOnlyAfterFailure
    /\ \A r \in Runs : RunIsSound(r)
    /\ ValueIsSumOfDeltas

-----------------------------------------------------------------------------
(* The contract value.                                                     *)

\* The sum of the totals of the runs of B, on top of the estimate.
Value(B) == Sums([r \in B |-> run[r].total], ValueEstimate, B)[B]

LEMMA ValueIsSum ==
    ValueIsSumOfDeltas <=> IF Bumps = {} THEN valueFinal = None ELSE valueFinal = Value(Bumps)
<1>1. FoldSet(LAMBDA r, sum : sum + run[r].total, ValueEstimate, Bumps) = Value(Bumps)
    BY DEF Value, FoldSet, MapThenFoldSet, Sums, First
<1> QED BY <1>1 DEF ValueIsSumOfDeltas

LEMMA NextValueIsSum ==
    ValueIsSumOfDeltas' <=> IF Bumps' = {} THEN valueFinal' = None ELSE valueFinal' = Value(Bumps)'
<1>1. FoldSet(LAMBDA r, sum : sum + run[r].total, ValueEstimate, Bumps)' = Value(Bumps)'
    BY DEF Value, FoldSet, MapThenFoldSet, Sums, First
<1> QED BY <1>1 DEF ValueIsSumOfDeltas

\* A sum is kept while its terms are, and grows by the term that is added.
LEMMA SumKept ==
    ASSUME NEW B, IsFiniteSet(B), NEW b, NEW e, NEW f, \A x \in B : e[x] = f[x]
    PROVE  Sums(e, b, B)[B] = Sums(f, b, B)[B]
<1> DEFINE g == Sums(e, b, B)
<1> DEFINE h == Sums(f, b, B)
<1>1. Adds(g, e, b, B) /\ Adds(h, f, b, B) BY SumsExist
<1> HIDE DEF g, h
<1>2. g[B] = h[B] BY <1>1, OneSum
<1> QED BY <1>2 DEF g, h

LEMMA SumOfNone == ASSUME NEW b, NEW e PROVE Sums(e, b, {})[{}] = b
<1>1. Adds(Sums(e, b, {}), e, b, {}) BY FS_EmptySet, SumsExist
<1> QED BY <1>1 DEF Adds

LEMMA SumIsNumber ==
    ASSUME NEW B, IsFiniteSet(B), NEW b \in Int, NEW e, \A y \in B : e[y] \in Int
    PROVE  Sums(e, b, B)[B] \in Int
<1> DEFINE g == Sums(e, b, B)
<1>1. Adds(g, e, b, B) BY SumsExist
<1> HIDE DEF g
<1>2. g[B] \in Int BY <1>1, AnyOrder
<1> QED BY <1>2 DEF g

LEMMA SumGrows ==
    ASSUME NEW B, IsFiniteSet(B), NEW b \in Int, NEW x, x \notin B, NEW C, C = B \cup {x},
           NEW e, NEW f, \A y \in C : f[y] \in Int, \A y \in B : e[y] = f[y]
    PROVE  Sums(f, b, C)[C] = Sums(e, b, B)[B] + f[x]
<1> DEFINE g == Sums(e, b, B)
<1> DEFINE h == Sums(f, b, C)
<1>1. IsFiniteSet(C) BY FS_AddElement
<1>2. Adds(g, e, b, B) /\ Adds(h, f, b, C) BY <1>1, SumsExist
<1>3. C \ {x} = B /\ x \in C /\ B \subseteq C OBVIOUS
<1> HIDE DEF g, h
<1>4. h[C] = h[C \ {x}] + f[x] BY <1>1, <1>2, <1>3, AnyOrder
<1>5. g[B] = h[B] BY <1>2, <1>3, OneSum
<1>6. h[C] = g[B] + f[x] BY <1>3, <1>4, <1>5
<1> QED BY <1>6 DEF g, h

LEMMA BumpsAreFinite == IsFiniteSet(Bumps)
BY RunsAssumption, FS_Subset DEF Bumps

\* While nothing is applied, and what an applied run carries stays, the value is the sum.
LEMMA ValueStays ==
    ASSUME ValueIsSumOfDeltas, valueFinal' = valueFinal,
           \A r \in Runs : /\ run'[r].bumped = run[r].bumped
                           /\ run[r].bumped => run'[r].total = run[r].total
    PROVE  ValueIsSumOfDeltas'
<1> DEFINE B == Bumps
<1>1. Bumps' = B BY DEF Bumps
<1>2. \A r \in B : run'[r].total = run[r].total BY DEF Bumps
<1>3. Value(Bumps)' = Sums([r \in B |-> run'[r].total], ValueEstimate, B)[B] BY <1>1 DEF Value
<1>4. Value(Bumps) = Sums([r \in B |-> run[r].total], ValueEstimate, B)[B] BY DEF Value
<1>5. IsFiniteSet(B) BY BumpsAreFinite
<1> HIDE DEF B
<1>6. Value(Bumps)' = Value(Bumps) BY <1>2, <1>3, <1>4, <1>5, SumKept
<1> QED BY <1>1, <1>6, ValueIsSum, NextValueIsSum DEF B

LEMMA TotalsAreNumbers == ASSUME ChangeOrdersTypeOK PROVE \A r \in Runs : run[r].total \in Int
<1> TAKE r \in Runs
<1>1. run[r] \in RunRow BY DEF ChangeOrdersTypeOK
<1>2. PICK t \in Totals \cup {0} : t = run[r].total BY <1>1 DEF RunRow
<1>3. t \in Int BY TotalsAssumption
<1> QED BY <1>2, <1>3

\* Applying one order more adds its delta to the sum.
LEMMA ValueGrows ==
    ASSUME ChangeOrdersTypeOK, ValueIsSumOfDeltas, NEW r \in Runs, ~run[r].bumped,
           valueFinal' = Bumped(run[r].total), run'[r].bumped,
           \A q \in Runs : /\ run'[q].total = run[q].total
                           /\ q # r => run'[q].bumped = run[q].bumped
    PROVE  ValueIsSumOfDeltas'
<1> DEFINE B == Bumps
<1> DEFINE e == [q \in B |-> run[q].total]
<1> DEFINE C == B \cup {r}
<1> DEFINE f == [q \in C |-> run'[q].total]
<1>1. Bumps' = C /\ r \notin B /\ B \subseteq Runs BY DEF Bumps
<1>2. \A q \in Runs : run[q].total \in Int BY TotalsAreNumbers
<1>3. (\A q \in C : f[q] \in Int) /\ (\A q \in B : e[q] = f[q]) /\ f[r] = run[r].total
    BY <1>1, <1>2
<1>4. Value(Bumps)' = Sums(f, ValueEstimate, C)[C] BY <1>1 DEF Value
<1>5. Value(Bumps) = Sums(e, ValueEstimate, B)[B] BY DEF Value
<1>6. IsFiniteSet(B) /\ ValueEstimate \in Int BY BumpsAreFinite, TotalsAssumption
<1>7. (B = {} <=> Bumps = {}) /\ C = B \cup {r} /\ C # {} OBVIOUS
<1> HIDE DEF B, C, e, f
<1>8. /\ Sums(f, ValueEstimate, C)[C] = Sums(e, ValueEstimate, B)[B] + f[r]
      /\ Sums(e, ValueEstimate, B)[B] \in Int
      /\ Sums(e, ValueEstimate, {})[{}] = ValueEstimate
    <2>1. PICK D, E, u, w, t : D = B /\ E = C /\ u = e /\ w = f /\ t = ValueEstimate OBVIOUS
    <2>2. IsFiniteSet(D) /\ r \notin D /\ E = D \cup {r} /\ t \in Int BY <1>1, <1>6, <1>7, <2>1
    <2>3. /\ \A y \in E : w[y] \in Int
          /\ \A y \in D : u[y] = w[y] /\ u[y] \in Int
        BY <1>3, <1>7, <2>1
    <2>4. Sums(w, t, E)[E] = Sums(u, t, D)[D] + w[r] BY <2>2, <2>3, SumGrows
    <2>5. Sums(u, t, D)[D] \in Int BY <2>2, <2>3, SumIsNumber
    <2>6. Sums(u, t, {})[{}] = t BY SumOfNone
    <2> QED BY <2>1, <2>4, <2>5, <2>6
<1>9. CASE Bumps = {}
    <2>1. valueFinal = None BY <1>9, ValueIsSum
    <2>2. valueFinal' = ValueEstimate + run[r].total BY <2>1 DEF Bumped
    <2> QED BY <1>1, <1>3, <1>4, <1>7, <1>8, <1>9, <2>2, NextValueIsSum
<1>10. CASE Bumps # {}
    <2>1. valueFinal = Value(Bumps) BY <1>10, ValueIsSum
    <2>2. valueFinal # None BY <2>1, <1>5, <1>8, NoneAssumption
    <2>3. valueFinal' = valueFinal + run[r].total BY <2>2 DEF Bumped
    <2> QED BY <1>1, <1>3, <1>4, <1>5, <1>7, <1>8, <2>1, <2>3, NextValueIsSum
<1> QED BY <1>9, <1>10

-----------------------------------------------------------------------------
(* What people, DocuSeal and its webhook do: no run moves, nothing is      *)
(* billed, and what was applied stays applied.                             *)

\* A run that is not idle has an order, and a run that wrote is not idle.
LEMMA RunsHaveOrders ==
    ASSUME ChangeOrdersTypeOK, SigningIsLinked, NEW r \in Runs, run[r].pc # "idle"
    PROVE  run[r].order \in Orders
<1>1. PICK s \in Submissions : signing[s].order = run[r].order /\ Completed(s)
    BY DEF SigningIsLinked, SignedFor
<1> QED BY <1>1 DEF SigningIsLinked, Completed

LEMMA AppliedOrders ==
    ASSUME ChangeOrdersInductive, NEW r \in Runs, run[r].bumped
    PROVE  run[r].order \in Orders /\ order[run[r].order].applied
<1>1. run[r].pc # "idle" BY DEF ChangeOrdersInductive, RunIsSound
<1> QED BY <1>1, RunsHaveOrders DEF ChangeOrdersInductive, BilledIsApplied

LEMMA BillingStays ==
    ASSUME ChangeOrdersInductive, UNCHANGED <<valueFinal, supplement, run, dunned>>,
           \A o \in Orders : order[o].applied => order'[o].applied
    PROVE  /\ BilledIsApplied' /\ NumberedOnce' /\ EnrolledWasSent' /\ GapOnlyAfterFailure'
           /\ ValueIsSumOfDeltas'
           /\ \A r \in Runs : RunIsSound(r)'
<1> USE DEF ChangeOrdersInductive
<1>1. BilledIsApplied' BY AppliedOrders DEF BilledIsApplied
<1>2. ValueIsSumOfDeltas' BY ValueStays
<1>3. NumberedOnce' /\ EnrolledWasSent' /\ GapOnlyAfterFailure'
    BY DEF NumberedOnce, EnrolledWasSent, GapOnlyAfterFailure
<1>4. \A r \in Runs : RunIsSound(r)' BY DEF RunIsSound
<1> QED BY <1>1, <1>2, <1>3, <1>4

\* An update of a row of the order table.
LEMMA OrderSet ==
    ASSUME ChangeOrdersTypeOK, NEW o \in Orders, NEW row \in OrderRow,
           order' = [order EXCEPT ![o] = row]
    PROVE  /\ order' \in [Orders -> OrderRow]
           /\ order'[o] = row
           /\ \A k \in Orders : k # o => order'[k] = order[k]
BY DEF ChangeOrdersTypeOK

LEMMA OrderKeeps ==
    ASSUME ChangeOrdersInductive, NEW o \in Orders, NEW row \in OrderRow,
           order' = [order EXCEPT ![o] = row], row.applied = order[o].applied,
           UNCHANGED <<moneyVars, signing, accepted, run, dunned>>,
           delivery' \in [Deliveries -> DeliveryRow],
           \A d \in Deliveries : delivery'[d].pc \in {"flip", "emit"} =>
                delivery[d].pc \in {"flip", "emit"} /\ delivery'[d].order = delivery[d].order
    PROVE  ChangeOrdersInductive'
<1> USE DEF ChangeOrdersInductive, moneyVars
<1>1. /\ order' \in [Orders -> OrderRow]
      /\ \A k \in Orders : order'[k].applied = order[k].applied
    BY OrderSet
<1>2. ChangeOrdersTypeOK' BY <1>1 DEF ChangeOrdersTypeOK
<1>3. SigningIsLinked' BY DEF SigningIsLinked, SignedFor, Completed
<1>4. AppliedWasSigned' BY <1>1 DEF AppliedWasSigned
<1> QED BY <1>1, <1>2, <1>3, <1>4, BillingStays

LEMMA CreateChangeOrderKeeps ==
    ASSUME ChangeOrdersInductive, NEW o \in Orders, NEW t \in Totals, CreateChangeOrder(o, t)
    PROVE  ChangeOrdersInductive'
<1> DEFINE row == [order[o] EXCEPT !.status = "draft", !.total = t]
<1>1. order[o] \in OrderRow BY DEF ChangeOrdersInductive, ChangeOrdersTypeOK
<1>2. row \in OrderRow /\ row.applied = order[o].applied BY <1>1 DEF OrderRow, OrderStatus
<1>3. order' = [order EXCEPT ![o] = row] BY DEF CreateChangeOrder
<1>4. /\ UNCHANGED <<moneyVars, signing, accepted, run, dunned>> /\ UNCHANGED delivery
      /\ delivery \in [Deliveries -> DeliveryRow]
    BY DEF CreateChangeOrder, signVars, ChangeOrdersInductive, ChangeOrdersTypeOK
<1> HIDE DEF row
<1> QED BY <1>2, <1>3, <1>4, OrderKeeps

LEMMA EditLineItemsKeeps ==
    ASSUME ChangeOrdersInductive, NEW o \in Orders, NEW t \in Totals, EditLineItems(o, t)
    PROVE  ChangeOrdersInductive'
<1> DEFINE row == [order[o] EXCEPT !.total = t]
<1>1. order[o] \in OrderRow BY DEF ChangeOrdersInductive, ChangeOrdersTypeOK
<1>2. row \in OrderRow /\ row.applied = order[o].applied BY <1>1 DEF OrderRow
<1>3. order' = [order EXCEPT ![o] = row] BY DEF EditLineItems
<1>4. /\ UNCHANGED <<moneyVars, signing, accepted, run, dunned>> /\ UNCHANGED delivery
      /\ delivery \in [Deliveries -> DeliveryRow]
    BY DEF EditLineItems, signVars, ChangeOrdersInductive, ChangeOrdersTypeOK
<1> HIDE DEF row
<1> QED BY <1>2, <1>3, <1>4, OrderKeeps

LEMMA MarkApprovedKeeps ==
    ASSUME ChangeOrdersInductive, NEW d \in Deliveries, MarkApproved(d)
    PROVE  ChangeOrdersInductive'
<1> DEFINE o == delivery[d].order
<1> DEFINE row == [order[o] EXCEPT !.status = "approved"]
<1>1. o \in Orders
    <2>1. SignedFor(o) BY DEF MarkApproved, ChangeOrdersInductive, SigningIsLinked
    <2> QED BY <2>1 DEF SignedFor, Completed, ChangeOrdersInductive, SigningIsLinked
<1>2. order[o] \in OrderRow BY <1>1 DEF ChangeOrdersInductive, ChangeOrdersTypeOK
<1>3. row \in OrderRow /\ row.applied = order[o].applied BY <1>2 DEF OrderRow, OrderStatus
<1>4. order' = [order EXCEPT ![o] = row] BY DEF MarkApproved
<1>5. UNCHANGED <<moneyVars, signing, accepted, run, dunned>> BY DEF MarkApproved
<1>6. /\ delivery' \in [Deliveries -> DeliveryRow]
      /\ \A k \in Deliveries : delivery'[k].pc \in {"flip", "emit"} =>
            delivery[k].pc \in {"flip", "emit"} /\ delivery'[k].order = delivery[k].order
    BY DEF MarkApproved, ChangeOrdersInductive, ChangeOrdersTypeOK, DeliveryRow
<1> HIDE DEF row, o
<1> QED BY <1>1, <1>3, <1>4, <1>5, <1>6, OrderKeeps

LEMMA ConnectStripeKeeps ==
    ASSUME ChangeOrdersInductive, ConnectStripe PROVE ChangeOrdersInductive'
<1> USE DEF ChangeOrdersInductive, ConnectStripe, signVars
<1>1. ChangeOrdersTypeOK' BY DEF ChangeOrdersTypeOK
<1>2. SigningIsLinked' BY DEF SigningIsLinked, SignedFor, Completed
<1>3. AppliedWasSigned' BY DEF AppliedWasSigned
<1> QED BY <1>1, <1>2, <1>3, BillingStays

\* DocuSeal only moves a submission forward, and the order it is for never changes.
LEMMA SigningKeeps ==
    ASSUME ChangeOrdersInductive, UNCHANGED <<moneyVars, delivery, accepted, run, dunned>>,
           order' \in [Orders -> OrderRow],
           \A o \in Orders : order'[o].applied = order[o].applied,
           signing' \in [Submissions -> SigningRow],
           \A s \in Submissions :
              /\ signing'[s].phase # "unused" => signing'[s].order \in Orders
              /\ Completed(s) => signing'[s].phase = "signed" /\ signing'[s].order = signing[s].order
    PROVE  ChangeOrdersInductive'
<1> USE DEF ChangeOrdersInductive, moneyVars
<1>1. ChangeOrdersTypeOK' BY DEF ChangeOrdersTypeOK
<1>2. \A o : SignedFor(o) => SignedFor(o)' BY DEF SignedFor, Completed
<1>3. SigningIsLinked' BY <1>2 DEF SigningIsLinked
<1>4. AppliedWasSigned' BY DEF AppliedWasSigned, Completed
<1> QED BY <1>1, <1>3, <1>4, BillingStays

LEMMA RequestSignatureKeeps ==
    ASSUME ChangeOrdersInductive, NEW s \in Submissions, NEW o \in Orders, RequestSignature(s, o)
    PROVE  ChangeOrdersInductive'
<1> DEFINE row == [phase |-> "created", stored |-> FALSE, order |-> o, total |-> order[o].total]
<1>1. order[o].total \in Totals \cup {0}
    <2>1. order[o] \in OrderRow BY DEF ChangeOrdersInductive, ChangeOrdersTypeOK
    <2> QED BY <2>1 DEF OrderRow
<1>2. row \in SigningRow /\ row.order = o BY <1>1 DEF SigningRow
<1>3. signing' = [signing EXCEPT ![s] = row] BY DEF RequestSignature
<1> HIDE DEF row
<1>4. signing \in [Submissions -> SigningRow] /\ order \in [Orders -> OrderRow]
    BY DEF ChangeOrdersInductive, ChangeOrdersTypeOK
<1>5. signing[s].phase = "unused" /\ UNCHANGED <<moneyVars, order, delivery, accepted, run, dunned>>
    BY DEF RequestSignature
<1>6. signing' \in [Submissions -> SigningRow] BY <1>2, <1>3, <1>4
<1>7. \A k \in Submissions :
         /\ signing'[k].phase # "unused" => signing'[k].order \in Orders
         /\ Completed(k) => signing'[k].phase = "signed" /\ signing'[k].order = signing[k].order
    BY <1>2, <1>3, <1>4, <1>5 DEF Completed, ChangeOrdersInductive, SigningIsLinked
<1> QED BY <1>4, <1>5, <1>6, <1>7, SigningKeeps

LEMMA HomeownerSignsKeeps ==
    ASSUME ChangeOrdersInductive, NEW s \in Submissions, HomeownerSigns(s)
    PROVE  ChangeOrdersInductive'
<1>1. signing \in [Submissions -> SigningRow] /\ order \in [Orders -> OrderRow]
    BY DEF ChangeOrdersInductive, ChangeOrdersTypeOK
<1>2. UNCHANGED <<moneyVars, order, delivery, accepted, run, dunned>> BY DEF HomeownerSigns
<1>3. signing' \in [Submissions -> SigningRow] BY <1>1 DEF HomeownerSigns, SigningRow
<1>4. \A k \in Submissions :
         /\ signing'[k].phase # "unused" => signing'[k].order \in Orders
         /\ Completed(k) => signing'[k].phase = "signed" /\ signing'[k].order = signing[k].order
    BY <1>1 DEF HomeownerSigns, Completed, ChangeOrdersInductive, SigningIsLinked, SigningRow
<1> QED BY <1>1, <1>2, <1>3, <1>4, SigningKeeps

LEMMA StoreSubmissionKeeps ==
    ASSUME ChangeOrdersInductive, NEW s \in Submissions, StoreSubmission(s)
    PROVE  ChangeOrdersInductive'
<1> DEFINE o == signing[s].order
<1> DEFINE row == [order[o] EXCEPT !.status = "sent", !.submission = s]
<1>1. signing \in [Submissions -> SigningRow] /\ order \in [Orders -> OrderRow]
    BY DEF ChangeOrdersInductive, ChangeOrdersTypeOK
<1>2. o \in Orders BY DEF StoreSubmission, ChangeOrdersInductive, SigningIsLinked
<1>3. row \in OrderRow /\ row.applied = order[o].applied
    <2>1. order[o] \in OrderRow BY <1>1, <1>2
    <2> QED BY <2>1 DEF OrderRow, OrderStatus
<1>4. order' = [order EXCEPT ![o] = row] BY DEF StoreSubmission
<1>5. UNCHANGED <<moneyVars, delivery, accepted, run, dunned>> BY DEF StoreSubmission
<1>6. signing' \in [Submissions -> SigningRow] BY <1>1 DEF StoreSubmission, SigningRow
<1>7. \A k \in Submissions :
         /\ signing'[k].phase # "unused" => signing'[k].order \in Orders
         /\ Completed(k) => signing'[k].phase = "signed" /\ signing'[k].order = signing[k].order
    BY <1>1 DEF StoreSubmission, Completed, ChangeOrdersInductive, SigningIsLinked, SigningRow
<1> HIDE DEF row, o
<1>8. order' \in [Orders -> OrderRow] /\ \A k \in Orders : order'[k].applied = order[k].applied
    BY <1>2, <1>3, <1>4, OrderSet DEF ChangeOrdersInductive
<1> QED BY <1>5, <1>6, <1>7, <1>8, SigningKeeps

\* A delivery that found its order awaiting approval goes on with that order.
LEMMA DeliveryKeeps ==
    ASSUME ChangeOrdersInductive, UNCHANGED <<moneyVars, order, signing, run, dunned>>,
           delivery' \in [Deliveries -> DeliveryRow],
           \A d \in Deliveries : delivery'[d].pc \in {"flip", "emit"} => SignedFor(delivery'[d].order),
           accepted' \subseteq Orders \X Deliveries, \A e \in accepted' : SignedFor(e[1])
    PROVE  ChangeOrdersInductive'
<1> USE DEF ChangeOrdersInductive, moneyVars
<1>1. ChangeOrdersTypeOK' BY DEF ChangeOrdersTypeOK
<1>2. SigningIsLinked' BY DEF SigningIsLinked, SignedFor, Completed
<1>3. AppliedWasSigned' BY DEF AppliedWasSigned
<1> QED BY <1>1, <1>2, <1>3, BillingStays

LEMMA DeliverKeeps ==
    ASSUME ChangeOrdersInductive, NEW d \in Deliveries, NEW s \in Submissions, Deliver(d, s)
    PROVE  ChangeOrdersInductive'
<1> DEFINE row == IF Awaits(signing[s].order, s) THEN [pc |-> "flip", order |-> signing[s].order]
                                                 ELSE [pc |-> "done", order |-> None]
<1>1. SignedFor(signing[s].order) /\ signing[s].order \in Orders
    BY DEF Deliver, SignedFor, Completed, ChangeOrdersInductive, SigningIsLinked
<1>2. row \in DeliveryRow /\ (row.pc \in {"flip", "emit"} => SignedFor(row.order))
    BY <1>1 DEF DeliveryRow
<1>3. delivery' = [delivery EXCEPT ![d] = row] BY DEF Deliver
<1> HIDE DEF row
<1>4. delivery \in [Deliveries -> DeliveryRow] /\ accepted \subseteq Orders \X Deliveries
    BY DEF ChangeOrdersInductive, ChangeOrdersTypeOK
<1>5. delivery' \in [Deliveries -> DeliveryRow] BY <1>2, <1>3, <1>4
<1>6. \A k \in Deliveries : delivery'[k].pc \in {"flip", "emit"} => SignedFor(delivery'[k].order)
    BY <1>2, <1>3, <1>4 DEF ChangeOrdersInductive, SigningIsLinked
<1>7. UNCHANGED <<moneyVars, order, signing, run, dunned>> /\ accepted' = accepted BY DEF Deliver
<1>8. \A e \in accepted : SignedFor(e[1]) BY DEF ChangeOrdersInductive, SigningIsLinked
<1> QED BY <1>4, <1>5, <1>6, <1>7, <1>8, DeliveryKeeps

LEMMA EmitAcceptedKeeps ==
    ASSUME ChangeOrdersInductive, NEW d \in Deliveries, EmitAccepted(d)
    PROVE  ChangeOrdersInductive'
<1> DEFINE e == <<delivery[d].order, d>>
<1>1. delivery \in [Deliveries -> DeliveryRow] /\ accepted \subseteq Orders \X Deliveries
    BY DEF ChangeOrdersInductive, ChangeOrdersTypeOK
<1>2. SignedFor(delivery[d].order) BY DEF EmitAccepted, ChangeOrdersInductive, SigningIsLinked
<1>3. delivery[d].order \in Orders
    BY <1>2 DEF SignedFor, Completed, ChangeOrdersInductive, SigningIsLinked
<1>4. accepted' \subseteq accepted \cup {e} BY DEF EmitAccepted
<1>5. \A x \in accepted' : x \in Orders \X Deliveries /\ SignedFor(x[1])
    <2>1. \A x \in accepted : x \in Orders \X Deliveries /\ SignedFor(x[1])
        BY <1>1 DEF ChangeOrdersInductive, SigningIsLinked
    <2>2. e \in Orders \X Deliveries /\ SignedFor(e[1]) BY <1>2, <1>3
    <2> HIDE DEF e
    <2> QED BY <1>4, <2>1, <2>2
<1>6. delivery' \in [Deliveries -> DeliveryRow] BY <1>1 DEF EmitAccepted, DeliveryRow
<1>7. \A k \in Deliveries : delivery'[k].pc \in {"flip", "emit"} => SignedFor(delivery'[k].order)
    BY <1>1 DEF EmitAccepted, DeliveryRow, ChangeOrdersInductive, SigningIsLinked
<1>8. UNCHANGED <<moneyVars, order, signing, run, dunned>> BY DEF EmitAccepted
<1> QED BY <1>5, <1>6, <1>7, <1>8, DeliveryKeeps

-----------------------------------------------------------------------------
(* What staff do to a supplemental invoice, and the steps of a run.        *)

\* The rest of the state where no run goes to another order.
LEMMA SideStays ==
    ASSUME ChangeOrdersInductive, UNCHANGED signVars,
           \A o \in Orders : order'[o].applied => order[o].applied \/ SignedFor(o),
           \A r \in Runs : run'[r].pc # "idle" => SignedFor(run'[r].order)
    PROVE  SigningIsLinked' /\ AppliedWasSigned'
<1> USE DEF ChangeOrdersInductive, signVars
<1>1. SigningIsLinked' BY DEF SigningIsLinked, SignedFor, Completed
<1>2. AppliedWasSigned' BY DEF AppliedWasSigned, SignedFor, Completed
<1> QED BY <1>1, <1>2

\* A row of the invoice table changes, its amount does not, and what was sent stays sent or
\* becomes void.
LEMMA StaffKeeps ==
    ASSUME ChangeOrdersInductive, NEW v \in Runs, NEW row \in InvoiceRow,
           supplement' = [supplement EXCEPT ![v] = row],
           row.amount = supplement[v].amount, row.checkout = supplement[v].checkout,
           row.status \in {"sent", "void"}, supplement[v].status # "absent",
           UNCHANGED <<stripeConnected, valueFinal, order, signVars, run, dunned>>
    PROVE  ChangeOrdersInductive'
<1> USE DEF ChangeOrdersInductive
<1>1. /\ supplement' \in [Runs -> InvoiceRow] /\ supplement'[v] = row
      /\ \A k \in Runs : k # v => supplement'[k] = supplement[k]
    BY DEF ChangeOrdersTypeOK
<1>2. ChangeOrdersTypeOK' BY <1>1 DEF ChangeOrdersTypeOK, signVars
<1>3. SigningIsLinked' /\ AppliedWasSigned'
    BY SideStays DEF SigningIsLinked
<1>4. \A k \in Runs : /\ supplement'[k].amount = supplement[k].amount
                      /\ supplement'[k].checkout = supplement[k].checkout
                      /\ supplement'[k].status = "absent" <=> supplement[k].status = "absent"
                      /\ supplement[k].status \in {"sent", "void"} =>
                            supplement'[k].status \in {"sent", "void"}
    BY <1>1
<1>5. BilledIsApplied' BY <1>4 DEF BilledIsApplied
<1>6. ValueIsSumOfDeltas' BY ValueStays
<1>7. NumberedOnce' /\ GapOnlyAfterFailure' BY DEF NumberedOnce, GapOnlyAfterFailure
<1>8. EnrolledWasSent'
    <2>1. \A e \in dunned : e \in Runs \X Runs BY DEF ChangeOrdersTypeOK
    <2> QED BY <1>4, <2>1 DEF EnrolledWasSent
<1>9. \A r \in Runs : RunIsSound(r)' BY <1>4 DEF RunIsSound
<1> QED BY <1>2, <1>3, <1>5, <1>6, <1>7, <1>8, <1>9

LEMMA StaffSendKeeps ==
    ASSUME ChangeOrdersInductive, NEW v \in Runs, StaffSend(v) PROVE ChangeOrdersInductive'
<1> DEFINE row == [supplement[v] EXCEPT !.status = "sent"]
<1>1. supplement[v] \in InvoiceRow BY DEF ChangeOrdersInductive, ChangeOrdersTypeOK
<1>2. /\ row \in InvoiceRow /\ row.amount = supplement[v].amount
      /\ row.checkout = supplement[v].checkout /\ row.status \in {"sent", "void"}
    BY <1>1 DEF InvoiceRow
<1>3. supplement' = [supplement EXCEPT ![v] = row] BY DEF StaffSend
<1> HIDE DEF row
<1> QED BY <1>2, <1>3, StaffKeeps DEF StaffSend

LEMMA StaffVoidKeeps ==
    ASSUME ChangeOrdersInductive, NEW v \in Runs, StaffVoid(v) PROVE ChangeOrdersInductive'
<1> DEFINE row == [supplement[v] EXCEPT !.status = "void"]
<1>1. supplement[v] \in InvoiceRow BY DEF ChangeOrdersInductive, ChangeOrdersTypeOK
<1>2. /\ row \in InvoiceRow /\ row.amount = supplement[v].amount
      /\ row.checkout = supplement[v].checkout /\ row.status \in {"sent", "void"}
    BY <1>1 DEF InvoiceRow
<1>3. supplement' = [supplement EXCEPT ![v] = row] BY DEF StaffVoid
<1> HIDE DEF row
<1> QED BY <1>2, <1>3, StaffKeeps DEF StaffVoid

\* An update of a row of the run table.
LEMMA RunSet ==
    ASSUME ChangeOrdersTypeOK, NEW r \in Runs, NEW row \in RunRow, run' = [run EXCEPT ![r] = row]
    PROVE  /\ run' \in [Runs -> RunRow]
           /\ run'[r] = row
           /\ \A q \in Runs : q # r => run'[q] = run[q]
BY DEF ChangeOrdersTypeOK

\* A run moves on; the tables stay.
LEMMA MoveKeeps ==
    ASSUME ChangeOrdersInductive, NEW r \in Runs, NEW row \in RunRow,
           run' = [run EXCEPT ![r] = row],
           UNCHANGED <<moneyVars, order, signVars>>,
           dunned \subseteq dunned', dunned' \subseteq dunned \cup {<<run[r].invoice, r>>},
           run[r].pc # "enroll" => dunned' = dunned,
           run[r].pc # "idle" => row.order = run[r].order,
           row.pc # "idle" => SignedFor(row.order),
           row.bumped = run[r].bumped, row.bumped => row.total = run[r].total,
           row.numbered = run[r].numbered, row.numbered => row.invoice = run[r].invoice,
           row.pc = "done" /\ row.numbered /\ ~row.stumbled => <<row.invoice, r>> \in dunned',
           RunIsSound(r)'
    PROVE  ChangeOrdersInductive'
<1> USE DEF ChangeOrdersInductive
<1>1. /\ run' \in [Runs -> RunRow] /\ run'[r] = row
      /\ \A q \in Runs : q # r => run'[q] = run[q]
    BY RunSet
<1>2. \A q \in Runs : /\ run'[q].bumped = run[q].bumped /\ run'[q].numbered = run[q].numbered
                      /\ run[q].bumped => /\ run'[q].total = run[q].total
                                          /\ run'[q].order = run[q].order
                      /\ run[q].numbered => run'[q].invoice = run[q].invoice
    BY <1>1 DEF RunIsSound
<1>3. \A e \in dunned' : e \in dunned \/ /\ e = <<run[r].invoice, r>> /\ run[r].pc = "enroll"
                                         /\ run[r].invoice \in Runs
    BY DEF RunIsSound, Paying
<1>4. ChangeOrdersTypeOK'
    <2>1. dunned' \subseteq Runs \X Runs BY <1>3 DEF ChangeOrdersTypeOK
    <2> QED BY <1>1, <2>1 DEF ChangeOrdersTypeOK, moneyVars, signVars
<1>5. SigningIsLinked' /\ AppliedWasSigned'
    BY <1>1, SideStays DEF SigningIsLinked
<1>6. BilledIsApplied' BY <1>2, AppliedOrders DEF BilledIsApplied, moneyVars
<1>7. ValueIsSumOfDeltas' BY <1>2, ValueStays DEF moneyVars
<1>8. NumberedOnce' BY <1>2 DEF NumberedOnce
<1>9. EnrolledWasSent'
    <2>1. ASSUME NEW e \in dunned
          PROVE  run'[e[2]].numbered /\ run'[e[2]].invoice = e[1] /\ supplement'[e[1]].checkout
        <3>1. e[2] \in Runs BY DEF ChangeOrdersTypeOK
        <3> QED BY <1>2, <3>1 DEF EnrolledWasSent, moneyVars
    <2>2. run[r].pc = "enroll" => /\ run[r].numbered /\ run'[r].numbered
                                  /\ run'[r].invoice = run[r].invoice
                                  /\ supplement'[run[r].invoice].checkout
        BY <1>2 DEF RunIsSound, Paying, moneyVars
    <2> QED BY <1>3, <2>1, <2>2 DEF EnrolledWasSent
<1>10. GapOnlyAfterFailure' BY <1>1 DEF GapOnlyAfterFailure
<1>11. \A q \in Runs : q # r => RunIsSound(q)'
    BY <1>1 DEF RunIsSound, moneyVars
<1> QED BY <1>4, <1>5, <1>6, <1>7, <1>8, <1>9, <1>10, <1>11

LEMMA StartKeeps ==
    ASSUME ChangeOrdersInductive, NEW r \in Runs, NEW o \in Orders, NEW d \in Deliveries, Start(r, o, d)
    PROVE  ChangeOrdersInductive'
<1> DEFINE row == [run[r] EXCEPT !.pc = "apply", !.order = o, !.by = d]
<1>1. run \in [Runs -> RunRow] /\ run[r] \in RunRow BY DEF ChangeOrdersInductive, ChangeOrdersTypeOK
<1>2. /\ row \in RunRow /\ row.pc = "apply" /\ row.order = o /\ row.bumped = run[r].bumped
      /\ row.total = run[r].total /\ row.numbered = run[r].numbered /\ row.invoice = run[r].invoice
      /\ row.tries = run[r].tries
    BY <1>1 DEF RunRow, RunPc
<1>3. run' = [run EXCEPT ![r] = row] BY DEF Start
<1>4. SignedFor(o)
    <2>1. <<o, d>> \in accepted BY DEF Start
    <2> QED BY <2>1 DEF ChangeOrdersInductive, SigningIsLinked
<1>5. run[r].pc = "idle" /\ UNCHANGED <<moneyVars, order, signVars, dunned>> BY DEF Start
<1> HIDE DEF row
<1>6. RunIsSound(r)'
    <2>1. run'[r] = row BY <1>1, <1>3
    <2>2. RunIsSound(r) BY DEF ChangeOrdersInductive
    <2> QED BY <1>2, <1>5, <2>1, <2>2 DEF RunIsSound, Applying, Paying
<1> QED BY <1>2, <1>3, <1>4, <1>5, <1>6, MoveKeeps

LEMMA ApplyReadKeeps ==
    ASSUME ChangeOrdersInductive, NEW r \in Runs, ApplyRead(r) PROVE ChangeOrdersInductive'
<1> DEFINE o == run[r].order
<1> DEFINE next == IF Applied(o) THEN "logApplied" ELSE "write"
<1> DEFINE inv == IF Applied(o) THEN order[o].invoice ELSE None
<1> DEFINE tot == IF Applied(o) THEN run[r].total ELSE order[o].total
<1> DEFINE row == [run[r] EXCEPT !.pc = next, !.invoice = inv, !.total = tot]
<1>1. /\ run \in [Runs -> RunRow] /\ run[r] \in RunRow /\ RunIsSound(r)
      /\ run[r].pc = "apply" /\ UNCHANGED <<moneyVars, order, signVars, dunned>>
    BY DEF ChangeOrdersInductive, ChangeOrdersTypeOK, ApplyRead
<1>2. o \in Orders /\ SignedFor(o)
    BY <1>1, RunsHaveOrders DEF ChangeOrdersInductive, SigningIsLinked
<1>3. order[o] \in OrderRow BY <1>2 DEF ChangeOrdersInductive, ChangeOrdersTypeOK
<1>4. inv \in Runs \cup {None} /\ tot \in Totals \cup {0} /\ next \in {"logApplied", "write"}
    BY <1>1, <1>3 DEF OrderRow, RunRow
<1>5. run[r].bumped => Applied(o) BY AppliedOrders DEF Applied
<1>6. (run[r].bumped => tot = run[r].total) /\ (next = "write" => ~run[r].bumped)
    BY <1>5
<1>7. run' = [run EXCEPT ![r] = row] BY DEF ApplyRead
<1> HIDE DEF o, next, inv, tot
<1>8. /\ row \in RunRow /\ row.pc = next /\ row.order = run[r].order /\ row.bumped = run[r].bumped
      /\ row.total = tot /\ row.numbered = run[r].numbered /\ row.tries = run[r].tries
    BY <1>1, <1>4 DEF RunRow, RunPc
<1> HIDE DEF row
<1>9. RunIsSound(r)'
    <2>1. run'[r] = row BY <1>1, <1>7
    <2> QED BY <1>1, <1>4, <1>6, <1>8, <2>1 DEF RunIsSound, Applying, Paying
<1>10. ~run[r].numbered BY <1>1 DEF RunIsSound, Applying
<1>11. row.pc # "done" /\ SignedFor(row.order) BY <1>2, <1>4, <1>8 DEF o
<1> QED BY <1>1, <1>6, <1>7, <1>8, <1>9, <1>10, <1>11, MoveKeeps

\* The steps that set the place of a run and, at most, its attempts.
LEMMA PlaceKeeps ==
    ASSUME ChangeOrdersInductive, NEW r \in Runs, NEW pc \in RunPc, NEW n \in 0..MaxAttempts,
           NEW b \in BOOLEAN, run[r].pc # "idle", pc # "idle",
           run' = [run EXCEPT ![r].pc = pc, ![r].tries = n, ![r].stumbled = b],
           UNCHANGED <<moneyVars, order, signVars>>,
           dunned \subseteq dunned', dunned' \subseteq dunned \cup {<<run[r].invoice, r>>},
           run[r].pc # "enroll" => dunned' = dunned,
           pc = "write" => ~run[r].bumped,
           pc # "failed" => n < MaxAttempts,
           pc \in Paying \cup {"number"} => run[r].invoice \in Runs,
           pc \in Paying => run[r].numbered,
           pc \in {"logSent", "enroll"} => supplement[run[r].invoice].checkout,
           run[r].numbered => pc \notin Applying /\ (pc \in {"load", "number"} => b),
           pc = "done" /\ run[r].numbered /\ ~b => <<run[r].invoice, r>> \in dunned'
    PROVE  ChangeOrdersInductive'
<1> DEFINE row == [run[r] EXCEPT !.pc = pc, !.tries = n, !.stumbled = b]
<1>1. run \in [Runs -> RunRow] /\ run[r] \in RunRow BY DEF ChangeOrdersInductive, ChangeOrdersTypeOK
<1>2. /\ row \in RunRow /\ row.pc = pc /\ row.order = run[r].order /\ row.bumped = run[r].bumped
      /\ row.total = run[r].total /\ row.numbered = run[r].numbered /\ row.tries = n
      /\ row.invoice = run[r].invoice /\ row.stumbled = b
    BY <1>1 DEF RunRow
<1>3. run' = [run EXCEPT ![r] = row] OBVIOUS
<1> HIDE DEF row
<1>4. SignedFor(row.order) BY <1>2 DEF ChangeOrdersInductive, SigningIsLinked
<1>5. RunIsSound(r)'
    <2>1. run'[r] = row /\ supplement' = supplement BY <1>1, <1>3 DEF moneyVars
    <2>2. RunIsSound(r) BY DEF ChangeOrdersInductive
    <2> QED BY <1>2, <2>1, <2>2 DEF RunIsSound
<1> QED BY <1>2, <1>3, <1>4, <1>5, MoveKeeps

LEMMA AlsoTheRest ==
    ASSUME ChangeOrdersTypeOK, NEW r \in Runs, NEW pc
    PROVE  [run EXCEPT ![r].pc = pc] =
               [run EXCEPT ![r].pc = pc, ![r].tries = run[r].tries, ![r].stumbled = run[r].stumbled]
<1>1. run \in [Runs -> RunRow] /\ run[r] \in RunRow BY DEF ChangeOrdersTypeOK
<1> DEFINE a == [run[r] EXCEPT !.pc = pc]
<1> DEFINE b == [run[r] EXCEPT !.pc = pc, !.tries = run[r].tries, !.stumbled = run[r].stumbled]
<1>2. a = b BY <1>1 DEF RunRow
<1>3. [run EXCEPT ![r].pc = pc] = [run EXCEPT ![r] = a] OBVIOUS
<1>4. [run EXCEPT ![r].pc = pc, ![r].tries = run[r].tries, ![r].stumbled = run[r].stumbled]
          = [run EXCEPT ![r] = b] OBVIOUS
<1> HIDE DEF a, b
<1> QED BY <1>2, <1>3, <1>4

\* What is known of a run before one of its steps.
LEMMA BeforeStep ==
    ASSUME ChangeOrdersInductive, NEW r \in Runs
    PROVE  /\ ChangeOrdersTypeOK /\ RunIsSound(r)
           /\ run[r].tries \in 0..MaxAttempts /\ run[r].stumbled \in BOOLEAN /\ run[r].pc \in RunPc
<1>1. run[r] \in RunRow BY DEF ChangeOrdersInductive, ChangeOrdersTypeOK
<1> QED BY <1>1 DEF RunRow, ChangeOrdersInductive

LEMMA LogAppliedKeeps ==
    ASSUME ChangeOrdersInductive, NEW r \in Runs, LogApplied(r) PROVE ChangeOrdersInductive'
<1>1. run' = [run EXCEPT ![r].pc = "load", ![r].tries = 0, ![r].stumbled = run[r].stumbled]
    <2>1. run \in [Runs -> RunRow] /\ run[r] \in RunRow
        BY DEF ChangeOrdersInductive, ChangeOrdersTypeOK
    <2> DEFINE a == [run[r] EXCEPT !.pc = "load", !.tries = 0]
    <2> DEFINE b == [run[r] EXCEPT !.pc = "load", !.tries = 0, !.stumbled = run[r].stumbled]
    <2>2. a = b BY <2>1 DEF RunRow
    <2>3. run' = [run EXCEPT ![r] = a] BY DEF LogApplied
    <2>4. [run EXCEPT ![r].pc = "load", ![r].tries = 0, ![r].stumbled = run[r].stumbled]
              = [run EXCEPT ![r] = b] OBVIOUS
    <2> HIDE DEF a, b
    <2> QED BY <2>2, <2>3, <2>4
<1>2. "load" \in RunPc /\ 0 \in 0..MaxAttempts /\ 0 < MaxAttempts /\ "load" \notin Paying
    BY AttemptsAssumption DEF RunPc, Paying
<1>3. /\ RunIsSound(r) /\ run[r].stumbled \in BOOLEAN /\ run[r].pc = "logApplied"
      /\ UNCHANGED <<moneyVars, order, signVars, dunned>>
    BY BeforeStep DEF LogApplied
<1>4. ~run[r].numbered BY <1>3 DEF RunIsSound, Applying
<1> QED BY <1>1, <1>2, <1>3, <1>4, PlaceKeeps

LEMMA LoadInvoiceKeeps ==
    ASSUME ChangeOrdersInductive, NEW r \in Runs, LoadInvoice(r) PROVE ChangeOrdersInductive'
<1> DEFINE v == run[r].invoice
<1> DEFINE pc == IF v # None /\ stripeConnected /\ supplement[v].status = "draft"
                   THEN "number" ELSE "done"
<1> DEFINE n == run[r].tries
<1> DEFINE b == run[r].stumbled
<1>1. run' = [run EXCEPT ![r].pc = pc, ![r].tries = n, ![r].stumbled = b]
    BY BeforeStep, AlsoTheRest DEF LoadInvoice
<1>2. /\ RunIsSound(r) /\ n \in 0..MaxAttempts /\ b \in BOOLEAN /\ run[r].pc = "load"
      /\ UNCHANGED <<moneyVars, order, signVars, dunned>>
    BY BeforeStep DEF LoadInvoice
<1>3. pc \in {"number", "done"} /\ (pc = "number" => v \in Runs)
    <2>1. run[r] \in RunRow BY DEF ChangeOrdersInductive, ChangeOrdersTypeOK
    <2>2. v \in Runs \cup {None} BY <2>1 DEF RunRow
    <2> QED BY <2>2
<1>4. n < MaxAttempts /\ (run[r].numbered => b) BY <1>2 DEF RunIsSound
<1> HIDE DEF pc, n, b
<1>5. /\ pc \in RunPc /\ pc \notin Applying /\ pc \notin Paying /\ pc # "idle" /\ pc # "write"
      /\ pc \notin {"logSent", "enroll"}
    BY <1>3 DEF RunPc, Applying, Paying
<1> QED BY <1>1, <1>2, <1>3, <1>4, <1>5, PlaceKeeps

LEMMA CreateCheckoutKeeps ==
    ASSUME ChangeOrdersInductive, NEW r \in Runs, CreateCheckout(r) PROVE ChangeOrdersInductive'
<1> DEFINE n == run[r].tries
<1> DEFINE b == run[r].stumbled
<1>1. run' = [run EXCEPT ![r].pc = "store", ![r].tries = n, ![r].stumbled = b]
    BY BeforeStep, AlsoTheRest DEF CreateCheckout
<1>2. /\ RunIsSound(r) /\ n \in 0..MaxAttempts /\ b \in BOOLEAN /\ run[r].pc = "checkout"
      /\ UNCHANGED <<moneyVars, order, signVars, dunned>>
    BY BeforeStep DEF CreateCheckout
<1>3. n < MaxAttempts /\ run[r].numbered /\ run[r].invoice \in Runs
    BY <1>2 DEF RunIsSound, Paying
<1> HIDE DEF n, b
<1>4. "store" \in RunPc /\ "store" \notin Applying BY DEF RunPc, Applying
<1> QED BY <1>1, <1>2, <1>3, <1>4, PlaceKeeps

LEMMA LogSentKeeps ==
    ASSUME ChangeOrdersInductive, NEW r \in Runs, LogSent(r) PROVE ChangeOrdersInductive'
<1>1. run' = [run EXCEPT ![r].pc = "enroll", ![r].tries = 0, ![r].stumbled = run[r].stumbled]
    <2>1. run \in [Runs -> RunRow] /\ run[r] \in RunRow
        BY DEF ChangeOrdersInductive, ChangeOrdersTypeOK
    <2> DEFINE a == [run[r] EXCEPT !.pc = "enroll", !.tries = 0]
    <2> DEFINE b == [run[r] EXCEPT !.pc = "enroll", !.tries = 0, !.stumbled = run[r].stumbled]
    <2>2. a = b BY <2>1 DEF RunRow
    <2>3. run' = [run EXCEPT ![r] = a] BY DEF LogSent, AfterSent
    <2>4. [run EXCEPT ![r].pc = "enroll", ![r].tries = 0, ![r].stumbled = run[r].stumbled]
              = [run EXCEPT ![r] = b] OBVIOUS
    <2> HIDE DEF a, b
    <2> QED BY <2>2, <2>3, <2>4
<1>2. "enroll" \in RunPc /\ 0 \in 0..MaxAttempts /\ 0 < MaxAttempts /\ "enroll" \notin Applying
    BY AttemptsAssumption DEF RunPc, Applying
<1>3. /\ RunIsSound(r) /\ run[r].stumbled \in BOOLEAN /\ run[r].pc = "logSent"
      /\ UNCHANGED <<moneyVars, order, signVars, dunned>>
    BY BeforeStep DEF LogSent
<1>4. run[r].numbered /\ run[r].invoice \in Runs /\ supplement[run[r].invoice].checkout
    BY <1>3 DEF RunIsSound, Paying
<1> QED BY <1>1, <1>2, <1>3, <1>4, PlaceKeeps

LEMMA EnrollDunningKeeps ==
    ASSUME ChangeOrdersInductive, NEW r \in Runs, EnrollDunning(r) PROVE ChangeOrdersInductive'
<1> DEFINE n == run[r].tries
<1> DEFINE b == run[r].stumbled
<1>1. run' = [run EXCEPT ![r].pc = "done", ![r].tries = n, ![r].stumbled = b]
    BY BeforeStep, AlsoTheRest DEF EnrollDunning
<1>2. /\ RunIsSound(r) /\ n \in 0..MaxAttempts /\ b \in BOOLEAN /\ run[r].pc = "enroll"
      /\ UNCHANGED <<moneyVars, order, signVars>> /\ dunned' = dunned \cup {<<run[r].invoice, r>>}
    BY BeforeStep DEF EnrollDunning
<1>3. n < MaxAttempts BY <1>2 DEF RunIsSound
<1> HIDE DEF n, b
<1>4. "done" \in RunPc /\ "done" \notin Applying /\ "done" \notin Paying
    BY DEF RunPc, Applying, Paying
<1> QED BY <1>1, <1>2, <1>3, <1>4, PlaceKeeps

LEMMA StepFailsKeeps ==
    ASSUME ChangeOrdersInductive, NEW r \in Runs, StepFails(r) PROVE ChangeOrdersInductive'
<1> DEFINE pc == IF Exhausted(Tries(r)) THEN "failed" ELSE Restart(run[r].pc)
<1> DEFINE n == run[r].tries + 1
<1>1. run' = [run EXCEPT ![r].pc = pc, ![r].tries = n, ![r].stumbled = TRUE]
    BY DEF StepFails, Tries
<1>2. /\ RunIsSound(r) /\ run[r].tries \in 0..MaxAttempts /\ run[r].pc \in RunPc
      /\ run[r].pc \notin {"idle", "done", "failed"}
      /\ UNCHANGED <<moneyVars, order, signVars, dunned>>
    BY BeforeStep DEF StepFails
<1>3. n \in 0..MaxAttempts /\ (pc # "failed" => n < MaxAttempts)
    BY <1>2, AttemptsAssumption DEF RunIsSound, Exhausted, Tries
<1>4. /\ pc \in {"failed", "apply", "load", "enroll"}
      /\ pc = "apply" => run[r].pc \in Applying
      /\ pc = "enroll" => run[r].pc = "enroll"
    BY <1>2 DEF Restart, RunPc, Applying
<1> HIDE DEF pc, n
<1>5. /\ pc \in RunPc /\ pc # "idle" /\ pc # "write" /\ pc # "done" /\ pc # "logSent"
      /\ pc \in Paying \cup {"number"} => pc = "enroll"
      /\ pc \in Applying => pc = "apply"
    BY <1>4 DEF RunPc, Paying, Applying
<1>6. /\ pc \in Paying \cup {"number"} => run[r].invoice \in Runs
      /\ pc \in Paying => run[r].numbered
      /\ pc \in {"logSent", "enroll"} => supplement[run[r].invoice].checkout
      /\ run[r].numbered => pc \notin Applying
    BY <1>2, <1>4, <1>5 DEF RunIsSound, Paying
<1> QED BY <1>1, <1>2, <1>3, <1>5, <1>6, PlaceKeeps

\* The invoice of a run that has not written does not exist, and no run numbered it.
LEMMA NotYetBilled ==
    ASSUME ChangeOrdersInductive, NEW r \in Runs, ~run[r].bumped
    PROVE  /\ supplement[r].status = "absent"
           /\ \A q \in Runs : run[q].numbered => run[q].invoice # r
BY DEF ChangeOrdersInductive, BilledIsApplied, RunIsSound

LEMMA ApplyWriteKeeps ==
    ASSUME ChangeOrdersInductive, NEW r \in Runs, ApplyWrite(r) PROVE ChangeOrdersInductive'
<1> DEFINE o == run[r].order
<1> DEFINE t == run[r].total
<1> DEFINE v == IF Drafted(t) THEN r ELSE None
<1> DEFINE row == [run[r] EXCEPT !.pc = "logApplied", !.invoice = v, !.bumped = TRUE]
<1> DEFINE bill == [status |-> "draft", amount |-> t, checkout |-> FALSE]
<1> DEFINE co == [order[o] EXCEPT !.applied = TRUE, !.invoice = v]
<1>1. /\ ChangeOrdersTypeOK /\ run \in [Runs -> RunRow] /\ run[r] \in RunRow
      /\ order \in [Orders -> OrderRow]
      /\ RunIsSound(r) /\ run[r].pc = "write" /\ UNCHANGED <<stripeConnected, signVars, dunned>>
    BY BeforeStep DEF ChangeOrdersInductive, ChangeOrdersTypeOK, ApplyWrite
<1>2. ~run[r].bumped /\ ~run[r].numbered BY <1>1 DEF RunIsSound, Applying
<1>3. o \in Orders /\ SignedFor(o)
    BY <1>1, RunsHaveOrders DEF ChangeOrdersInductive, SigningIsLinked
<1>4. t \in Int /\ t \in Totals \cup {0}
    BY <1>1, TotalsAreNumbers DEF RunRow
<1>5. valueFinal' = Bumped(t) /\ valueFinal' \in Int
    <2>1. valueFinal \in Int \cup {None} /\ valueFinal' = Bumped(t)
        BY <1>1 DEF ChangeOrdersTypeOK, ApplyWrite
    <2> HIDE DEF t
    <2> QED BY <1>4, <2>1, TotalsAssumption DEF Bumped
<1>6. v \in Runs \cup {None} OBVIOUS
<1>7. run' = [run EXCEPT ![r] = row] BY DEF ApplyWrite
<1>8. order' = [order EXCEPT ![o] = co] BY DEF ApplyWrite
<1>9. supplement' = IF t > 0 THEN [supplement EXCEPT ![r] = bill] ELSE supplement
    BY DEF ApplyWrite, Drafted
<1> HIDE DEF o, t, v
<1>10. /\ row \in RunRow /\ row.pc = "logApplied" /\ row.order = o /\ row.bumped
       /\ row.total = t /\ row.numbered = run[r].numbered /\ row.tries = run[r].tries
    BY <1>1, <1>6 DEF RunRow, RunPc, o, t
<1>11. co \in OrderRow /\ co.applied
    <2>1. order[o] \in OrderRow BY <1>1, <1>3
    <2> QED BY <1>6, <2>1 DEF OrderRow
<1>12. bill \in InvoiceRow /\ bill.status = "draft" /\ bill.amount = t BY <1>4 DEF InvoiceRow
<1> HIDE DEF row, co, bill
<1>13. /\ run' \in [Runs -> RunRow] /\ run'[r] = row
       /\ \A q \in Runs : q # r => run'[q] = run[q]
    BY <1>1, <1>7, <1>10, RunSet
<1>14. /\ order' \in [Orders -> OrderRow]
       /\ \A k \in Orders : order'[k].applied <=> order[k].applied \/ k = o
    BY <1>1, <1>3, <1>8, <1>11
<1>15. /\ supplement' \in [Runs -> InvoiceRow]
       /\ \A q \in Runs : q # r => supplement'[q] = supplement[q]
       /\ t > 0 => supplement'[r] = bill
       /\ ~(t > 0) => supplement'[r] = supplement[r]
    BY <1>1, <1>9, <1>12 DEF ChangeOrdersTypeOK
<1>16. ChangeOrdersTypeOK'
    BY <1>1, <1>5, <1>13, <1>14, <1>15 DEF ChangeOrdersTypeOK, signVars
<1>17. SigningIsLinked' /\ AppliedWasSigned'
    <2>1. \A q \in Runs : run'[q].pc # "idle" => SignedFor(run'[q].order)
        BY <1>3, <1>10, <1>13 DEF ChangeOrdersInductive, SigningIsLinked
    <2> QED BY <1>1, <1>3, <1>14, <2>1, SideStays
<1>18. BilledIsApplied'
    <2>1. ASSUME NEW q \in Runs, q # r
          PROVE  /\ supplement'[q].status # "absent" =>
                       /\ run'[q].bumped /\ supplement'[q].amount = run'[q].total
                       /\ run'[q].total > 0
                 /\ run'[q].bumped => order'[run'[q].order].applied
                 /\ supplement'[q].status = "absent" => (run'[q].bumped => run'[q].total <= 0)
        <3>1. run'[q] = run[q] /\ supplement'[q] = supplement[q] BY <1>13, <1>15, <2>1
        <3>2. run[q].bumped => order'[run[q].order].applied BY <1>14, AppliedOrders
        <3> QED BY <3>1, <3>2 DEF ChangeOrdersInductive, BilledIsApplied
    <2>2. supplement[r].status = "absent" BY <1>2, NotYetBilled
    <2>3. /\ supplement'[r].status # "absent" =>
                 run'[r].bumped /\ supplement'[r].amount = run'[r].total /\ run'[r].total > 0
          /\ order'[run'[r].order].applied
          /\ supplement'[r].status = "absent" => run'[r].total <= 0
        <3>1. run'[r].total = t /\ run'[r].order = o /\ run'[r].bumped BY <1>10, <1>13
        <3>2. CASE t > 0
            BY <1>3, <1>12, <1>14, <1>15, <3>1, <3>2
        <3>3. CASE ~(t > 0)
            <4>1. t <= 0 BY <1>4, <3>3
            <4> QED BY <1>3, <1>14, <1>15, <2>2, <3>1, <3>3, <4>1
        <3> QED BY <3>2, <3>3
    <2> QED BY <2>1, <2>3 DEF BilledIsApplied
<1>19. ValueIsSumOfDeltas'
    <2>1. valueFinal' = Bumped(run[r].total) BY <1>5 DEF t
    <2>2. \A q \in Runs : /\ run'[q].total = run[q].total
                          /\ q # r => run'[q].bumped = run[q].bumped
        BY <1>10, <1>13 DEF t
    <2> QED BY <1>1, <1>2, <1>10, <1>13, <2>1, <2>2, ValueGrows DEF ChangeOrdersInductive
<1>20. \A q \in Runs : /\ run'[q].numbered = run[q].numbered
                       /\ run[q].numbered => run'[q] = run[q] /\ run[q].invoice # r
    BY <1>2, <1>10, <1>13, NotYetBilled
<1>21. NumberedOnce' BY <1>20 DEF ChangeOrdersInductive, NumberedOnce
<1>22. EnrolledWasSent'
    <2>1. \A e \in dunned : e[1] \in Runs /\ e[2] \in Runs BY <1>1 DEF ChangeOrdersTypeOK
    <2>2. \A e \in dunned : /\ run[e[2]].numbered /\ run[e[2]].invoice = e[1]
                            /\ supplement[e[1]].checkout
        BY DEF ChangeOrdersInductive, EnrolledWasSent
    <2>3. \A e \in dunned : /\ run'[e[2]].numbered /\ run'[e[2]].invoice = e[1]
                            /\ supplement'[e[1]].checkout
        BY <1>15, <1>20, <2>1, <2>2
    <2> QED BY <1>1, <2>3 DEF EnrolledWasSent
<1>23. GapOnlyAfterFailure'
    BY <1>1, <1>20 DEF ChangeOrdersInductive, GapOnlyAfterFailure
<1>24. ASSUME NEW q \in Runs PROVE RunIsSound(q)'
    <2>1. CASE q = r
        BY <1>1, <1>2, <1>10, <1>13, <2>1 DEF RunIsSound, Applying, Paying
    <2>2. CASE q # r
        <3>1. run'[q] = run[q] /\ RunIsSound(q) BY <1>13, <2>2 DEF ChangeOrdersInductive
        <3>2. run[q].numbered => supplement'[run[q].invoice] = supplement[run[q].invoice]
            BY <1>15, <1>20, <3>1 DEF RunIsSound
        <3>3. run[q].pc \in {"logSent", "enroll"} => run[q].numbered
            BY <3>1 DEF RunIsSound, Paying
        <3> QED BY <3>1, <3>2, <3>3 DEF RunIsSound
    <2> QED BY <2>1, <2>2
<1> QED BY <1>16, <1>17, <1>18, <1>19, <1>21, <1>22, <1>23, <1>24 DEF ChangeOrdersInductive

\* A run numbers an invoice nobody has: every other that numbered one has another.
LEMMA NumberInvoiceKeeps ==
    ASSUME ChangeOrdersInductive, NEW r \in Runs, NumberInvoice(r) PROVE ChangeOrdersInductive'
<1> DEFINE v == run[r].invoice
<1> DEFINE n == run[r].tries
<1> DEFINE b == run[r].stumbled
<1>1. /\ ChangeOrdersTypeOK /\ run \in [Runs -> RunRow] /\ run[r] \in RunRow
      /\ supplement \in [Runs -> InvoiceRow]
      /\ RunIsSound(r) /\ n \in 0..MaxAttempts /\ b \in BOOLEAN /\ run[r].pc = "number"
      /\ UNCHANGED <<stripeConnected, valueFinal, order, signVars, dunned>>
    BY BeforeStep DEF ChangeOrdersInductive, ChangeOrdersTypeOK, NumberInvoice
<1>2. v \in Runs /\ n < MaxAttempts /\ (run[r].numbered => b) BY <1>1 DEF RunIsSound
<1>3. CASE ~StillDraft(v)
    <2>1. run' = [run EXCEPT ![r].pc = "done", ![r].tries = n, ![r].stumbled = b]
        BY <1>1, <1>3, AlsoTheRest DEF NumberInvoice
    <2>2. supplement' = supplement BY <1>3 DEF NumberInvoice
    <2>3. UNCHANGED <<moneyVars, order, signVars>> BY <1>1, <2>2 DEF moneyVars
    <2> HIDE DEF n, b
    <2>4. "done" \in RunPc /\ "done" \notin Applying /\ "done" \notin Paying
        BY DEF RunPc, Applying, Paying
    <2> QED BY <1>1, <1>2, <2>1, <2>3, <2>4, PlaceKeeps
<1>4. CASE StillDraft(v)
    <2> DEFINE row == [run[r] EXCEPT !.pc = "checkout", !.numbered = TRUE]
    <2> DEFINE bill == [supplement[v] EXCEPT !.status = "sent"]
    <2>1. /\ row \in RunRow /\ row.pc = "checkout" /\ row.numbered /\ row.order = run[r].order
          /\ row.bumped = run[r].bumped /\ row.total = run[r].total /\ row.invoice = v
          /\ row.tries = n /\ row.by = run[r].by
        BY <1>1 DEF RunRow, RunPc
    <2>2. run' = [run EXCEPT ![r] = row] BY <1>4 DEF NumberInvoice
    <2>3. supplement' = [supplement EXCEPT ![v] = bill] BY <1>4 DEF NumberInvoice
    <2>4. /\ bill \in InvoiceRow /\ bill.status = "sent" /\ bill.amount = supplement[v].amount
          /\ bill.checkout = supplement[v].checkout
        <3>1. supplement[v] \in InvoiceRow BY <1>1, <1>2
        <3> QED BY <3>1 DEF InvoiceRow
    <2>5. supplement[v].status = "draft" BY <1>4 DEF StillDraft
    <2> HIDE DEF row, bill, v, n, b
    <2>6. /\ run' \in [Runs -> RunRow] /\ run'[r] = row
          /\ \A q \in Runs : q # r => run'[q] = run[q]
        BY <1>1, <2>1, <2>2, RunSet
    <2>7. /\ supplement' \in [Runs -> InvoiceRow] /\ supplement'[v] = bill
          /\ \A k \in Runs : k # v => supplement'[k] = supplement[k]
        BY <1>1, <1>2, <2>3, <2>4
    <2>8. \A q \in Runs : run[q].numbered => run[q].invoice # v
        BY <2>5 DEF ChangeOrdersInductive, RunIsSound
    <2>9. ~run[r].numbered BY <2>8 DEF v
    <2>10. ChangeOrdersTypeOK' BY <1>1, <2>6, <2>7 DEF ChangeOrdersTypeOK, signVars
    <2>11. SigningIsLinked' /\ AppliedWasSigned'
        <3>1. \A q \in Runs : run'[q].pc # "idle" => SignedFor(run'[q].order)
            BY <1>1, <2>1, <2>6 DEF ChangeOrdersInductive, SigningIsLinked
        <3> QED BY <1>1, <3>1, SideStays
    <2>12. \A q \in Runs : /\ run'[q].bumped = run[q].bumped /\ run'[q].total = run[q].total
                           /\ run'[q].order = run[q].order
                           /\ supplement'[q].amount = supplement[q].amount
                           /\ supplement'[q].checkout = supplement[q].checkout
                           /\ supplement'[q].status = "absent" <=> supplement[q].status = "absent"
        BY <2>1, <2>4, <2>5, <2>6, <2>7
    <2>13. BilledIsApplied'
        BY <1>1, <2>12 DEF ChangeOrdersInductive, BilledIsApplied
    <2>14. ValueIsSumOfDeltas'
        BY <1>1, <2>12, ValueStays DEF ChangeOrdersInductive
    <2>15. NumberedOnce'
        BY <2>1, <2>6, <2>8 DEF ChangeOrdersInductive, NumberedOnce
    <2>16. EnrolledWasSent'
        <3>1. \A e \in dunned : e[1] \in Runs /\ e[2] \in Runs BY <1>1 DEF ChangeOrdersTypeOK
        <3>2. \A e \in dunned : /\ run[e[2]].numbered /\ run[e[2]].invoice = e[1]
                                /\ supplement[e[1]].checkout
            BY DEF ChangeOrdersInductive, EnrolledWasSent
        <3>3. \A e \in dunned : e[2] # r BY <2>9, <3>2
        <3> QED BY <1>1, <2>6, <2>12, <3>1, <3>2, <3>3 DEF EnrolledWasSent
    <2>17. GapOnlyAfterFailure'
        BY <1>1, <2>1, <2>6 DEF ChangeOrdersInductive, GapOnlyAfterFailure
    <2>18. ASSUME NEW q \in Runs PROVE RunIsSound(q)'
        <3>1. CASE q = r
            BY <1>1, <1>2, <2>1, <2>4, <2>6, <2>7, <3>1 DEF RunIsSound, Applying, Paying
        <3>2. CASE q # r
            <4>1. run'[q] = run[q] /\ RunIsSound(q)
                BY <2>6, <3>2 DEF ChangeOrdersInductive
            <4>2. run[q].numbered => supplement'[run[q].invoice] = supplement[run[q].invoice]
                BY <2>7, <2>8, <4>1 DEF RunIsSound
            <4>3. run[q].pc \in {"logSent", "enroll"} => run[q].numbered
                BY <4>1 DEF RunIsSound, Paying
            <4> QED BY <4>1, <4>2, <4>3 DEF RunIsSound
        <3> QED BY <3>1, <3>2
    <2> QED
        BY <2>10, <2>11, <2>13, <2>14, <2>15, <2>16, <2>17, <2>18 DEF ChangeOrdersInductive
<1> QED BY <1>3, <1>4

LEMMA StoreCheckoutKeeps ==
    ASSUME ChangeOrdersInductive, NEW r \in Runs, StoreCheckout(r) PROVE ChangeOrdersInductive'
<1> DEFINE v == run[r].invoice
<1> DEFINE row == [run[r] EXCEPT !.pc = "logSent"]
<1> DEFINE bill == [supplement[v] EXCEPT !.checkout = TRUE]
<1>1. /\ ChangeOrdersTypeOK /\ run \in [Runs -> RunRow] /\ run[r] \in RunRow
      /\ supplement \in [Runs -> InvoiceRow]
      /\ RunIsSound(r) /\ run[r].pc = "store"
      /\ UNCHANGED <<stripeConnected, valueFinal, order, signVars, dunned>>
    BY BeforeStep DEF ChangeOrdersInductive, ChangeOrdersTypeOK, StoreCheckout
<1>2. v \in Runs /\ run[r].numbered BY <1>1 DEF RunIsSound, Paying
<1>3. /\ row \in RunRow /\ row.pc = "logSent" /\ row.numbered = run[r].numbered
      /\ row.order = run[r].order /\ row.bumped = run[r].bumped /\ row.total = run[r].total
      /\ row.invoice = v /\ row.tries = run[r].tries
    BY <1>1 DEF RunRow, RunPc
<1>4. run' = [run EXCEPT ![r] = row] BY DEF StoreCheckout
<1>5. supplement' = [supplement EXCEPT ![v] = bill] BY DEF StoreCheckout
<1>6. /\ bill \in InvoiceRow /\ bill.status = supplement[v].status
      /\ bill.amount = supplement[v].amount /\ bill.checkout
    <2>1. supplement[v] \in InvoiceRow BY <1>1, <1>2
    <2> QED BY <2>1 DEF InvoiceRow
<1> HIDE DEF row, bill, v
<1>7. /\ run' \in [Runs -> RunRow] /\ run'[r] = row
      /\ \A q \in Runs : q # r => run'[q] = run[q]
    BY <1>1, <1>3, <1>4, RunSet
<1>8. /\ supplement' \in [Runs -> InvoiceRow] /\ supplement'[v] = bill
      /\ \A k \in Runs : k # v => supplement'[k] = supplement[k]
    BY <1>1, <1>2, <1>5, <1>6
<1>9. ChangeOrdersTypeOK' BY <1>1, <1>7, <1>8 DEF ChangeOrdersTypeOK, signVars
<1>10. SigningIsLinked' /\ AppliedWasSigned'
    <2>1. \A q \in Runs : run'[q].pc # "idle" => SignedFor(run'[q].order)
        BY <1>1, <1>3, <1>7 DEF ChangeOrdersInductive, SigningIsLinked
    <2> QED BY <1>1, <2>1, SideStays
<1>11. \A q \in Runs : /\ run'[q].bumped = run[q].bumped /\ run'[q].total = run[q].total
                       /\ run'[q].order = run[q].order /\ run'[q].numbered = run[q].numbered
                       /\ run'[q].invoice = run[q].invoice
                       /\ supplement'[q].amount = supplement[q].amount
                       /\ supplement'[q].status = supplement[q].status
                       /\ supplement[q].checkout => supplement'[q].checkout
    BY <1>3, <1>6, <1>7, <1>8 DEF v
<1>12. BilledIsApplied' BY <1>1, <1>11 DEF ChangeOrdersInductive, BilledIsApplied
<1>13. ValueIsSumOfDeltas' BY <1>1, <1>11, ValueStays DEF ChangeOrdersInductive
<1>14. NumberedOnce' BY <1>11 DEF ChangeOrdersInductive, NumberedOnce
<1>15. EnrolledWasSent'
    <2>1. \A e \in dunned : e[1] \in Runs /\ e[2] \in Runs BY <1>1 DEF ChangeOrdersTypeOK
    <2>2. \A e \in dunned : /\ run[e[2]].numbered /\ run[e[2]].invoice = e[1]
                            /\ supplement[e[1]].checkout
        BY DEF ChangeOrdersInductive, EnrolledWasSent
    <2> QED BY <1>1, <1>11, <2>1, <2>2 DEF EnrolledWasSent
<1>16. GapOnlyAfterFailure'
    BY <1>1, <1>3, <1>7 DEF ChangeOrdersInductive, GapOnlyAfterFailure
<1>17. ASSUME NEW q \in Runs PROVE RunIsSound(q)'
    <2>1. CASE q = r
        BY <1>1, <1>2, <1>3, <1>6, <1>7, <1>8, <2>1 DEF RunIsSound, Applying, Paying, v
    <2>2. CASE q # r
        <3>1. run'[q] = run[q] /\ RunIsSound(q) BY <1>7, <2>2 DEF ChangeOrdersInductive
        <3>2. run[q].invoice \in Runs =>
                 /\ supplement'[run[q].invoice].status = supplement[run[q].invoice].status
                 /\ supplement[run[q].invoice].checkout => supplement'[run[q].invoice].checkout
            BY <1>11
        <3>3. run[q].pc \in {"logSent", "enroll"} => run[q].invoice \in Runs
            BY <3>1 DEF RunIsSound, Paying
        <3> QED BY <3>1, <3>2, <3>3 DEF RunIsSound
    <2> QED BY <2>1, <2>2
<1> QED BY <1>9, <1>10, <1>12, <1>13, <1>14, <1>15, <1>16, <1>17 DEF ChangeOrdersInductive

-----------------------------------------------------------------------------
LEMMA ChangeOrdersInitHolds == Init => ChangeOrdersInductive
<1> SUFFICES ASSUME Init PROVE ChangeOrdersInductive OBVIOUS
<1> USE DEF Init
<1>1. ChangeOrdersTypeOK
    <2>1. 0 \in 0..MaxAttempts BY AttemptsAssumption
    <2>2. run \in [Runs -> RunRow] BY <2>1 DEF RunRow, RunPc
    <2>3. order \in [Orders -> OrderRow] BY DEF OrderRow, OrderStatus
    <2>4. signing \in [Submissions -> SigningRow] BY DEF SigningRow
    <2>5. delivery \in [Deliveries -> DeliveryRow] /\ supplement \in [Runs -> InvoiceRow]
        BY DEF DeliveryRow, InvoiceRow
    <2> QED BY <2>2, <2>3, <2>4, <2>5 DEF ChangeOrdersTypeOK
<1>2. SigningIsLinked BY DEF SigningIsLinked
<1>3. AppliedWasSigned /\ BilledIsApplied /\ NumberedOnce /\ EnrolledWasSent /\ GapOnlyAfterFailure
    BY DEF AppliedWasSigned, BilledIsApplied, NumberedOnce, EnrolledWasSent, GapOnlyAfterFailure
<1>4. \A r \in Runs : RunIsSound(r)
    BY AttemptsAssumption DEF RunIsSound, Applying, Paying
<1>5. ValueIsSumOfDeltas
    <2>1. Bumps = {} BY DEF Bumps
    <2> QED BY <2>1 DEF ValueIsSumOfDeltas
<1> QED BY <1>1, <1>2, <1>3, <1>4, <1>5 DEF ChangeOrdersInductive

LEMMA ChangeOrdersStutter ==
    ASSUME ChangeOrdersInductive, UNCHANGED vars PROVE ChangeOrdersInductive'
<1> USE DEF ChangeOrdersInductive, vars, moneyVars, signVars
<1>1. ChangeOrdersTypeOK' BY DEF ChangeOrdersTypeOK
<1>2. SigningIsLinked' BY DEF SigningIsLinked, SignedFor, Completed
<1>3. AppliedWasSigned' BY DEF AppliedWasSigned
<1> QED BY <1>1, <1>2, <1>3, BillingStays

\* Each step of people, of the webhook and of a run, and each failure, keeps it.
LEMMA ChangeOrdersNextKeeps == ASSUME ChangeOrdersInductive, Next PROVE ChangeOrdersInductive'
<1>1. CASE \/ ConnectStripe
           \/ \E o \in Orders, t \in Totals : CreateChangeOrder(o, t) \/ EditLineItems(o, t)
           \/ \E s \in Submissions, o \in Orders : RequestSignature(s, o)
           \/ \E s \in Submissions : StoreSubmission(s) \/ HomeownerSigns(s)
           \/ \E v \in Runs : StaffSend(v) \/ StaffVoid(v)
    BY <1>1, ConnectStripeKeeps, CreateChangeOrderKeeps, EditLineItemsKeeps, RequestSignatureKeeps,
       StoreSubmissionKeeps, HomeownerSignsKeeps, StaffSendKeeps, StaffVoidKeeps
<1>2. CASE \/ \E d \in Deliveries, s \in Submissions : Deliver(d, s)
           \/ \E d \in Deliveries : MarkApproved(d) \/ EmitAccepted(d)
           \/ \E r \in Runs, o \in Orders, d \in Deliveries : Start(r, o, d)
    BY <1>2, DeliverKeeps, MarkApprovedKeeps, EmitAcceptedKeeps, StartKeeps
<1>3. CASE \E r \in Runs : RunStep(r) \/ StepFails(r)
    BY <1>3, ApplyReadKeeps, ApplyWriteKeeps, LogAppliedKeeps, LoadInvoiceKeeps, NumberInvoiceKeeps,
       CreateCheckoutKeeps, StoreCheckoutKeeps, LogSentKeeps, EnrollDunningKeeps, StepFailsKeeps
    DEF RunStep
<1> QED BY <1>1, <1>2, <1>3 DEF Next

\* However the steps of the runs of one job interleave, fail and start over: the contract value is
\* the estimate and every delta applied, what is billed for an order is what was applied for it and
\* was signed before, an invoice is numbered once at most, and dunning misses one a run sent only
\* where a step of the run failed.
THEOREM ChangeOrdersHold == Spec => []ChangeOrdersInv
<1>1. Init => ChangeOrdersInductive BY ChangeOrdersInitHolds
<1>2. ChangeOrdersInductive /\ [Next]_vars => ChangeOrdersInductive'
    BY ChangeOrdersNextKeeps, ChangeOrdersStutter
<1>3. ChangeOrdersInductive => ChangeOrdersInv BY DEF ChangeOrdersInductive, ChangeOrdersInv
<1> QED BY <1>1, <1>2, <1>3, PTL DEF Spec

-----------------------------------------------------------------------------
(* Updates of a row of the tables.                                         *)

\* What is true of a row of the request table after an update of some columns.
LEMMA StatusSet ==
    ASSUME CertTypeOK, NEW c \in Requests, NEW s \in Status,
           request' = [request EXCEPT ![c].status = s]
    PROVE  /\ request' \in [Requests -> RequestRow]
           /\ request'[c].status = s
           /\ \A k \in Requests :
                 /\ request'[k].inspection = request[k].inspection
                 /\ request'[k].job = request[k].job
                 /\ request'[k].invoice = request[k].invoice
                 /\ request'[k].code = request[k].code
                 /\ k # c => request'[k].status = request[k].status
<1> DEFINE q == [request[c] EXCEPT !.status = s]
<1>1. request[c] \in RequestRow BY DEF CertTypeOK
<1>2. /\ q \in RequestRow /\ q.status = s /\ q.inspection = request[c].inspection
      /\ q.job = request[c].job /\ q.invoice = request[c].invoice /\ q.code = request[c].code
    BY <1>1 DEF RequestRow
<1>3. request' = [request EXCEPT ![c] = q] OBVIOUS
<1>4. /\ request' \in [Requests -> RequestRow] /\ request'[c] = q
      /\ \A k \in Requests : k # c => request'[k] = request[k]
    BY <1>2, <1>3 DEF CertTypeOK
<1> HIDE DEF q
<1> QED BY <1>2, <1>4

LEMMA JobSet ==
    ASSUME CertTypeOK, NEW c \in Requests, request' = [request EXCEPT ![c].job = TRUE]
    PROVE  /\ request' \in [Requests -> RequestRow]
           /\ request'[c].job
           /\ \A k \in Requests :
                 /\ request'[k].status = request[k].status
                 /\ request'[k].inspection = request[k].inspection
                 /\ request'[k].invoice = request[k].invoice
                 /\ request'[k].code = request[k].code
                 /\ k # c => request'[k].job = request[k].job
<1> DEFINE q == [request[c] EXCEPT !.job = TRUE]
<1>1. request[c] \in RequestRow BY DEF CertTypeOK
<1>2. /\ q \in RequestRow /\ q.status = request[c].status /\ q.inspection = request[c].inspection
      /\ q.job /\ q.invoice = request[c].invoice /\ q.code = request[c].code
    BY <1>1 DEF RequestRow
<1>3. request' = [request EXCEPT ![c] = q] OBVIOUS
<1>4. /\ request' \in [Requests -> RequestRow] /\ request'[c] = q
      /\ \A k \in Requests : k # c => request'[k] = request[k]
    BY <1>2, <1>3 DEF CertTypeOK
<1> HIDE DEF q
<1> QED BY <1>2, <1>4

LEMMA InvoiceSet ==
    ASSUME CertTypeOK, NEW c \in Requests, NEW n \in 0..MaxDeaths + 1,
           request' = [request EXCEPT ![c].invoice = n]
    PROVE  /\ request' \in [Requests -> RequestRow]
           /\ request'[c].invoice = n
           /\ \A k \in Requests :
                 /\ request'[k].status = request[k].status
                 /\ request'[k].inspection = request[k].inspection
                 /\ request'[k].job = request[k].job
                 /\ request'[k].code = request[k].code
                 /\ k # c => request'[k].invoice = request[k].invoice
<1> DEFINE q == [request[c] EXCEPT !.invoice = n]
<1>1. request[c] \in RequestRow BY DEF CertTypeOK
<1>2. /\ q \in RequestRow /\ q.status = request[c].status /\ q.inspection = request[c].inspection
      /\ q.job = request[c].job /\ q.invoice = n /\ q.code = request[c].code
    BY <1>1 DEF RequestRow
<1>3. request' = [request EXCEPT ![c] = q] OBVIOUS
<1>4. /\ request' \in [Requests -> RequestRow] /\ request'[c] = q
      /\ \A k \in Requests : k # c => request'[k] = request[k]
    BY <1>2, <1>3 DEF CertTypeOK
<1> HIDE DEF q
<1> QED BY <1>2, <1>4

LEMMA CodeSet ==
    ASSUME CertTypeOK, NEW c \in Requests, request' = [request EXCEPT ![c].code = TRUE]
    PROVE  /\ request' \in [Requests -> RequestRow]
           /\ request'[c].code
           /\ \A k \in Requests :
                 /\ request'[k].status = request[k].status
                 /\ request'[k].inspection = request[k].inspection
                 /\ request'[k].job = request[k].job
                 /\ request'[k].invoice = request[k].invoice
                 /\ k # c => request'[k].code = request[k].code
<1> DEFINE q == [request[c] EXCEPT !.code = TRUE]
<1>1. request[c] \in RequestRow BY DEF CertTypeOK
<1>2. /\ q \in RequestRow /\ q.status = request[c].status /\ q.inspection = request[c].inspection
      /\ q.job = request[c].job /\ q.invoice = request[c].invoice /\ q.code
    BY <1>1 DEF RequestRow
<1>3. request' = [request EXCEPT ![c] = q] OBVIOUS
<1>4. /\ request' \in [Requests -> RequestRow] /\ request'[c] = q
      /\ \A k \in Requests : k # c => request'[k] = request[k]
    BY <1>2, <1>3 DEF CertTypeOK
<1> HIDE DEF q
<1> QED BY <1>2, <1>4

LEMMA BookedSet ==
    ASSUME CertTypeOK, NEW c \in Requests, NEW b \in Bookings,
           request' = [request EXCEPT ![c].status = "booked", ![c].inspection = b]
    PROVE  /\ request' \in [Requests -> RequestRow]
           /\ request'[c].status = "booked" /\ request'[c].inspection = b
           /\ \A k \in Requests :
                 /\ request'[k].job = request[k].job
                 /\ request'[k].invoice = request[k].invoice
                 /\ request'[k].code = request[k].code
                 /\ k # c => request'[k].status = request[k].status
                             /\ request'[k].inspection = request[k].inspection
<1> DEFINE q == [request[c] EXCEPT !.status = "booked", !.inspection = b]
<1>1. request[c] \in RequestRow BY DEF CertTypeOK
<1>2. /\ q \in RequestRow /\ q.status = "booked" /\ q.inspection = b
      /\ q.job = request[c].job /\ q.invoice = request[c].invoice /\ q.code = request[c].code
    BY <1>1 DEF RequestRow, Status
<1>3. request' = [request EXCEPT ![c] = q] BY DEF CertTypeOK, RequestRow
<1>4. /\ request' \in [Requests -> RequestRow] /\ request'[c] = q
      /\ \A k \in Requests : k # c => request'[k] = request[k]
    BY <1>2, <1>3 DEF CertTypeOK
<1> HIDE DEF q
<1> QED BY <1>2, <1>4

LEMMA LeavesRow ==
    ASSUME NEW r \in PastRow, NEW pc
    PROVE  /\ Leaves(r, pc) \in PastRow
           /\ Leaves(r, pc).unstamped = IF pc = "stamp" THEN r.unstamped + 1 ELSE r.unstamped
           /\ Leaves(r, pc).unsent = (r.unsent \/ pc = "send")
           /\ Leaves(r, pc).stripeless = r.stripeless
           /\ Leaves(r, pc).torn = (r.torn \/ pc \in Delivering \ {"job"})
           /\ Leaves(r, pc).declined = r.declined /\ Leaves(r, pc).raced = r.raced
<1> DEFINE n == IF pc = "stamp" THEN r.unstamped + 1 ELSE r.unstamped
           u == r.unsent \/ pc = "send"
           t == r.torn \/ pc \in Delivering \ {"job"}
<1>1. n \in Nat /\ u \in BOOLEAN /\ t \in BOOLEAN BY DEF PastRow
<1>2. Leaves(r, pc) = [r EXCEPT !.unstamped = n, !.unsent = u, !.torn = t] BY DEF Leaves
<1> HIDE DEF n, u, t
<1>3. /\ Leaves(r, pc) \in PastRow
      /\ Leaves(r, pc).unstamped = n /\ Leaves(r, pc).unsent = u /\ Leaves(r, pc).torn = t
      /\ Leaves(r, pc).stripeless = r.stripeless
      /\ Leaves(r, pc).declined = r.declined /\ Leaves(r, pc).raced = r.raced
    BY <1>1, <1>2 DEF PastRow
<1> QED BY <1>3 DEF n, u, t

LEMMA PastSet ==
    ASSUME CertTypeOK, NEW c \in Requests, NEW q \in PastRow, past' = [past EXCEPT ![c] = q]
    PROVE  /\ past' \in [Requests -> PastRow] /\ past'[c] = q
           /\ \A k \in Requests : k # c => past'[k] = past[k]
BY DEF CertTypeOK

-----------------------------------------------------------------------------
(* What people do.                                                         *)

\* Nothing of what k was sold, and of what its deliveries left behind, changes.
KeepsSales(k) ==
    /\ bills'[k] = bills[k] /\ links'[k] = links[k]
    /\ <<k, "cert_sale">> \in entries' <=> <<k, "cert_sale">> \in entries
    /\ request'[k].job = request[k].job
    /\ request'[k].invoice = request[k].invoice
    /\ request'[k].code = request[k].code
    /\ past'[k].unstamped = past[k].unstamped
    /\ past'[k].unsent = past[k].unsent
    /\ past'[k].stripeless = past[k].stripeless
    /\ past'[k].torn = past[k].torn

LEMMA SalesKept ==
    ASSUME NEW k \in Requests, KeepsSales(k), BillNamed(k), BillSent(k), LinkedOnce(k),
           CertTypeOK, deaths' \in 0..MaxDeaths, deaths <= deaths',
           At(k, "stamp")' <=> At(k, "stamp"), At(k, "send") => At(k, "send")'
    PROVE  BillNamed(k)' /\ BillSent(k)' /\ LinkedOnce(k)'
<1>1. past[k].unstamped \in Nat /\ deaths \in Nat /\ deaths' \in Nat
    BY CertAssumption DEF CertTypeOK, PastRow
<1>2. BillNamed(k)' BY <1>1 DEF KeepsSales, BillNamed
<1>3. BillSent(k)' BY DEF KeepsSales, BillSent
<1>4. LinkedOnce(k)' BY DEF KeepsSales, LinkedOnce
<1> QED BY <1>2, <1>3, <1>4

\* A step of people that writes no request: inspections advance, and a booking keeps its request.
LEMMA PeopleAct ==
    ASSUME CertsInductive, CertTypeOK', BookingsLinked', ProducedLinked',
           UNCHANGED <<request, certSweep, bills, links, entries, deaths, past>>,
           \A b \in Bookings : /\ booking[b].pc # "idle" => booking'[b].of = booking[b].of
                               /\ IsApproved(b) => IsApproved(b)'
                               /\ IsCompleted(b) => IsCompleted(b)'
    PROVE  CertsInductive'
<1> USE DEF CertsInductive
<1>1. \A b \in Bookings : inspection[b] # "none" => booking'[b].of = booking[b].of
    BY DEF BookingsLinked
<1>2. \A b \in Bookings : IsCompleted(b) => inspection[b] # "none"
    BY CertAssumption DEF IsCompleted, FieldworkOf
<1>3. \A b \in Bookings : IsApproved(b) => inspection[b] # "none"
    BY CertAssumption DEF IsApproved, FieldworkOf
<1>4. DeliveryLinked' BY <1>1, <1>3 DEF DeliveryLinked
<1>5. NotYetDelivered' BY DEF NotYetDelivered
<1>6. \A k \in Requests : BillNamed(k)' /\ BillSent(k)' /\ LinkedOnce(k)'
    BY DEF BillNamed, BillSent, LinkedOnce, At
<1>7. \A k \in Requests : SoldByDelivery(k)' /\ DeclineLasts(k)'
    BY DEF SoldByDelivery, DeclineLasts, At, Freed, NothingSold, Marking
<1>8. DeliveredIsComplete' BY <1>1, <1>3 DEF DeliveredIsComplete
<1>9. CostIsProduced' BY <1>1, <1>2 DEF CostIsProduced
<1> QED BY <1>4, <1>5, <1>6, <1>7, <1>8, <1>9

LEMMA ConnectAccountKeeps ==
    ASSUME CertsInductive, ConnectAccount PROVE CertsInductive'
<1> USE DEF ConnectAccount, CertsInductive, people, sales
<1>1. CertTypeOK' BY DEF CertTypeOK
<1>2. BookingsLinked' BY DEF BookingsLinked
<1>3. ProducedLinked' BY DEF ProducedLinked, IsCompleted, FieldworkOf
<1> QED BY <1>1, <1>2, <1>3, PeopleAct DEF IsApproved, IsCompleted, FieldworkOf

LEMMA BookReadKeeps ==
    ASSUME CertsInductive, NEW b \in Bookings, NEW c \in Requests, BookRead(b, c)
    PROVE  CertsInductive'
<1> USE DEF BookRead, CertsInductive
<1>1. /\ booking' \in [Bookings -> BookingRow]
      /\ booking'[b].pc = "appoint" /\ booking'[b].of = c
      /\ \A d \in Bookings : d # b => booking'[d] = booking[d]
      /\ booking[b].pc = "idle" /\ inspection[b] = "none"
    BY DEF CertTypeOK, BookingsLinked, BookingRow
<1>2. CertTypeOK' BY <1>1 DEF CertTypeOK, sales
<1>3. BookingsLinked' BY <1>1 DEF BookingsLinked
<1>4. ~IsCompleted(b) BY <1>1, CertAssumption DEF IsCompleted, FieldworkOf
<1>5. \A d \in Bookings : IsCompleted(d)' = IsCompleted(d) /\ IsApproved(d)' = IsApproved(d)
    BY DEF IsApproved, IsCompleted, FieldworkOf
<1>6. ProducedLinked' BY <1>1, <1>4, <1>5 DEF ProducedLinked
<1>7. \A d \in Bookings : booking[d].pc # "idle" => booking'[d].of = booking[d].of BY <1>1
<1> QED BY <1>2, <1>3, <1>5, <1>6, <1>7, PeopleAct DEF sales

LEMMA AppointKeeps ==
    ASSUME CertsInductive, NEW b \in Bookings, Appoint(b)
    PROVE  CertsInductive'
<1> USE DEF Appoint, CertsInductive
<1>1. PICK pc \in {"start", "done"} : booking' = [booking EXCEPT ![b].pc = pc] OBVIOUS
<1>2. booking[b].pc = "appoint" /\ booking[b] \in BookingRow
    BY DEF CertTypeOK
<1>3. /\ booking' \in [Bookings -> BookingRow]
      /\ booking'[b].pc = pc /\ booking'[b].of = booking[b].of
      /\ \A d \in Bookings : d # b => booking'[d] = booking[d]
    <2> DEFINE q == [booking[b] EXCEPT !.pc = pc]
    <2>1. q \in BookingRow /\ q.pc = pc /\ q.of = booking[b].of BY <1>1, <1>2 DEF BookingRow
    <2>2. booking' = [booking EXCEPT ![b] = q] BY <1>1
    <2> HIDE DEF q
    <2> QED BY <2>1, <2>2 DEF CertTypeOK
<1>4. CertTypeOK' BY <1>3 DEF CertTypeOK, sales
<1>5. inspection[b] = "none" /\ \A c \in Requests : request[c].inspection # b
    BY <1>2 DEF BookingsLinked, CertTypeOK
<1>6. BookingsLinked' BY <1>2, <1>3, <1>5 DEF BookingsLinked
<1>7. \A d \in Bookings : IsCompleted(d)' = IsCompleted(d) /\ IsApproved(d)' = IsApproved(d)
    BY DEF IsApproved, IsCompleted, FieldworkOf
<1>8. \A d \in Bookings : booking'[d].of = booking[d].of BY <1>3
<1>9. ProducedLinked' BY <1>7, <1>8 DEF ProducedLinked
<1> QED BY <1>4, <1>6, <1>7, <1>8, <1>9, PeopleAct DEF sales

\* An inspection that a booking has started moves on.
LEMMA InspectionAdvances ==
    ASSUME CertsInductive, NEW b \in Bookings, NEW w \in {"pending_approval", "approved"},
           inspection[b] \in {"in_progress", "pending_approval"},
           inspection' = [inspection EXCEPT ![b] = w],
           w = "pending_approval" => inspection[b] = "in_progress",
           UNCHANGED <<stripe, request, people, certSweep, sales, deaths, past>>
    PROVE  CertsInductive'
<1> USE DEF CertsInductive, people, sales
<1>1. /\ inspection' \in [Bookings -> Fieldwork] /\ inspection'[b] = w
      /\ \A d \in Bookings : d # b => inspection'[d] = inspection[d]
    BY DEF CertTypeOK, Fieldwork
<1>2. CertTypeOK' BY <1>1 DEF CertTypeOK
<1>3. BookingsLinked' BY <1>1 DEF BookingsLinked
<1>4. \A d \in Bookings : (IsCompleted(d) => IsCompleted(d)') /\ (IsApproved(d) => IsApproved(d)')
    BY <1>1, CertAssumption DEF IsApproved, IsCompleted, FieldworkOf
<1>5. ProducedLinked' BY <1>4 DEF ProducedLinked
<1> QED BY <1>2, <1>3, <1>4, <1>5, PeopleAct

LEMMA CompleteInspectionKeeps ==
    ASSUME CertsInductive, NEW b \in Bookings, CompleteInspection(b)
    PROVE  CertsInductive'
BY InspectionAdvances DEF CompleteInspection

LEMMA ApproveInspectionKeeps ==
    ASSUME CertsInductive, NEW b \in Bookings, ApproveInspection(b)
    PROVE  CertsInductive'
BY InspectionAdvances DEF ApproveInspection

LEMMA DeclineReadKeeps ==
    ASSUME CertsInductive, NEW c \in Requests, DeclineRead(c)
    PROVE  CertsInductive'
<1> USE DEF DeclineRead, CertsInductive, sales
<1>1. request[c].inspection \in Bookings \cup {Unset} BY DEF CertTypeOK, RequestRow
<1>2. IsCompleted(request[c].inspection) \in BOOLEAN BY DEF IsCompleted
<1>3. CertTypeOK' BY <1>2 DEF CertTypeOK
<1>4. BookingsLinked' BY DEF BookingsLinked
<1>5. \A d \in Bookings : IsCompleted(d)' = IsCompleted(d) /\ IsApproved(d)' = IsApproved(d)
    BY DEF IsApproved, IsCompleted, FieldworkOf
<1>6. IsCompleted(request[c].inspection) => request[c].inspection \in Bookings /\ booking[request[c].inspection].of = c
    BY <1>1 DEF IsCompleted, FieldworkOf, BookingsLinked
<1>7. ProducedLinked' BY <1>5, <1>6 DEF ProducedLinked
<1> QED BY <1>3, <1>4, <1>5, <1>7, PeopleAct

LEMMA StartInspectionKeeps ==
    ASSUME CertsInductive, NEW b \in Bookings, StartInspection(b)
    PROVE  CertsInductive'
<1> DEFINE c == booking[b].of
           p == [past[c] EXCEPT !.raced = @ \/ request[c].status # "requested"]
<1> USE DEF CertsInductive
<1>1. c \in Requests /\ booking[b].pc = "start" /\ inspection[b] = "none"
    BY DEF StartInspection, BookingsLinked, CertTypeOK, Fieldwork
<1>2. /\ request' \in [Requests -> RequestRow]
      /\ request'[c].status = "booked" /\ request'[c].inspection = b
      /\ \A k \in Requests :
            /\ request'[k].job = request[k].job
            /\ request'[k].invoice = request[k].invoice
            /\ request'[k].code = request[k].code
            /\ k # c => request'[k].status = request[k].status
                        /\ request'[k].inspection = request[k].inspection
    BY <1>1, BookedSet DEF StartInspection
<1>3. p \in PastRow /\ p.raced = (past[c].raced \/ request[c].status # "requested")
      /\ p.unstamped = past[c].unstamped /\ p.unsent = past[c].unsent
      /\ p.stripeless = past[c].stripeless /\ p.torn = past[c].torn /\ p.declined = past[c].declined
    <2>1. past[c] \in PastRow BY <1>1 DEF CertTypeOK
    <2> QED BY <2>1 DEF PastRow
<1>4. /\ past' \in [Requests -> PastRow] /\ past'[c] = p
      /\ \A k \in Requests : k # c => past'[k] = past[k]
    <2>1. past' = [past EXCEPT ![c] = p] BY DEF StartInspection
    <2> QED BY <1>1, <1>3, <2>1, PastSet
<1>5. /\ booking' \in [Bookings -> BookingRow]
      /\ booking'[b].of = c /\ booking'[b].pc = "done"
      /\ \A d \in Bookings : d # b => booking'[d] = booking[d]
    BY <1>1 DEF StartInspection, CertTypeOK, BookingRow
<1>6. /\ inspection' \in [Bookings -> Fieldwork] /\ inspection'[b] = "in_progress"
      /\ \A d \in Bookings : d # b => inspection'[d] = inspection[d]
    BY <1>1 DEF StartInspection, CertTypeOK, Fieldwork
<1>7. UNCHANGED <<stripe, declining, certSweep, bills, links, entries, deaths>>
    BY DEF StartInspection, sales
<1> HIDE DEF c, p
<1>8. CertTypeOK' BY <1>2, <1>4, <1>5, <1>6, <1>7 DEF CertTypeOK
<1>9. \A k \in Requests : KeepsSales(k) /\ past'[k].declined = past[k].declined
    BY <1>2, <1>3, <1>4, <1>7 DEF KeepsSales
<1>10. /\ \A d \in Bookings : booking'[d].of = booking[d].of
       /\ \A d \in Bookings : (IsApproved(d) => IsApproved(d)') /\ (IsCompleted(d) => IsCompleted(d)')
    BY <1>1, <1>5, <1>6, CertAssumption DEF c, IsApproved, IsCompleted, FieldworkOf
<1>11. BookingsLinked' BY <1>1, <1>2, <1>5, <1>6 DEF BookingsLinked
<1>12. DeliveryLinked'
    BY <1>2, <1>7, <1>10 DEF DeliveryLinked
<1>13. ProducedLinked' BY <1>7, <1>10 DEF ProducedLinked
<1>14. NotYetDelivered' BY <1>2, <1>7 DEF NotYetDelivered, CertTypeOK, SweepRow
<1>15. \A k \in Requests : BillNamed(k)' /\ BillSent(k)' /\ LinkedOnce(k)'
    <2>1. deaths' \in 0..MaxDeaths /\ deaths <= deaths' BY <1>7, CertAssumption DEF CertTypeOK
    <2>2. \A k \in Requests, pc \in {"stamp", "send"} : At(k, pc)' = At(k, pc) BY <1>7 DEF At
    <2> QED BY <1>9, <2>1, <2>2, SalesKept
<1>16. \A k \in Requests : SoldByDelivery(k)'
    BY ZenonT(40), <1>2, <1>3, <1>4, <1>7, <1>9 DEF SoldByDelivery, KeepsSales, NothingSold, At, Freed
<1>17. \A k \in Requests : DeclineLasts(k)'
    <2> TAKE k \in Requests
    <2>1. Freed(k)' = Freed(k) /\ Marking(k)' = Marking(k) BY <1>7 DEF Freed, Marking
    <2>2. CASE k = c BY <1>1, <1>3, <1>4, <1>9, <2>2 DEF DeclineLasts
    <2>3. CASE k # c BY <1>2, <1>4, <1>7, <2>1, <2>3 DEF DeclineLasts
    <2> QED BY <2>2, <2>3
<1>18. DeliveredIsComplete'
    BY <1>2, <1>7, <1>9, <1>10 DEF DeliveredIsComplete, KeepsSales
<1>19. CostIsProduced' BY <1>7, <1>9, <1>10 DEF CostIsProduced
<1> QED BY <1>8, <1>11, <1>12, <1>13, <1>14, <1>15, <1>16, <1>17, <1>18, <1>19

LEMMA DeclineWriteKeeps ==
    ASSUME CertsInductive, DeclineWrite
    PROVE  CertsInductive'
<1> DEFINE c == declining.of
           p == [past[c] EXCEPT !.declined = TRUE, !.raced = @ \/ OthersAct(c)]
<1> USE DEF CertsInductive
<1>1. c \in Requests BY DEF DeclineWrite, CertTypeOK
<1>2. /\ request' \in [Requests -> RequestRow]
      /\ request'[c].status = "declined"
      /\ \A k \in Requests :
            /\ request'[k].inspection = request[k].inspection
            /\ request'[k].job = request[k].job
            /\ request'[k].invoice = request[k].invoice
            /\ request'[k].code = request[k].code
            /\ k # c => request'[k].status = request[k].status
    BY <1>1, StatusSet DEF DeclineWrite, Status
<1>3. p \in PastRow /\ p.raced = (past[c].raced \/ OthersAct(c)) /\ p.declined
      /\ p.unstamped = past[c].unstamped /\ p.unsent = past[c].unsent
      /\ p.stripeless = past[c].stripeless /\ p.torn = past[c].torn
    <2>1. past[c] \in PastRow BY <1>1 DEF CertTypeOK
    <2>2. OthersAct(c) \in BOOLEAN BY DEF OthersAct
    <2> QED BY <2>1, <2>2 DEF PastRow
<1>4. /\ past' \in [Requests -> PastRow] /\ past'[c] = p
      /\ \A k \in Requests : k # c => past'[k] = past[k]
    <2>1. past' = [past EXCEPT ![c] = p] BY <1>1 DEF DeclineWrite, CertTypeOK, PastRow
    <2> QED BY <1>1, <1>3, <2>1, PastSet
<1>5. /\ entries' \subseteq Requests \X {"cert_sale", "cert_cost"}
      /\ \A k \in Requests : /\ <<k, "cert_sale">> \in entries' <=> <<k, "cert_sale">> \in entries
                             /\ <<k, "cert_cost">> \in entries' =>
                                   <<k, "cert_cost">> \in entries \/ (k = c /\ declining.produced)
    BY <1>1 DEF DeclineWrite, CertTypeOK
<1>6. UNCHANGED <<stripe, inspection, booking, certSweep, bills, links, deaths>> /\ declining' = NoDecline
    BY DEF DeclineWrite
<1> HIDE DEF c, p
<1>7. CertTypeOK' BY <1>2, <1>4, <1>5, <1>6 DEF CertTypeOK, NoDecline
<1>8. \A k \in Requests : KeepsSales(k) /\ (past[k].declined => past'[k].declined)
    BY <1>2, <1>3, <1>4, <1>5, <1>6 DEF KeepsSales
<1>9. \A d \in Bookings : IsApproved(d)' = IsApproved(d) /\ IsCompleted(d)' = IsCompleted(d)
    BY <1>6 DEF IsApproved, IsCompleted, FieldworkOf
<1>10. ~OthersAct(c) => /\ Freed(c) /\ request[c].status # "delivered"
                        /\ c \in certSweep.todo => ~Marking(c)
    BY DEF OthersAct, Freed
<1>11. BookingsLinked' BY <1>2, <1>6 DEF BookingsLinked
<1>12. DeliveryLinked' BY <1>2, <1>5, <1>6, <1>9 DEF DeliveryLinked
<1>13. ProducedLinked' BY <1>6 DEF ProducedLinked, NoDecline
<1>14. NotYetDelivered' BY <1>2, <1>6 DEF NotYetDelivered, CertTypeOK, SweepRow
<1>15. \A k \in Requests : BillNamed(k)' /\ BillSent(k)' /\ LinkedOnce(k)'
    <2>1. deaths' \in 0..MaxDeaths /\ deaths <= deaths' BY <1>6, CertAssumption DEF CertTypeOK
    <2>2. \A k \in Requests, pc \in {"stamp", "send"} : At(k, pc)' = At(k, pc) BY <1>6 DEF At
    <2> QED BY <1>8, <2>1, <2>2, SalesKept
<1>16. \A k \in Requests : SoldByDelivery(k)'
    <2> TAKE k \in Requests
    <2>1. Freed(k)' = Freed(k) /\ At(k, "job")' = At(k, "job") BY <1>6 DEF Freed, At
    <2>2. NothingSold(k)' = NothingSold(k) BY <1>8 DEF KeepsSales, NothingSold
    <2>3. CASE k = c
        BY <1>3, <1>4, <1>10, <2>1, <2>2, <2>3 DEF SoldByDelivery
    <2>4. CASE k # c BY <1>2, <1>4, <2>1, <2>2, <2>4 DEF SoldByDelivery
    <2> QED BY <2>3, <2>4
<1>17. \A k \in Requests : DeclineLasts(k)'
    <2> TAKE k \in Requests
    <2>1. Freed(k)' = Freed(k) /\ Marking(k)' = Marking(k) BY <1>6 DEF Freed, Marking
    <2>2. CASE k = c BY <1>2, <1>3, <1>4, <1>6, <1>10, <2>1, <2>2 DEF DeclineLasts
    <2>3. CASE k # c BY <1>2, <1>4, <1>6, <2>1, <2>3 DEF DeclineLasts
    <2> QED BY <2>2, <2>3
<1>18. DeliveredIsComplete' BY <1>2, <1>6, <1>8, <1>9 DEF DeliveredIsComplete, KeepsSales
<1>19. CostIsProduced'
    BY <1>3, <1>4, <1>5, <1>6, <1>8, <1>9 DEF CostIsProduced, ProducedLinked, c
<1> QED BY <1>7, <1>11, <1>12, <1>13, <1>14, <1>15, <1>16, <1>17, <1>18, <1>19

-----------------------------------------------------------------------------
(* The sweep, before a delivery.                                           *)

\* A step of the sweep that writes no row, before a delivery.
LEMMA SweepReads ==
    ASSUME CertsInductive, CertTypeOK', DeliveryLinked', NotYetDelivered',
           UNCHANGED <<request, inspection, booking, declining, bills, links, entries, past>>,
           certSweep.pc \notin Delivering, certSweep'.pc \notin Delivering \ {"job"},
           deaths <= deaths',
           \A k \in Requests : DeclineLasts(k)'
    PROVE  CertsInductive'
<1> USE DEF CertsInductive
<1>1. BookingsLinked' BY DEF BookingsLinked
<1>2. ProducedLinked' BY DEF ProducedLinked, IsCompleted, FieldworkOf
<1>3. \A k \in Requests : KeepsSales(k) BY DEF KeepsSales
<1>4. \A k \in Requests : BillNamed(k)' /\ BillSent(k)' /\ LinkedOnce(k)'
    <2>1. \A k \in Requests : ~At(k, "stamp") /\ ~At(k, "stamp")' /\ ~At(k, "send")
        BY DEF At, Delivering
    <2>2. deaths' \in 0..MaxDeaths BY DEF CertTypeOK
    <2> QED BY <1>3, <2>1, <2>2, SalesKept
<1>5. \A k \in Requests : SoldByDelivery(k)' BY DEF SoldByDelivery, NothingSold, At, Freed
<1>6. DeliveredIsComplete' BY DEF DeliveredIsComplete, IsApproved, FieldworkOf
<1>7. CostIsProduced' BY DEF CostIsProduced, IsCompleted, FieldworkOf
<1> QED BY <1>1, <1>2, <1>4, <1>5, <1>6, <1>7

LEMMA ListKeeps ==
    ASSUME CertsInductive, List PROVE CertsInductive'
<1> USE DEF CertsInductive
<1>1. /\ certSweep.pc = "idle" /\ certSweep'.pc = "inspections"
      /\ certSweep'.todo = Open /\ certSweep'.listed = request
    BY DEF List, CertTypeOK
<1>2. CertTypeOK' BY DEF List, CertTypeOK, Open, people, sales, SweepRow
<1>3. DeliveryLinked' BY <1>1 DEF DeliveryLinked, Delivering
<1>4. NotYetDelivered' BY <1>1 DEF List, NotYetDelivered, Open
<1>5. \A k \in Requests : DeclineLasts(k)' BY <1>1 DEF List, DeclineLasts, Open, Freed, Delivering
<1> QED BY <1>1, <1>2, <1>3, <1>4, <1>5, SweepReads DEF List, people, sales, Delivering, CertTypeOK

LEMMA ReadInspectionsKeeps ==
    ASSUME CertsInductive, ReadInspections PROVE CertsInductive'
<1> USE DEF CertsInductive
<1> DEFINE f == [c \in Requests |-> FieldworkOf(certSweep.listed[c].inspection)]
<1>1. f \in [Requests -> Fieldwork]
    BY DEF FieldworkOf, CertTypeOK, Fieldwork, RequestRow, SweepRow
<1>2. /\ certSweep.pc = "inspections" /\ certSweep'.pc = "loop" /\ certSweep'.found = f
      /\ certSweep'.todo = certSweep.todo /\ certSweep'.listed = certSweep.listed
      /\ certSweep'.at = certSweep.at /\ certSweep'.row = certSweep.row
    BY DEF ReadInspections, CertTypeOK
<1>3. CertTypeOK'
    <2>1. certSweep' = [certSweep EXCEPT !.pc = "loop", !.found = f] BY DEF ReadInspections
    <2> HIDE DEF f
    <2> QED BY <1>1, <2>1 DEF ReadInspections, CertTypeOK, people, sales, SweepRow
<1>4. DeliveryLinked' BY <1>2 DEF DeliveryLinked, Delivering
<1>5. NotYetDelivered' BY <1>2 DEF ReadInspections, NotYetDelivered
<1>6. \A k \in Requests : DeclineLasts(k)'
    BY <1>2 DEF ReadInspections, DeclineLasts, Freed, Delivering, Marking
<1>7. /\ UNCHANGED <<request, inspection, booking, declining, bills, links, entries, past>>
      /\ deaths' = deaths /\ deaths \in 0..MaxDeaths
    BY DEF ReadInspections, people, sales, CertTypeOK
<1>8. deaths <= deaths' BY <1>7, CertAssumption
<1> QED BY <1>2, <1>3, <1>4, <1>5, <1>6, <1>7, <1>8, SweepReads DEF Delivering

LEMMA SweepEndsKeeps ==
    ASSUME CertsInductive, SweepEnds PROVE CertsInductive'
<1> USE DEF CertsInductive
<1>1. certSweep'.pc = "idle" /\ certSweep'.todo = {} BY DEF SweepEnds, NoSweep
<1>2. NewRequest \in RequestRow BY CertAssumption DEF NewRequest, RequestRow, Status
<1>3. CertTypeOK' BY <1>2 DEF SweepEnds, CertTypeOK, NoSweep, Fieldwork, people, sales, SweepRow
<1>4. DeliveryLinked' BY <1>1 DEF DeliveryLinked, Delivering
<1>5. NotYetDelivered' BY <1>1 DEF NotYetDelivered
<1>6. \A k \in Requests : DeclineLasts(k)'
    BY <1>1 DEF SweepEnds, DeclineLasts, Freed, Delivering
<1> QED BY <1>1, <1>3, <1>4, <1>5, <1>6, SweepReads DEF SweepEnds, people, sales, Delivering, CertTypeOK

LEMMA MarkKeeps ==
    ASSUME CertsInductive, NEW c \in Requests, Mark(c) PROVE CertsInductive'
<1> USE DEF CertsInductive
<1>1. /\ certSweep.pc = "loop" /\ c \in certSweep.todo
      /\ certSweep'.pc = "loop" /\ certSweep'.todo = certSweep.todo \ {c}
      /\ certSweep'.listed = certSweep.listed /\ certSweep'.found = certSweep.found
      /\ certSweep'.at = certSweep.at /\ certSweep'.row = certSweep.row
      /\ certSweep' \in SweepRow
    BY DEF Mark, CertTypeOK, SweepRow
<1>2. UNCHANGED <<stripe, inspection, booking, declining, bills, links, entries, deaths, past>>
    BY DEF Mark, people, sales
<1>3. CASE ~Marks(c)
    <2>1. UNCHANGED request BY <1>3 DEF Mark
    <2>2. CertTypeOK' BY <1>1, <1>2, <2>1 DEF CertTypeOK
    <2>3. DeliveryLinked' BY <1>1 DEF DeliveryLinked, Delivering
    <2>4. NotYetDelivered' BY <1>1, <2>1 DEF NotYetDelivered
    <2>5. \A k \in Requests : DeclineLasts(k)'
        BY <1>1, <1>2, <2>1 DEF DeclineLasts, Freed, Delivering, Marking
    <2> QED BY <1>1, <1>2, <2>1, <2>2, <2>3, <2>4, <2>5, SweepReads DEF Delivering, CertTypeOK
<1>4. CASE Marks(c)
    <2>1. /\ request' \in [Requests -> RequestRow] /\ request'[c].status = "inspected"
          /\ \A k \in Requests :
                /\ request'[k].inspection = request[k].inspection
                /\ request'[k].job = request[k].job
                /\ request'[k].invoice = request[k].invoice
                /\ request'[k].code = request[k].code
                /\ k # c => request'[k].status = request[k].status
        BY <1>4, StatusSet DEF Mark, Status
    <2>2. CertTypeOK' BY <1>1, <1>2, <2>1 DEF CertTypeOK
    <2>3. \A k \in Requests : KeepsSales(k) BY <1>2, <2>1 DEF KeepsSales
    <2>4. Marking(c) /\ request[c].status # "delivered"
        BY <1>1, <1>4 DEF Marks, Marking, NotYetDelivered
    <2>5. BookingsLinked' BY <1>2, <2>1 DEF BookingsLinked
    <2>6. DeliveryLinked' BY <1>1 DEF DeliveryLinked, Delivering
    <2>7. ProducedLinked' BY <1>2 DEF ProducedLinked, IsCompleted, FieldworkOf
    <2>8. NotYetDelivered' BY <1>1, <2>1 DEF NotYetDelivered, CertTypeOK, SweepRow
    <2>9. \A k \in Requests : BillNamed(k)' /\ BillSent(k)' /\ LinkedOnce(k)'
        <3>1. \A k \in Requests : ~At(k, "stamp") /\ ~At(k, "stamp")' /\ ~At(k, "send")
            BY <1>1 DEF At
        <3>2. deaths' \in 0..MaxDeaths /\ deaths <= deaths' BY <1>2, CertAssumption DEF CertTypeOK
        <3> QED BY <2>3, <3>1, <3>2, SalesKept
    <2>10. \A k \in Requests : SoldByDelivery(k)'
        BY <1>1, <1>2, <2>1, <2>3, <2>4 DEF SoldByDelivery, KeepsSales, NothingSold, At, Freed, Delivering
    <2>11. \A k \in Requests : DeclineLasts(k)'
        BY <1>1, <1>2, <2>1, <2>4 DEF DeclineLasts, Freed, Delivering, Marking
    <2>12. DeliveredIsComplete'
        BY <1>2, <2>1 DEF DeliveredIsComplete, IsApproved, FieldworkOf
    <2>13. CostIsProduced' BY <1>2 DEF CostIsProduced, IsCompleted, FieldworkOf
    <2> QED BY <2>2, <2>5, <2>6, <2>7, <2>8, <2>9, <2>10, <2>11, <2>12, <2>13
<1> QED BY <1>3, <1>4

LEMMA DeliverRowKeeps ==
    ASSUME CertsInductive, NEW c \in Requests, DeliverRow(c) PROVE CertsInductive'
<1> USE DEF CertsInductive
<1>1. /\ UNCHANGED <<stripe, request, inspection, booking, declining, bills, links, entries, deaths, past>>
      /\ certSweep.pc = "loop" /\ c \in certSweep.todo
    BY DEF DeliverRow, people, sales
<1>2. CertTypeOK' BY <1>1 DEF DeliverRow, CertTypeOK, Delivering, SweepRow
<1>3. /\ certSweep'.todo = certSweep.todo \ {c}
      /\ certSweep'.listed = certSweep.listed /\ certSweep'.found = certSweep.found
      /\ Refused(request[c]) => certSweep'.pc = "loop"
      /\ ~Refused(request[c]) => certSweep'.pc = "job" /\ certSweep'.at = c /\ certSweep'.row = request[c]
    BY DEF DeliverRow, CertTypeOK
<1>4. request[c].status # "delivered" BY <1>1 DEF NotYetDelivered
<1>5. NotYetDelivered' BY <1>1, <1>3 DEF NotYetDelivered
<1>8. deaths <= deaths' BY <1>1, CertAssumption DEF CertTypeOK
<1>6. CASE Refused(request[c])
    <2>1. DeliveryLinked' BY <1>3, <1>6 DEF DeliveryLinked, Delivering
    <2>2. \A k \in Requests : DeclineLasts(k)'
        BY <1>1, <1>3, <1>6 DEF DeclineLasts, Freed, Delivering, Marking
    <2> QED BY <1>1, <1>2, <1>3, <1>5, <1>6, <1>8, <2>1, <2>2, SweepReads DEF Delivering
<1>7. CASE ~Refused(request[c])
    <2>1. /\ request[c].status # "declined" /\ IsApproved(request[c].inspection)
          /\ request[c].inspection \in Bookings
        BY <1>7, CertAssumption DEF Refused, IsApproved, FieldworkOf, CertTypeOK, RequestRow
    <2>2. booking[request[c].inspection].of = c BY <2>1 DEF BookingsLinked
    <2>3. IsApproved(request[c].inspection)' BY <1>1, <2>1 DEF IsApproved, FieldworkOf
    <2>4. DeliveryLinked'
        BY <1>1, <1>3, <1>4, <1>7, <2>1, <2>2, <2>3 DEF DeliveryLinked
    <2>5. \A k \in Requests : DeclineLasts(k)'
        BY <1>1, <1>3, <1>7, <2>1 DEF DeclineLasts, Freed, Delivering, Marking
    <2> QED BY <1>1, <1>2, <1>3, <1>5, <1>7, <1>8, <2>4, <2>5, SweepReads DEF Delivering
<1> QED BY <1>6, <1>7

-----------------------------------------------------------------------------
(* A delivery, its steps and its early ends.                               *)

\* A step of the delivery of c, which leaves the other requests alone.
LEMMA DeliveryStep ==
    ASSUME CertsInductive, CertTypeOK', DeliveryLinked', certSweep.pc \in Delivering,
           NEW c, c = certSweep.at,
           UNCHANGED <<inspection, booking, declining>>, deaths <= deaths',
           certSweep'.todo \subseteq certSweep.todo,
           certSweep'.pc \in Delivering => certSweep'.at = c,
           \A k \in Requests : /\ past'[k].declined = past[k].declined /\ past'[k].raced = past[k].raced
                               /\ request'[k].inspection = request[k].inspection
                               /\ <<k, "cert_cost">> \in entries' => <<k, "cert_cost">> \in entries
                               /\ k # c => KeepsSales(k) /\ request'[k].status = request[k].status,
           \A k \in certSweep'.todo : certSweep'.listed[k] = certSweep.listed[k]
                               /\ certSweep'.found[k] = certSweep.found[k] /\ certSweep'.pc # "inspections",
           BillNamed(c)', BillSent(c)', LinkedOnce(c)', SoldByDelivery(c)',
           request'[c].status = "delivered" =>
              (/\ request[c].job /\ request[c].invoice \in 1..Len(bills[c]) /\ request[c].code /\ links[c] = 1
               /\ <<c, "cert_sale">> \in entries)'
    PROVE  CertsInductive'
<1> USE DEF CertsInductive
<1>1. /\ c \in Requests \ certSweep.todo /\ certSweep.row.inspection \in Bookings
      /\ IsApproved(certSweep.row.inspection) /\ booking[certSweep.row.inspection].of = c
    BY DEF DeliveryLinked
<1>2. BookingsLinked'
    <2>1. \A k \in Requests : request'[k].inspection = request[k].inspection OBVIOUS
    <2> QED BY <2>1 DEF BookingsLinked
<1>3. ProducedLinked' BY DEF ProducedLinked, IsCompleted, FieldworkOf
<1>4. NotYetDelivered'
    <2> SUFFICES ASSUME NEW k \in certSweep'.todo PROVE request'[k].status # "delivered"
        BY DEF NotYetDelivered
    <2>1. k \in certSweep.todo /\ k \in Requests /\ k # c BY <1>1 DEF CertTypeOK, SweepRow
    <2> QED BY <2>1 DEF NotYetDelivered
<1>5. \A k \in Requests \ {c} :
          /\ BillNamed(k)' /\ BillSent(k)' /\ LinkedOnce(k)'
          /\ Freed(k) /\ Freed(k)'
    <2> TAKE k \in Requests \ {c}
    <2>1. /\ ~At(k, "stamp") /\ ~At(k, "stamp")' /\ ~At(k, "send") /\ Freed(k) /\ Freed(k)'
        BY DEF At, Freed, Delivering
    <2>2. deaths' \in 0..MaxDeaths BY DEF CertTypeOK
    <2> QED BY <2>1, <2>2, SalesKept
<1>6. \A k \in Requests \ {c} : SoldByDelivery(k)'
    <2> TAKE k \in Requests \ {c}
    <2>1. /\ past'[k].torn = past[k].torn /\ past'[k].raced = past[k].raced
          /\ request'[k].status = request[k].status
          /\ NothingSold(k)' = NothingSold(k)
        BY DEF KeepsSales, NothingSold
    <2> QED BY <1>5, <2>1 DEF SoldByDelivery
<1>7. \A k \in Requests : DeclineLasts(k)'
    <2> TAKE k \in Requests
    <2>1. CASE k = c BY <1>1, <2>1 DEF DeclineLasts, Freed
    <2>2. CASE k # c
        <3>1. k \in certSweep'.todo /\ Marking(k)' => k \in certSweep.todo /\ Marking(k)
            BY DEF Marking
        <3> QED BY <1>5, <2>2, <3>1 DEF DeclineLasts
    <2> QED BY <2>1, <2>2
<1>8. DeliveredIsComplete'
    <2>1. \A b \in Bookings : IsApproved(b)' = IsApproved(b) BY DEF IsApproved, FieldworkOf
    <2>2. ASSUME NEW k \in Requests, k # c, request'[k].status = "delivered"
          PROVE  (/\ request[k].job /\ request[k].invoice \in 1..Len(bills[k]) /\ request[k].code
                  /\ links[k] = 1 /\ <<k, "cert_sale">> \in entries
                  /\ \E b \in Bookings : booking[b].of = k /\ IsApproved(b))'
        <3>1. request[k].status = "delivered" /\ KeepsSales(k) BY <2>2
        <3> QED BY <2>1, <3>1 DEF DeliveredIsComplete, KeepsSales
    <2> QED BY <1>1, <2>1, <2>2 DEF DeliveredIsComplete
<1>9. CostIsProduced' BY DEF CostIsProduced, IsCompleted, FieldworkOf
<1> QED BY <1>2, <1>3, <1>4, <1>5, <1>6, <1>7, <1>8, <1>9

\* The step of a delivery moves on to the step pc.
LEMMA SweepToPc ==
    ASSUME CertTypeOK, NEW pc \in Delivering, SweepTo(pc)
    PROVE  /\ certSweep' \in SweepRow
           /\ certSweep'.pc = pc /\ certSweep'.todo = certSweep.todo
           /\ certSweep'.listed = certSweep.listed /\ certSweep'.found = certSweep.found
           /\ certSweep'.at = certSweep.at /\ certSweep'.row = certSweep.row
BY DEF CertTypeOK, SweepTo, SweepRow

\* What the inductive invariant says of the request c that is being delivered.
LEMMA InDelivery ==
    ASSUME CertsInductive, certSweep.pc \in Delivering, NEW c, c = certSweep.at
    PROVE  /\ c \in Requests /\ request[c] \in RequestRow /\ past[c] \in PastRow
           /\ bills[c] \in Seq({"draft", "sent"}) /\ Len(bills[c]) <= MaxDeaths + 1 /\ links[c] \in Nat
           /\ deaths \in 0..MaxDeaths /\ deaths \in Nat
           /\ request[c].status # "delivered" /\ ~Freed(c)
           /\ certSweep.row \in RequestRow
           /\ BillNamed(c) /\ BillSent(c) /\ LinkedOnce(c) /\ SoldByDelivery(c)
BY CertAssumption DEF CertsInductive, DeliveryLinked, Freed, CertTypeOK, SweepRow

\* A step of a delivery that is not its last leaves nothing to say of what c was sold before it.
LEMMA StillDelivering ==
    ASSUME NEW c, certSweep'.at = c, certSweep'.pc \in Delivering \ {"job"}
    PROVE  SoldByDelivery(c)'
BY DEF SoldByDelivery, Freed, At

LEMMA DeliveryGoesOn ==
    ASSUME DeliveryLinked, CertTypeOK, NEW c, c = certSweep.at,
           UNCHANGED <<inspection, booking>>,
           certSweep.pc \in Delivering, certSweep'.pc \in Delivering \ {"job"},
           certSweep'.at = c, certSweep'.row = certSweep.row, certSweep'.todo = certSweep.todo,
           request'[c].status = request[c].status, request'[c].job,
           certSweep.row.code => request'[c].code,
           certSweep'.pc = "invoice" => certSweep.row.invoice = request'[c].invoice,
           certSweep'.pc = "stamp" => request'[c].invoice = 0,
           certSweep'.pc \in {"send", "code", "link", "revenue", "finish"} => request'[c].invoice # 0,
           certSweep'.pc = "link" => links'[c] = 1,
           certSweep'.pc \in {"revenue", "finish"} => request'[c].code,
           certSweep'.pc = "finish" => <<c, "cert_sale">> \in entries'
    PROVE  DeliveryLinked'
<1> DEFINE b == certSweep.row.inspection
<1>1. /\ c \in Requests \ certSweep.todo /\ request[c].status # "delivered"
      /\ b \in Bookings /\ IsApproved(b) /\ booking[b].of = c
    BY DEF DeliveryLinked
<1>2. IsApproved(certSweep.row.inspection)' BY <1>1 DEF IsApproved, FieldworkOf
<1> QED BY <1>1, <1>2 DEF DeliveryLinked

LEMMA CreateJobKeeps ==
    ASSUME CertsInductive, NEW c \in Requests, c = certSweep.at, CreateJob
    PROVE  CertsInductive'
<1>1. CertTypeOK /\ DeliveryLinked /\ certSweep.pc = "job" BY DEF CertsInductive, CreateJob
<1>2. SweepTo("invoice") /\ UNCHANGED <<stripe, inspection, booking, declining, bills, links, entries, deaths, past>>
    BY DEF CreateJob, people, sales
<1>3. /\ c \in Requests /\ past[c] \in PastRow /\ deaths \in 0..MaxDeaths /\ deaths \in Nat
      /\ request[c].status # "delivered" /\ BillNamed(c) /\ BillSent(c) /\ LinkedOnce(c)
    BY <1>1, InDelivery DEF Delivering
<1>4. /\ request' \in [Requests -> RequestRow] /\ request'[c].job
      /\ \A k \in Requests :
            /\ request'[k].status = request[k].status
            /\ request'[k].inspection = request[k].inspection
            /\ request'[k].invoice = request[k].invoice
            /\ request'[k].code = request[k].code
            /\ k # c => request'[k].job = request[k].job
    <2>1. CASE ~certSweep.row.job BY <1>1, <1>3, <2>1, JobSet DEF CreateJob
    <2>2. CASE certSweep.row.job
        <3>1. UNCHANGED request BY <2>2 DEF CreateJob
        <3> QED BY <1>1, <2>2, <3>1 DEF DeliveryLinked, CertTypeOK, SweepRow
    <2> QED BY <2>1, <2>2
<1>5. /\ certSweep' \in SweepRow
      /\ certSweep'.pc = "invoice" /\ certSweep'.todo = certSweep.todo
      /\ certSweep'.listed = certSweep.listed /\ certSweep'.found = certSweep.found
      /\ certSweep'.at = c /\ certSweep'.row = certSweep.row
    BY <1>1, <1>2, SweepToPc DEF Delivering
<1>6. CertTypeOK' BY <1>1, <1>2, <1>4, <1>5 DEF CertTypeOK
<1>7. DeliveryLinked'
    <2>1. certSweep.row.code => request[c].code BY <1>1 DEF DeliveryLinked, Delivering
    <2>2. certSweep.row.invoice = request[c].invoice BY <1>1 DEF DeliveryLinked, Delivering
    <2> QED BY <1>1, <1>2, <1>4, <1>5, <2>1, <2>2, DeliveryGoesOn DEF Delivering
<1>8. BillNamed(c)' BY <1>1, <1>2, <1>3, <1>4, <1>5 DEF BillNamed, At
<1>9. BillSent(c)' BY <1>1, <1>2, <1>3, <1>4, <1>5 DEF BillSent, At
<1>10. LinkedOnce(c)' BY <1>2, <1>3, <1>4 DEF LinkedOnce
<1>11. SoldByDelivery(c)' BY <1>5, StillDelivering DEF Delivering
<1>12. \A k \in Requests : k # c => KeepsSales(k) BY <1>2, <1>4 DEF KeepsSales
<1>13. /\ certSweep.pc \in Delivering /\ certSweep'.pc \in Delivering
       /\ deaths <= deaths' /\ c = certSweep.at
    BY <1>1, <1>2, <1>3, <1>5 DEF Delivering
<1> QED
    BY <1>2, <1>3, <1>4, <1>5, <1>6, <1>7, <1>8, <1>9, <1>10, <1>11, <1>12, <1>13, DeliveryStep

LEMMA CreateBillKeeps ==
    ASSUME CertsInductive, NEW c \in Requests, c = certSweep.at, CreateBill
    PROVE  CertsInductive'
<1>1. CertTypeOK /\ DeliveryLinked /\ certSweep.pc = "invoice" BY DEF CertsInductive, CreateBill
<1>2. UNCHANGED <<stripe, request, inspection, booking, declining, links, entries, deaths, past>>
    BY DEF CreateBill, people
<1>3. /\ past[c] \in PastRow /\ deaths \in 0..MaxDeaths /\ deaths \in Nat /\ deaths <= deaths'
      /\ bills[c] \in Seq({"draft", "sent"}) /\ request[c].status # "delivered" /\ request[c].job
      /\ BillNamed(c) /\ BillSent(c) /\ LinkedOnce(c)
      /\ certSweep.row.invoice = request[c].invoice /\ (certSweep.row.code => request[c].code)
    BY <1>1, <1>2, InDelivery DEF Delivering, DeliveryLinked
<1>4. \A k \in Requests : k # c => bills'[k] = bills[k]
    BY <1>1 DEF CreateBill, CertTypeOK
<1>5. \A k \in Requests : k # c => KeepsSales(k) BY <1>2, <1>4 DEF KeepsSales
<1>6. LinkedOnce(c)' BY <1>2, <1>3 DEF LinkedOnce
<1>7. past[c].unstamped \in Nat BY <1>3 DEF PastRow
<1>8. CASE Billed(certSweep.row)
    <2>1. bills' = bills /\ SweepTo("code") /\ request[c].invoice # 0
        BY <1>3, <1>8 DEF CreateBill, Billed
    <2>2. certSweep' \in SweepRow
          /\ certSweep'.pc = "code" /\ certSweep'.todo = certSweep.todo
          /\ certSweep'.listed = certSweep.listed /\ certSweep'.found = certSweep.found
          /\ certSweep'.at = c /\ certSweep'.row = certSweep.row
        BY <1>1, <2>1, SweepToPc DEF Delivering
    <2>3. CertTypeOK' BY <1>1, <1>2, <2>1, <2>2 DEF CertTypeOK
    <2>4. DeliveryLinked' BY <1>1, <1>2, <1>3, <2>1, <2>2, DeliveryGoesOn DEF Delivering
    <2>5. BillNamed(c)' BY <1>1, <1>2, <1>3, <2>1, <2>2 DEF BillNamed, At
    <2>6. BillSent(c)' BY <1>1, <1>2, <1>3, <2>1, <2>2 DEF BillSent, At
    <2>7. SoldByDelivery(c)' BY <2>2, StillDelivering DEF Delivering
    <2> QED BY <1>1, <1>2, <1>3, <1>5, <1>6, <2>2, <2>3, <2>4, <2>5, <2>6, <2>7, DeliveryStep DEF Delivering
<1>9. CASE ~Billed(certSweep.row)
    <2>1. /\ bills' = [bills EXCEPT ![c] = Append(bills[c], "draft")]
          /\ SweepTo("stamp") /\ request[c].invoice = 0
        BY <1>3, <1>9 DEF CreateBill, Billed
    <2>2. certSweep' \in SweepRow
          /\ certSweep'.pc = "stamp" /\ certSweep'.todo = certSweep.todo
          /\ certSweep'.listed = certSweep.listed /\ certSweep'.found = certSweep.found
          /\ certSweep'.at = c /\ certSweep'.row = certSweep.row
        BY <1>1, <2>1, SweepToPc DEF Delivering
    <2>3. /\ Append(bills[c], "draft") \in Seq({"draft", "sent"})
          /\ Len(Append(bills[c], "draft")) = Len(bills[c]) + 1
          /\ \A n \in 1..Len(bills[c]) : Append(bills[c], "draft")[n] = bills[c][n]
          /\ Append(bills[c], "draft")[Len(bills[c]) + 1] = "draft"
          /\ Len(bills[c]) \in Nat
        BY <1>3
    <2>4. bills' \in [Requests -> Seq({"draft", "sent"})] /\ bills'[c] = Append(bills[c], "draft")
        BY <1>1, <2>1, <2>3 DEF CertTypeOK
    <2>5. Len(bills[c]) = past[c].unstamped /\ past[c].unstamped <= deaths
        BY <1>1, <1>3, <1>7, <2>1 DEF BillNamed, At
    <2>6. \A k \in Requests : Len(bills'[k]) <= MaxDeaths + 1
        <3>1. Len(bills'[c]) <= MaxDeaths + 1
            <4>1. Len(bills'[c]) = past[c].unstamped + 1 BY <2>3, <2>4, <2>5
            <4> QED BY <1>3, <1>7, <2>5, <4>1, CertAssumption
        <3> QED BY <1>1, <1>4, <3>1 DEF CertTypeOK
    <2>7. CertTypeOK' BY <1>1, <1>2, <2>2, <2>4, <2>6 DEF CertTypeOK
    <2>8. DeliveryLinked' BY <1>1, <1>2, <1>3, <2>1, <2>2, DeliveryGoesOn DEF Delivering
    <2>9. BillNamed(c)' BY <1>2, <1>3, <1>7, <2>1, <2>2, <2>3, <2>4, <2>5 DEF BillNamed, At
    <2>10. BillSent(c)'
        <3>1. \A n \in 1..Len(bills[c]) : bills[c][n] # "sent" BY <1>3, <2>1 DEF BillSent
        <3>2. \A n \in 1..Len(bills[c]) + 1 : bills'[c][n] # "sent" BY <2>3, <2>4, <3>1
        <3> QED BY <1>2, <2>1, <2>3, <2>4, <3>2 DEF BillSent
    <2>11. SoldByDelivery(c)' BY <2>2, StillDelivering DEF Delivering
    <2> QED BY <1>1, <1>2, <1>3, <1>5, <1>6, <2>2, <2>7, <2>8, <2>9, <2>10, <2>11, DeliveryStep DEF Delivering
<1> QED BY <1>8, <1>9

LEMMA StampBillKeeps ==
    ASSUME CertsInductive, NEW c \in Requests, c = certSweep.at, StampBill
    PROVE  CertsInductive'
<1>1. CertTypeOK /\ DeliveryLinked /\ certSweep.pc = "stamp" BY DEF CertsInductive, StampBill
<1>2. SweepTo("send") /\ UNCHANGED <<stripe, inspection, booking, declining, bills, links, entries, deaths, past>>
    BY DEF StampBill, people, sales
<1>3. /\ past[c] \in PastRow /\ deaths \in 0..MaxDeaths /\ deaths \in Nat /\ deaths <= deaths'
      /\ bills[c] \in Seq({"draft", "sent"}) /\ Len(bills[c]) <= MaxDeaths + 1
      /\ request[c].status # "delivered" /\ request[c].job /\ request[c].invoice = 0
      /\ BillNamed(c) /\ BillSent(c) /\ LinkedOnce(c) /\ (certSweep.row.code => request[c].code)
    BY <1>1, <1>2, InDelivery DEF Delivering, DeliveryLinked
<1>4. Len(bills[c]) = past[c].unstamped + 1 /\ Len(bills[c]) \in 1..MaxDeaths + 1
    <2>1. past[c].unstamped \in Nat /\ Len(bills[c]) \in Nat BY <1>3 DEF PastRow
    <2> QED BY <1>1, <1>3, <2>1, CertAssumption DEF BillNamed, At
<1>5. /\ request' \in [Requests -> RequestRow] /\ request'[c].invoice = Len(bills[c])
      /\ \A k \in Requests :
            /\ request'[k].status = request[k].status
            /\ request'[k].inspection = request[k].inspection
            /\ request'[k].job = request[k].job
            /\ request'[k].code = request[k].code
            /\ k # c => request'[k].invoice = request[k].invoice
    <2>1. Len(bills[c]) \in 0..MaxDeaths + 1 BY <1>4, CertAssumption
    <2>2. request' = [request EXCEPT ![c].invoice = Len(bills[c])] BY DEF StampBill
    <2> QED BY ZenonT(40), <1>1, <2>1, <2>2, InvoiceSet
<1>6. certSweep' \in SweepRow
      /\ certSweep'.pc = "send" /\ certSweep'.todo = certSweep.todo
      /\ certSweep'.listed = certSweep.listed /\ certSweep'.found = certSweep.found
      /\ certSweep'.at = c /\ certSweep'.row = certSweep.row
    BY <1>1, <1>2, SweepToPc DEF Delivering
<1>7. CertTypeOK' BY <1>1, <1>2, <1>5, <1>6 DEF CertTypeOK
<1>8. DeliveryLinked'
    BY <1>1, <1>2, <1>3, <1>4, <1>5, <1>6, DeliveryGoesOn DEF Delivering
<1>9. BillNamed(c)' BY <1>1, <1>2, <1>3, <1>4, <1>5, <1>6 DEF BillNamed, At
<1>10. BillSent(c)' BY <1>2, <1>3, <1>5, <1>6 DEF BillSent, At
<1>11. LinkedOnce(c)' BY <1>2, <1>3, <1>5 DEF LinkedOnce
<1>12. SoldByDelivery(c)' BY <1>6, StillDelivering DEF Delivering
<1>13. \A k \in Requests : k # c => KeepsSales(k) BY <1>2, <1>5 DEF KeepsSales
<1> QED
    BY <1>1, <1>2, <1>3, <1>5, <1>6, <1>7, <1>8, <1>9, <1>10, <1>11, <1>12, <1>13, DeliveryStep DEF Delivering

LEMMA SendBillKeeps ==
    ASSUME CertsInductive, NEW c \in Requests, c = certSweep.at, SendBill
    PROVE  CertsInductive'
<1> DEFINE v == IF stripe THEN "sent" ELSE "draft"
           w == [bills[c] EXCEPT ![Len(bills[c])] = v]
           p == [past[c] EXCEPT !.stripeless = ~stripe]
<1>1. CertTypeOK /\ DeliveryLinked /\ certSweep.pc = "send" BY DEF CertsInductive, SendBill
<1>2. SweepTo("code") /\ UNCHANGED <<stripe, request, inspection, booking, declining, links, entries, deaths>>
    BY DEF SendBill, people
<1>3. /\ past[c] \in PastRow /\ deaths \in 0..MaxDeaths /\ deaths \in Nat /\ deaths <= deaths'
      /\ bills[c] \in Seq({"draft", "sent"})
      /\ request[c].status # "delivered" /\ request[c].job /\ request[c].invoice # 0
      /\ BillNamed(c) /\ BillSent(c) /\ LinkedOnce(c) /\ (certSweep.row.code => request[c].code)
    BY <1>1, <1>2, InDelivery DEF Delivering, DeliveryLinked
<1>4. request[c].invoice = Len(bills[c]) /\ Len(bills[c]) \in Nat BY <1>3 DEF BillNamed
<1>5. /\ w \in Seq({"draft", "sent"}) /\ Len(w) = Len(bills[c]) /\ w[Len(bills[c])] = v
      /\ \A n \in 1..Len(bills[c]) : n # Len(bills[c]) => w[n] = bills[c][n]
    BY <1>3, <1>4
<1>6. /\ bills' \in [Requests -> Seq({"draft", "sent"})] /\ bills'[c] = w
      /\ \A k \in Requests : k # c => bills'[k] = bills[k]
    <2>1. bills' = [bills EXCEPT ![c] = w] BY DEF SendBill
    <2> HIDE DEF w
    <2> QED BY <1>1, <1>5, <2>1 DEF CertTypeOK
<1>7. /\ p \in PastRow /\ p.stripeless = ~stripe /\ p.unstamped = past[c].unstamped /\ p.unsent = past[c].unsent
      /\ p.torn = past[c].torn /\ p.declined = past[c].declined /\ p.raced = past[c].raced
    BY <1>3 DEF PastRow
<1>8. /\ past' \in [Requests -> PastRow] /\ past'[c] = p
      /\ \A k \in Requests : k # c => past'[k] = past[k]
    <2>1. past' = [past EXCEPT ![c] = p] BY DEF SendBill
    <2> HIDE DEF p
    <2> QED BY <1>1, <1>7, <2>1, PastSet
<1>9. certSweep' \in SweepRow
      /\ certSweep'.pc = "code" /\ certSweep'.todo = certSweep.todo
      /\ certSweep'.listed = certSweep.listed /\ certSweep'.found = certSweep.found
      /\ certSweep'.at = c /\ certSweep'.row = certSweep.row
    BY <1>1, <1>2, SweepToPc DEF Delivering
<1> HIDE DEF p, w
<1>10. CertTypeOK'
    <2>1. \A k \in Requests : Len(bills'[k]) <= MaxDeaths + 1
        BY <1>1, <1>5, <1>6 DEF CertTypeOK
    <2> QED BY <1>1, <1>2, <1>6, <1>8, <1>9, <2>1 DEF CertTypeOK
<1>11. DeliveryLinked' BY <1>1, <1>2, <1>3, <1>9, DeliveryGoesOn DEF Delivering
<1>12. BillNamed(c)'
    <2>1. Len(bills'[c]) = Len(bills[c]) /\ past'[c].unstamped = past[c].unstamped
        BY <1>5, <1>6, <1>7, <1>8
    <2> QED BY <1>1, <1>2, <1>3, <1>9, <2>1 DEF BillNamed, At
<1>13. BillSent(c)'
    <2>1. Len(bills'[c]) = Len(bills[c]) BY <1>5, <1>6
    <2>2. \A n \in 1..Len(bills[c]) : bills'[c][n] = "sent" => n = request[c].invoice
        BY <1>3, <1>4, <1>5, <1>6 DEF BillSent
    <2>3. bills'[c][Len(bills[c])] = "draft" => past'[c].stripeless
        BY <1>5, <1>6, <1>7, <1>8
    <2> QED BY <1>2, <1>4, <2>1, <2>2, <2>3 DEF BillSent
<1>14. LinkedOnce(c)' BY <1>2, <1>3 DEF LinkedOnce
<1>15. SoldByDelivery(c)' BY <1>9, StillDelivering DEF Delivering
<1>16. \A k \in Requests : /\ k # c => KeepsSales(k)
                           /\ past'[k].declined = past[k].declined /\ past'[k].raced = past[k].raced
    BY <1>2, <1>6, <1>7, <1>8 DEF KeepsSales
<1> QED
    BY <1>1, <1>2, <1>3, <1>9, <1>10, <1>11, <1>12, <1>13, <1>14, <1>15, <1>16, DeliveryStep DEF Delivering

LEMMA MintCodeKeeps ==
    ASSUME CertsInductive, NEW c \in Requests, c = certSweep.at, MintCode
    PROVE  CertsInductive'
<1> DEFINE pc == IF certSweep.row.code THEN "revenue" ELSE "link"
<1>1. CertTypeOK /\ DeliveryLinked /\ certSweep.pc = "code" BY DEF CertsInductive, MintCode
<1>2. SweepTo(pc) /\ UNCHANGED <<stripe, request, inspection, booking, declining, bills, entries, deaths, past>>
    BY DEF MintCode, people
<1>3. /\ past[c] \in PastRow /\ deaths \in 0..MaxDeaths /\ deaths \in Nat /\ deaths <= deaths'
      /\ request[c].status # "delivered" /\ request[c].job /\ request[c].invoice # 0 /\ links[c] \in Nat
      /\ BillNamed(c) /\ BillSent(c) /\ LinkedOnce(c) /\ (certSweep.row.code => request[c].code)
    BY <1>1, <1>2, InDelivery DEF Delivering, DeliveryLinked
<1>4. /\ links' \in [Requests -> Nat] /\ \A k \in Requests : k # c => links'[k] = links[k]
      /\ links'[c] = 1
    <2>1. CASE certSweep.row.code \/ Minted(c)
        <3>1. links' = links BY <2>1 DEF MintCode
        <3>2. links[c] = 1 BY <1>3, <2>1 DEF LinkedOnce, Minted
        <3> QED BY <1>1, <3>1, <3>2 DEF CertTypeOK
    <2>2. CASE ~(certSweep.row.code \/ Minted(c))
        <3>1. links[c] = 0 BY <1>3, <2>2 DEF Minted
        <3>2. links' = [links EXCEPT ![c] = links[c] + 1] BY <2>2 DEF MintCode
        <3> QED BY <1>1, <3>1, <3>2 DEF CertTypeOK
    <2> QED BY <2>1, <2>2
<1>5. certSweep' \in SweepRow
      /\ certSweep'.pc = pc /\ certSweep'.todo = certSweep.todo
      /\ certSweep'.listed = certSweep.listed /\ certSweep'.found = certSweep.found
      /\ certSweep'.at = c /\ certSweep'.row = certSweep.row
    <2>1. pc \in Delivering BY DEF Delivering
    <2> HIDE DEF pc
    <2> QED BY <1>1, <1>2, <2>1, SweepToPc
<1>6. certSweep'.pc \in {"revenue", "link"} /\ (certSweep'.pc = "revenue" => certSweep.row.code)
    BY <1>5
<1> HIDE DEF pc
<1>7. CertTypeOK' BY <1>1, <1>2, <1>4, <1>5 DEF CertTypeOK
<1>8. DeliveryLinked' BY <1>1, <1>2, <1>3, <1>4, <1>5, <1>6, DeliveryGoesOn DEF Delivering
<1>9. BillNamed(c)' BY <1>1, <1>2, <1>3, <1>6 DEF BillNamed, At
<1>10. BillSent(c)' BY <1>1, <1>2, <1>3, <1>6 DEF BillSent, At
<1>11. LinkedOnce(c)' BY <1>4 DEF LinkedOnce
<1>12. SoldByDelivery(c)' BY <1>5, <1>6, StillDelivering DEF Delivering
<1>13. \A k \in Requests : k # c => KeepsSales(k) BY <1>2, <1>4 DEF KeepsSales
<1> QED
    BY <1>1, <1>2, <1>3, <1>5, <1>6, <1>7, <1>8, <1>9, <1>10, <1>11, <1>12, <1>13, DeliveryStep DEF Delivering

LEMMA StampCodeKeeps ==
    ASSUME CertsInductive, NEW c \in Requests, c = certSweep.at, StampCode
    PROVE  CertsInductive'
<1>1. CertTypeOK /\ DeliveryLinked /\ certSweep.pc = "link" BY DEF CertsInductive, StampCode
<1>2. SweepTo("revenue") /\ UNCHANGED <<stripe, inspection, booking, declining, bills, links, entries, deaths, past>>
    BY DEF StampCode, people, sales
<1>3. /\ past[c] \in PastRow /\ deaths \in 0..MaxDeaths /\ deaths \in Nat /\ deaths <= deaths'
      /\ request[c].status # "delivered" /\ request[c].job /\ request[c].invoice # 0 /\ links[c] = 1
      /\ BillNamed(c) /\ BillSent(c) /\ LinkedOnce(c)
    BY <1>1, <1>2, InDelivery DEF Delivering, DeliveryLinked
<1>4. /\ request' \in [Requests -> RequestRow] /\ request'[c].code
      /\ \A k \in Requests :
            /\ request'[k].status = request[k].status
            /\ request'[k].inspection = request[k].inspection
            /\ request'[k].job = request[k].job
            /\ request'[k].invoice = request[k].invoice
            /\ k # c => request'[k].code = request[k].code
    BY <1>1, CodeSet DEF StampCode
<1>5. certSweep' \in SweepRow
      /\ certSweep'.pc = "revenue" /\ certSweep'.todo = certSweep.todo
      /\ certSweep'.listed = certSweep.listed /\ certSweep'.found = certSweep.found
      /\ certSweep'.at = c /\ certSweep'.row = certSweep.row
    BY <1>1, <1>2, SweepToPc DEF Delivering
<1>6. CertTypeOK' BY <1>1, <1>2, <1>4, <1>5 DEF CertTypeOK
<1>7. DeliveryLinked' BY <1>1, <1>2, <1>3, <1>4, <1>5, DeliveryGoesOn DEF Delivering
<1>8. BillNamed(c)' BY <1>1, <1>2, <1>3, <1>4, <1>5 DEF BillNamed, At
<1>9. BillSent(c)' BY <1>1, <1>2, <1>3, <1>4, <1>5 DEF BillSent, At
<1>10. LinkedOnce(c)' BY <1>2, <1>3, <1>4 DEF LinkedOnce
<1>11. SoldByDelivery(c)' BY <1>5, StillDelivering DEF Delivering
<1>12. \A k \in Requests : k # c => KeepsSales(k) BY <1>2, <1>4 DEF KeepsSales
<1> QED
    BY <1>1, <1>2, <1>3, <1>4, <1>5, <1>6, <1>7, <1>8, <1>9, <1>10, <1>11, <1>12, DeliveryStep DEF Delivering

LEMMA AccrueSaleKeeps ==
    ASSUME CertsInductive, NEW c \in Requests, c = certSweep.at, AccrueSale
    PROVE  CertsInductive'
<1>1. CertTypeOK /\ DeliveryLinked /\ certSweep.pc = "revenue" BY DEF CertsInductive, AccrueSale
<1>2. SweepTo("finish") /\ UNCHANGED <<stripe, request, inspection, booking, declining, bills, links, deaths, past>>
    BY DEF AccrueSale, people
<1>3. /\ past[c] \in PastRow /\ deaths \in 0..MaxDeaths /\ deaths \in Nat /\ deaths <= deaths'
      /\ request[c].status # "delivered" /\ request[c].job /\ request[c].invoice # 0 /\ request[c].code
      /\ BillNamed(c) /\ BillSent(c) /\ LinkedOnce(c)
    BY <1>1, <1>2, InDelivery DEF Delivering, DeliveryLinked
<1>4. entries' = entries \cup {<<c, "cert_sale">>} BY DEF AccrueSale
<1>5. certSweep' \in SweepRow
      /\ certSweep'.pc = "finish" /\ certSweep'.todo = certSweep.todo
      /\ certSweep'.listed = certSweep.listed /\ certSweep'.found = certSweep.found
      /\ certSweep'.at = c /\ certSweep'.row = certSweep.row
    BY <1>1, <1>2, SweepToPc DEF Delivering
<1>6. /\ <<c, "cert_sale">> \in entries'
      /\ \A k \in Requests : /\ <<k, "cert_cost">> \in entries' => <<k, "cert_cost">> \in entries
                             /\ k # c => (<<k, "cert_sale">> \in entries' <=> <<k, "cert_sale">> \in entries)
    BY <1>4
<1>7. CertTypeOK'
    <2>1. entries' \subseteq Requests \X {"cert_sale", "cert_cost"} BY <1>1, <1>4 DEF CertTypeOK
    <2> QED BY <1>1, <1>2, <1>5, <2>1 DEF CertTypeOK
<1>8. DeliveryLinked' BY <1>1, <1>2, <1>3, <1>5, <1>6, DeliveryGoesOn DEF Delivering
<1>9. BillNamed(c)' BY <1>1, <1>2, <1>3, <1>5 DEF BillNamed, At
<1>10. BillSent(c)' BY <1>1, <1>2, <1>3, <1>5 DEF BillSent, At
<1>11. LinkedOnce(c)' BY <1>2, <1>3 DEF LinkedOnce
<1>12. SoldByDelivery(c)' BY <1>5, StillDelivering DEF Delivering
<1>13. \A k \in Requests : k # c => KeepsSales(k) BY <1>2, <1>6 DEF KeepsSales
<1> QED
    BY <1>1, <1>2, <1>3, <1>5, <1>6, <1>7, <1>8, <1>9, <1>10, <1>11, <1>12, <1>13, DeliveryStep DEF Delivering

\* What a delivery that is over, or cut short, leaves of the sweep.
LEMMA OverType ==
    ASSUME CertTypeOK, certSweep' = Onward \/ certSweep' = NoSweep
    PROVE  /\ certSweep' \in SweepRow
           /\ certSweep'.pc \in {"idle", "loop"} /\ certSweep'.todo \subseteq certSweep.todo
           /\ \A k \in certSweep'.todo : certSweep'.listed[k] = certSweep.listed[k]
                                         /\ certSweep'.found[k] = certSweep.found[k]
<1>1. NewRequest \in RequestRow BY CertAssumption DEF NewRequest, RequestRow, Status
<1>2. CASE certSweep' = Onward BY <1>1, <1>2 DEF Onward, CertTypeOK, SweepRow
<1>3. CASE certSweep' = NoSweep BY <1>1, <1>3 DEF NoSweep, CertTypeOK, Fieldwork, SweepRow
<1> QED BY <1>2, <1>3

LEMMA FinishKeeps ==
    ASSUME CertsInductive, NEW c \in Requests, c = certSweep.at, Finish
    PROVE  CertsInductive'
<1>1. CertTypeOK /\ DeliveryLinked /\ certSweep.pc = "finish" BY DEF CertsInductive, Finish
<1>2. /\ certSweep' = Onward
      /\ UNCHANGED <<stripe, inspection, booking, declining, bills, links, entries, deaths, past>>
    BY DEF Finish, people, sales
<1>3. /\ past[c] \in PastRow /\ deaths \in 0..MaxDeaths /\ deaths \in Nat /\ deaths <= deaths'
      /\ bills[c] \in Seq({"draft", "sent"})
      /\ request[c].job /\ request[c].invoice # 0 /\ request[c].code /\ <<c, "cert_sale">> \in entries
      /\ BillNamed(c) /\ BillSent(c) /\ LinkedOnce(c)
    BY <1>1, <1>2, InDelivery DEF Delivering, DeliveryLinked
<1>4. /\ request' \in [Requests -> RequestRow] /\ request'[c].status = "delivered"
      /\ \A k \in Requests :
            /\ request'[k].inspection = request[k].inspection
            /\ request'[k].job = request[k].job
            /\ request'[k].invoice = request[k].invoice
            /\ request'[k].code = request[k].code
            /\ k # c => request'[k].status = request[k].status
    BY <1>1, StatusSet DEF Finish, Status
<1>5. /\ certSweep'.pc \in {"idle", "loop"} /\ certSweep'.todo \subseteq certSweep.todo
      /\ \A k \in certSweep'.todo : certSweep'.listed[k] = certSweep.listed[k]
                                    /\ certSweep'.found[k] = certSweep.found[k]
    BY <1>1, <1>2, OverType
<1>6. CertTypeOK' BY <1>1, <1>2, <1>4, OverType DEF CertTypeOK
<1>7. DeliveryLinked' BY <1>5 DEF DeliveryLinked, Delivering
<1>8. BillNamed(c)' BY <1>1, <1>2, <1>3, <1>4, <1>5 DEF BillNamed, At
<1>9. BillSent(c)' BY <1>1, <1>2, <1>3, <1>4 DEF BillSent, At
<1>10. LinkedOnce(c)' BY <1>2, <1>3, <1>4 DEF LinkedOnce
<1>11. SoldByDelivery(c)' BY <1>4 DEF SoldByDelivery
<1>12. \A k \in Requests : k # c => KeepsSales(k) BY <1>2, <1>4 DEF KeepsSales
<1>13. (/\ request[c].job /\ request[c].invoice \in 1..Len(bills[c]) /\ request[c].code /\ links[c] = 1
        /\ <<c, "cert_sale">> \in entries)'
    <2>1. Len(bills[c]) \in Nat BY <1>3
    <2> QED BY <1>2, <1>3, <1>4, <2>1 DEF BillNamed, LinkedOnce
<1> QED
    BY <1>1, <1>2, <1>3, <1>4, <1>5, <1>6, <1>7, <1>8, <1>9, <1>10, <1>11, <1>12, <1>13, DeliveryStep DEF Delivering

\* An early end of the delivery of c, at any of its steps.
LEMMA CutShort ==
    ASSUME CertsInductive, NEW c \in Requests, c = certSweep.at, certSweep.pc \in Delivering,
           (certSweep' = Onward /\ certSweep.pc = "code") \/ certSweep' = NoSweep,
           deaths < MaxDeaths, deaths' = deaths + 1,
           past' = [past EXCEPT ![c] = Leaves(past[c], certSweep.pc)],
           UNCHANGED <<stripe, request, inspection, booking, declining, bills, links, entries>>
    PROVE  CertsInductive'
<1> DEFINE q == Leaves(past[c], certSweep.pc)
<1>1. CertTypeOK /\ DeliveryLinked BY DEF CertsInductive
<1>2. /\ past[c] \in PastRow /\ deaths \in Nat /\ deaths' \in 0..MaxDeaths /\ deaths <= deaths'
      /\ bills[c] \in Seq({"draft", "sent"}) /\ request[c].status # "delivered"
      /\ BillNamed(c) /\ BillSent(c) /\ LinkedOnce(c) /\ SoldByDelivery(c)
    <2>1. deaths \in 0..MaxDeaths BY <1>1 DEF CertTypeOK
    <2>2. deaths \in Nat /\ deaths' \in 0..MaxDeaths /\ deaths <= deaths' BY <2>1, CertAssumption
    <2> QED BY <2>2, InDelivery
<1>3. /\ q \in PastRow
      /\ q.unstamped = IF certSweep.pc = "stamp" THEN past[c].unstamped + 1 ELSE past[c].unstamped
      /\ q.unsent = (past[c].unsent \/ certSweep.pc = "send")
      /\ q.stripeless = past[c].stripeless
      /\ q.torn = (past[c].torn \/ certSweep.pc \in Delivering \ {"job"})
      /\ q.declined = past[c].declined /\ q.raced = past[c].raced
    BY <1>2, LeavesRow
<1>4. /\ past' \in [Requests -> PastRow] /\ past'[c] = q
      /\ \A k \in Requests : k # c => past'[k] = past[k]
    <2> HIDE DEF q
    <2> QED BY <1>1, <1>3, PastSet DEF q
<1> HIDE DEF q
<1>5. /\ certSweep'.pc \in {"idle", "loop"} /\ certSweep'.todo \subseteq certSweep.todo
      /\ \A k \in certSweep'.todo : certSweep'.listed[k] = certSweep.listed[k]
                                    /\ certSweep'.found[k] = certSweep.found[k]
    BY <1>1, OverType
<1>6. CertTypeOK' BY <1>1, <1>2, <1>4, OverType DEF CertTypeOK
<1>7. DeliveryLinked' BY <1>5 DEF DeliveryLinked, Delivering
<1>8. BillNamed(c)'
    <2>1. past[c].unstamped \in Nat BY <1>2 DEF PastRow
    <2>2. past'[c].unstamped = past[c].unstamped + IF certSweep.pc = "stamp" THEN 1 ELSE 0
        BY <1>3, <1>4, <2>1
    <2>3. ~At(c, "stamp")' /\ (At(c, "stamp") <=> certSweep.pc = "stamp") BY <1>5 DEF At
    <2>4. certSweep.pc = "stamp" => request[c].invoice = 0 BY <1>1 DEF DeliveryLinked
    <2> QED BY <1>2, <2>1, <2>2, <2>3, <2>4 DEF BillNamed
<1>9. BillSent(c)'
    <2>1. At(c, "send") => certSweep.pc = "send" BY DEF At
    <2> QED BY <1>2, <1>3, <1>4, <2>1 DEF BillSent
<1>10. LinkedOnce(c)' BY <1>2 DEF LinkedOnce
<1>11. SoldByDelivery(c)'
    <2>1. CASE certSweep.pc = "job"
        <3>1. past'[c].torn = past[c].torn /\ past'[c].raced = past[c].raced
            BY <1>2, <1>3, <1>4, <2>1 DEF PastRow
        <3>2. At(c, "job") BY <2>1 DEF At
        <3> QED BY <1>2, <3>1, <3>2 DEF SoldByDelivery, NothingSold
    <2>2. CASE certSweep.pc # "job" BY <1>3, <1>4, <2>2 DEF SoldByDelivery
    <2> QED BY <2>1, <2>2
<1>12. \A k \in Requests : /\ k # c => KeepsSales(k)
                           /\ past'[k].declined = past[k].declined /\ past'[k].raced = past[k].raced
    BY <1>3, <1>4 DEF KeepsSales
<1>13. \A k \in certSweep'.todo : certSweep'.pc # "inspections" BY <1>5
<1> QED
    BY <1>2, <1>5, <1>6, <1>7, <1>8, <1>9, <1>10, <1>11, <1>12, <1>13, DeliveryStep DEF Delivering

LEMMA NoCodeKeeps ==
    ASSUME CertsInductive, NEW c \in Requests, c = certSweep.at, NoCode
    PROVE  CertsInductive'
<1>1. past' = [past EXCEPT ![c] = Leaves(past[c], "code")] BY DEF NoCode
<1> QED BY <1>1, CutShort DEF NoCode, people, sales, Delivering

LEMMA SweepDiesKeeps ==
    ASSUME CertsInductive, SweepDies
    PROVE  CertsInductive'
<1>1. CertTypeOK /\ DeliveryLinked BY DEF CertsInductive
<1>2. CASE certSweep.pc \in Delivering
    <2>1. PICK c \in Requests : c = certSweep.at BY <1>1, <1>2 DEF DeliveryLinked
    <2>2. past' = [past EXCEPT ![c] = Leaves(past[c], certSweep.pc)] BY <1>2, <2>1 DEF SweepDies
    <2> QED BY <1>2, <2>1, <2>2, CutShort DEF SweepDies, people, sales
<1>3. CASE certSweep.pc \notin Delivering
    <2>1. /\ UNCHANGED <<stripe, request, inspection, booking, declining, bills, links, entries, past>>
          /\ deaths \in 0..MaxDeaths /\ deaths' = deaths + 1 /\ deaths < MaxDeaths
        BY <1>1, <1>3 DEF SweepDies, people, sales, CertTypeOK
    <2>2. deaths' \in 0..MaxDeaths /\ deaths <= deaths' BY <2>1, CertAssumption
    <2>3. certSweep'.pc = "idle" /\ certSweep'.todo = {} BY DEF SweepDies, NoSweep
    <2>4. CertTypeOK' BY <1>1, <2>1, <2>2, OverType DEF SweepDies, CertTypeOK
    <2>5. DeliveryLinked' BY <2>3 DEF DeliveryLinked, Delivering
    <2>6. NotYetDelivered' BY <2>3 DEF NotYetDelivered
    <2>7. \A k \in Requests : DeclineLasts(k)'
        BY <2>1, <2>3 DEF CertsInductive, DeclineLasts, Freed, Delivering
    <2> QED BY <1>3, <2>1, <2>2, <2>3, <2>4, <2>5, <2>6, <2>7, SweepReads DEF Delivering
<1> QED BY <1>2, <1>3


-----------------------------------------------------------------------------
(* The theorem.                                                            *)

LEMMA CertInitHolds == CertInit => CertsInductive
<1> SUFFICES ASSUME CertInit PROVE CertsInductive OBVIOUS
<1> USE CertAssumption DEF CertInit
<1>1. NewRequest \in RequestRow BY DEF NewRequest, RequestRow, Status
<1>2. CertTypeOK
    BY <1>1 DEF CertTypeOK, NoSweep, NoDecline, Fieldwork, PastRow, people, sales, SweepRow, BookingRow
<1>3. BookingsLinked BY DEF BookingsLinked, NewRequest
<1>4. DeliveryLinked BY DEF DeliveryLinked, NoSweep, Delivering
<1>5. ProducedLinked /\ NotYetDelivered BY DEF ProducedLinked, NotYetDelivered, NoDecline, NoSweep
<1>6. \A c \in Requests :
          BillNamed(c) /\ BillSent(c) /\ LinkedOnce(c) /\ SoldByDelivery(c) /\ DeclineLasts(c)
    BY DEF BillNamed, BillSent, LinkedOnce, SoldByDelivery, DeclineLasts, NothingSold, At, Freed,
           NoSweep, NewRequest
<1>7. DeliveredIsComplete /\ CostIsProduced BY DEF DeliveredIsComplete, CostIsProduced, NewRequest
<1> QED BY <1>2, <1>3, <1>4, <1>5, <1>6, <1>7 DEF CertsInductive

LEMMA CertStutter == ASSUME CertsInductive, UNCHANGED certVars PROVE CertsInductive'
<1> USE DEF CertsInductive, certVars, people, sales
<1>1. CertTypeOK' BY DEF CertTypeOK
<1>2. BookingsLinked' BY DEF BookingsLinked
<1>3. ProducedLinked' BY DEF ProducedLinked, IsCompleted, FieldworkOf
<1> QED BY <1>1, <1>2, <1>3, PeopleAct DEF IsApproved, IsCompleted, FieldworkOf

\* Each step of people, of the sweep and each fault keeps it.
LEMMA CertNextKeeps == ASSUME CertsInductive, CertNext PROVE CertsInductive'
<1>1. CASE \/ ConnectAccount \/ DeclineWrite
           \/ \E c \in Requests : DeclineRead(c)
           \/ \E b \in Bookings : \/ \E c \in Requests : BookRead(b, c)
                                  \/ Appoint(b) \/ StartInspection(b)
                                  \/ CompleteInspection(b) \/ ApproveInspection(b)
    BY <1>1, ConnectAccountKeeps, DeclineWriteKeeps, DeclineReadKeeps, BookReadKeeps, AppointKeeps,
       StartInspectionKeeps, CompleteInspectionKeeps, ApproveInspectionKeeps
<1>2. CASE List \/ ReadInspections \/ SweepEnds \/ \E c \in Requests : Mark(c) \/ DeliverRow(c)
    BY <1>2, ListKeeps, ReadInspectionsKeeps, SweepEndsKeeps, MarkKeeps, DeliverRowKeeps
<1>3. CASE CreateJob \/ CreateBill \/ StampBill \/ SendBill \/ MintCode \/ StampCode
           \/ AccrueSale \/ Finish \/ NoCode
    <2>1. certSweep.pc \in Delivering
        BY <1>3 DEF CreateJob, CreateBill, StampBill, SendBill, MintCode, StampCode, AccrueSale,
                    Finish, NoCode, Delivering
    <2>2. PICK c \in Requests : c = certSweep.at BY <2>1 DEF CertsInductive, DeliveryLinked
    <2> QED
        BY <1>3, <2>2, CreateJobKeeps, CreateBillKeeps, StampBillKeeps, SendBillKeeps, MintCodeKeeps,
           StampCodeKeeps, AccrueSaleKeeps, FinishKeeps, NoCodeKeeps
<1>4. CASE SweepDies BY <1>4, SweepDiesKeeps
<1> QED BY <1>1, <1>2, <1>3, <1>4 DEF CertNext, CertSweepStep

\* Of the bills of a request only the one its row names was sent, so at most one was.
LEMMA SentOnce ==
    ASSUME CertsInductive, NEW c \in Requests
    PROVE  Cardinality({n \in 1..Len(bills[c]) : bills[c][n] = "sent"}) <= 1
<1> DEFINE s == {n \in 1..Len(bills[c]) : bills[c][n] = "sent"}
<1>1. s \subseteq {request[c].invoice} BY DEF CertsInductive, BillSent
<1>2. IsFiniteSet({request[c].invoice}) /\ Cardinality({request[c].invoice}) = 1
    BY FS_Singleton
<1>3. Cardinality(s) <= Cardinality({request[c].invoice}) BY <1>1, <1>2, FS_Subset
<1> QED BY <1>2, <1>3

LEMMA CertsFollow == CertsInductive => CertsInv
<1> SUFFICES ASSUME CertsInductive PROVE CertsInv OBVIOUS
<1> USE DEF CertsInductive
<1>1. BilledOncePerDeath
    <2> SUFFICES ASSUME NEW c \in Requests
                 PROVE  /\ Len(bills[c]) <= past[c].unstamped + 1
                        /\ request[c].status = "delivered" /\ bills[c][request[c].invoice] = "draft" =>
                              past[c].unsent \/ past[c].stripeless
        BY SentOnce DEF BilledOncePerDeath
    <2>1. past[c].unstamped \in Nat BY DEF CertTypeOK, PastRow
    <2>2. Len(bills[c]) <= past[c].unstamped + 1 BY <2>1 DEF BillNamed
    <2>3. request[c].status = "delivered" => request[c].invoice # 0
        <3>1. Len(bills[c]) \in Nat BY DEF CertTypeOK
        <3>2. request[c].status = "delivered" => request[c].invoice \in 1..Len(bills[c])
            BY DEF DeliveredIsComplete
        <3> QED BY <3>1, <3>2
    <2>4. request[c].status = "delivered" => ~At(c, "send") BY DEF DeliveryLinked, At, Delivering
    <2> QED BY <2>2, <2>3, <2>4 DEF BillSent
<1>2. DeclineStands BY DEF DeclineStands, SoldByDelivery, DeclineLasts, NothingSold
<1> QED BY <1>1, <1>2 DEF CertsInv

\* Whatever dies on the way and whoever books or declines meanwhile: what is delivered is
\* complete, a request is billed once but for each death before its bill was stamped, a decline
\* nobody raced stands, and the partner pays for what was produced and declined alone.
THEOREM CertsHold == CertSpec => []CertsInv
<1>1. CertInit => CertsInductive BY CertInitHolds
<1>2. CertsInductive /\ [CertNext]_certVars => CertsInductive' BY CertNextKeeps, CertStutter
<1>3. CertsInductive => CertsInv BY CertsFollow
<1> QED BY <1>1, <1>2, <1>3, PTL DEF CertSpec
=============================================================================
