----------------------- MODULE SessionSupervisorProofs -----------------------
(***************************************************************************)
(* Proofs about Reconciliation and SessionSupervisor for any finite set of *)
(* client orders, any sides and sizes, either adapter, and any number of   *)
(* restarts, outages and broker fills: the audit trail of an unresolved    *)
(* start is kept, corrections never credit fills the broker does not have, *)
(* and a start that claims recovery has compared what it claims.           *)
(***************************************************************************)
EXTENDS SessionSupervisor, FiniteSetTheorems, SequenceTheorems, TLAPS

-----------------------------------------------------------------------------
(* The inductive invariant                                                 *)

Outcomes == {"unknown_broker_order", "missing_broker_order", "quantity_mismatch", "status_mismatch",
             "missing_broker_position", "unexpected_broker_position"}
Corrections == {"order_status", "order_fill_qty", "position_quantity"}
Findings == [outcome: Outcomes, kind: Corrections, client: Clients \cup {"none"},
             status: BrokerStatus, qty: Int]

Types ==
    /\ SupervisorTypeOK
    /\ rows \in Seq(Int \ {0})
    /\ Remote => Len(rows) < 2
    /\ report \in Seq(Findings)

\* The books of the broker, and the ledger's fills below them.
BookOK(c) ==
    /\ book[c].filled <= Size[c]
    /\ book[c].status \in {"none", "pending", "open"} => book[c].filled < Size[c]
    /\ book[c].status = "filled" => book[c].filled = Size[c]

Books == \A c \in Clients : BookOK(c)

\* A quantity the report writes back was the ledger's own when it was made, and
\* the broker has only filled more since.
Backed(f) ==
    f.kind = "order_fill_qty" => f.client \in Clients /\ f.qty \in Nat /\ f.qty <= book[f.client].filled

Reported == \A i \in DOMAIN report : Backed(report[i])

\* What start has found so far is not yet claimed, and nothing runs before it
\* returns.
Begun ==
    /\ phase # "up" => agent = "off" /\ stop = "no" /\ ~supUnresolved
    /\ phase \in {"compare", "apply", "failed"} => ~unresolved
    /\ phase = "up" /\ unresolved => supUnresolved

Degradation == degraded => "task1_truth_degraded" \in errors

Audit == Begun /\ Degradation /\ AuditIsKept
Credit == Books /\ FillsAreReal /\ Reported

IInv == Types /\ Credit /\ Audit

-----------------------------------------------------------------------------
(* Sequences of sets, and the sum of at most one row                       *)

LEMMA SetToSeqOK ==
  ASSUME NEW S, IsFiniteSet(S)
  PROVE  SetToSeq(S) \in Seq(S) /\ (SetToSeq(S) = <<>> => S = {})
<1>1. PICK n \in Nat : n = Cardinality(S)
  BY FS_CardinalityType
<1>2. \E f \in [1..n -> S] : IsInjective(f)
  BY <1>1, FS_CardinalityType DEF ExistsBijection, Bijection, Injection
<1>3. SetToSeq(S) \in [1..n -> S]
  BY <1>1, <1>2 DEF SetToSeq
<1>4. SetToSeq(S) \in Seq(S) /\ Len(SetToSeq(S)) = n
  BY <1>3
<1>5. ASSUME SetToSeq(S) = <<>> PROVE S = {}
  <2>1. n = 0
    BY <1>4, <1>5
  <2> QED BY <1>1, <2>1, FS_EmptySet
<1> QED BY <1>4, <1>5

LEMMA TotalUnfolded ==
  Total = (CHOOSE sum : sum = [s \in SUBSET DOMAIN rows |->
                IF s = {} THEN 0
                ELSE rows[CHOOSE x \in s : TRUE] + sum[s \ {CHOOSE x \in s : TRUE}]])[DOMAIN rows]
BY Zenon DEF Total, FoldSeq, FoldFunction, FoldFunctionOnSet, MapThenFoldSet

LEMMA TotalOfOne ==
  ASSUME rows \in Seq(Int \ {0}), Len(rows) < 2
  PROVE  Total = IF rows = <<>> THEN 0 ELSE rows[1]
<1> DEFINE Step(sum) == [s \in SUBSET DOMAIN rows |->
                IF s = {} THEN 0
                ELSE rows[CHOOSE x \in s : TRUE] + sum[s \ {CHOOSE x \in s : TRUE}]]
           sums == [s \in SUBSET DOMAIN rows |-> IF s = {} THEN 0 ELSE rows[1]]
<1>1. DOMAIN rows = IF rows = <<>> THEN {} ELSE {1}
  <2>1. CASE rows = <<>>
    BY <2>1
  <2>2. CASE rows # <<>>
    <3>1. Len(rows) \in Nat /\ Len(rows) # 0 /\ DOMAIN rows = 1..Len(rows)
      BY <2>2, EmptySeq
    <3>2. \A i : i \in 1..1 <=> i = 1
      OBVIOUS
    <3>3. Len(rows) = 1
      BY <3>1
    <3> QED BY <2>2, <3>1, <3>2, <3>3
  <2> QED BY <2>1, <2>2
<1>2. \A s \in SUBSET DOMAIN rows : s = {} \/ (s = {1} /\ rows # <<>>)
  BY <1>1
<1>3. sums = Step(sums)
  <2>1. ASSUME NEW s \in SUBSET DOMAIN rows PROVE sums[s] = Step(sums)[s]
    <3>1. CASE s = {}
      BY <3>1
    <3>2. CASE s = {1} /\ rows # <<>>
      <4>1. (CHOOSE x \in s : TRUE) = 1
        BY <3>2
      <4>2. {} \in SUBSET DOMAIN rows /\ s \ {1} = {} /\ s # {} /\ rows[1] \in Int
        BY <3>2, <1>1
      <4>3. sums[{}] = 0 /\ sums[s] = rows[1]
        BY <4>2
      <4> QED BY <4>1, <4>2, <4>3
    <3> QED BY <3>1, <3>2, <1>2
  <2> QED BY <2>1
<1> HIDE DEF sums, Step
<1>4. PICK sum : sum = (CHOOSE g : g = Step(g)) /\ sum = Step(sum)
  BY <1>3, Zenon
<1> USE DEF Step
<1>5. Total = sum[DOMAIN rows]
  BY <1>4, TotalUnfolded, Zenon
<1>6. sum[{}] = 0
  BY <1>4
<1>7. CASE rows = <<>>
  BY <1>1, <1>5, <1>6, <1>7
<1>8. CASE rows # <<>>
  <2>1. (CHOOSE x \in {1} : TRUE) = 1 /\ {1} # {} /\ {1} \ {1} = {} /\ rows[1] \in Int
    BY <1>1, <1>8
  <2>2. sum[{1}] = rows[CHOOSE x \in {1} : TRUE] + sum[{1} \ {CHOOSE x \in {1} : TRUE}]
    BY <1>1, <1>4, <1>8, <2>1, Zenon
  <2>3. sum[{1}] = rows[1] + 0
    BY <2>1, <2>2, <1>6
  <2> QED BY <1>1, <1>5, <1>8, <2>1, <2>3
<1> QED BY <1>7, <1>8

-----------------------------------------------------------------------------
(* The report                                                              *)

LEMMA Typed ==
  ASSUME Types, NEW c \in Clients
  PROVE  /\ order[c].status \in OrderStatus /\ order[c].filled \in Nat
         /\ book[c].status \in BrokerStatus /\ book[c].filled \in Nat
         /\ Size[c] \in Nat \ {0} /\ Side[c] \in {"buy", "sell"}
BY ReconciliationAssumption DEF Types, SupervisorTypeOK, TypeOK

LEMMA OrderFindingsOK ==
  ASSUME Types, FillsAreReal, NEW c \in Clients
  PROVE  /\ IsFiniteSet(OrderFindings(c))
         /\ \A f \in OrderFindings(c) : f \in Findings /\ Backed(f)
<1>1. PICK n, b, z : /\ n = order[c].filled /\ b = book[c].status /\ z = Size[c]
  OBVIOUS
<1>2. n \in Nat /\ b \in BrokerStatus /\ z \in Nat /\ n <= book[c].filled
  <2>1. n \in Nat /\ b \in BrokerStatus /\ z \in Nat
    BY <1>1, Typed
  <2>2. n <= book[c].filled
    BY <1>1 DEF FillsAreReal
  <2> QED BY <2>1, <2>2
<1>3. PICK f1, f2, f3, f4 :
        /\ f1 = Correct("unknown_broker_order", "order_status", c, b, z)
        /\ f2 = Correct("missing_broker_order", "order_status", c, "none", z - n)
        /\ f3 = Correct("quantity_mismatch", "order_fill_qty", c, "none", n)
        /\ f4 = Correct("status_mismatch", "order_status", c, b, n)
  OBVIOUS
<1>4. \A f \in OrderFindings(c) : f \in {f1, f2, f3, f4}
  BY <1>1, <1>3 DEF OrderFindings
<1>5. /\ f1 \in Findings /\ Backed(f1) /\ f2 \in Findings /\ Backed(f2)
      /\ f3 \in Findings /\ f4 \in Findings /\ Backed(f4)
  <2>1. PICK d \in Int : d = z - n
    BY <1>2
  <2>2. "none" \in BrokerStatus
    BY DEF BrokerStatus
  <2>3. f1 \in Findings /\ f2 \in Findings /\ f3 \in Findings /\ f4 \in Findings
    BY <1>2, <1>3, <2>1, <2>2 DEF Correct, Findings, Outcomes, Corrections
  <2>4. f1.kind = "order_status" /\ f2.kind = "order_status" /\ f4.kind = "order_status"
    BY <1>3 DEF Correct
  <2> QED BY <2>3, <2>4 DEF Backed
<1>6. Backed(f3)
  BY <1>2, <1>3 DEF Correct, Backed
<1>7. IsFiniteSet(OrderFindings(c))
  <2>1. IsFiniteSet({f1, f2, f3, f4})
    <3>1. IsFiniteSet({f1}) /\ {f1} \cup {f2} = {f1, f2}
      BY FS_Singleton
    <3>2. IsFiniteSet({f1, f2}) /\ {f1, f2} \cup {f3} = {f1, f2, f3}
      BY <3>1, FS_AddElement
    <3>3. IsFiniteSet({f1, f2, f3}) /\ {f1, f2, f3} \cup {f4} = {f1, f2, f3, f4}
      BY <3>2, FS_AddElement
    <3> QED BY <3>3, FS_AddElement
  <2>2. OrderFindings(c) \in SUBSET {f1, f2, f3, f4}
    BY <1>4
  <2> QED BY <2>1, <2>2, FS_Subset
<1> QED BY <1>4, <1>5, <1>6, <1>7

LEMMA OneFinding ==
  ASSUME NEW f \in Findings
  PROVE  <<f>> \in Seq(Findings) /\ DOMAIN <<f>> = {1} /\ <<f>>[1] = f
OBVIOUS

LEMMA PositionFindingsOK ==
  ASSUME Types
  PROVE  /\ PositionFindings \in Seq(Findings)
         /\ \A i \in DOMAIN PositionFindings : PositionFindings[i].kind = "position_quantity"
<1>1. \A o \in Outcomes : \A n \in Int :
        /\ Correct(o, "position_quantity", "none", "none", n) \in Findings
        /\ Correct(o, "position_quantity", "none", "none", n).kind = "position_quantity"
  BY DEF Correct, Findings, Outcomes, Corrections, BrokerStatus
<1>2. pos \in Int /\ rows \in Seq(Int \ {0})
  BY DEF Types, SupervisorTypeOK, TypeOK
<1>3. CASE pos # 0 /\ rows = <<>>
  <2>1. PICK f : f = Correct("missing_broker_position", "position_quantity", "none", "none", pos)
    OBVIOUS
  <2>2. PositionFindings = <<f>>
    BY <1>3, <2>1 DEF PositionFindings
  <2>3. f \in Findings /\ f.kind = "position_quantity"
    BY <1>1, <1>2, <2>1 DEF Outcomes
  <2> QED BY <2>2, <2>3, OneFinding
<1>4. CASE pos # 0 /\ rows # <<>>
  <2>1. PICK f : f = Correct("quantity_mismatch", "position_quantity", "none", "none", Last(rows))
    OBVIOUS
  <2>2. PositionFindings = <<>> \/ PositionFindings = <<f>>
    BY <1>4, <2>1 DEF PositionFindings
  <2>3. Last(rows) \in Int
    <3>1. PICK n \in Nat : n = Len(rows)
      BY <1>2
    <3>2. n # 0 /\ DOMAIN rows = 1..n
      BY <1>2, <1>4, <3>1, EmptySeq
    <3>3. n \in DOMAIN rows
      BY <3>2
    <3>4. rows[n] \in Int \ {0}
      BY <1>2, <3>3
    <3> QED BY <3>1, <3>4 DEF Last
  <2>4. f \in Findings /\ f.kind = "position_quantity"
    BY <1>1, <2>1, <2>3 DEF Outcomes
  <2>5. CASE PositionFindings = <<>>
    BY <2>5
  <2>6. CASE PositionFindings = <<f>>
    BY <2>4, <2>6, OneFinding
  <2> QED BY <2>2, <2>5, <2>6
<1>5. CASE pos = 0
  <2>1. PositionFindings = [i \in DOMAIN rows |->
            Correct("unexpected_broker_position", "position_quantity", "none", "none", rows[i])]
    BY <1>5 DEF PositionFindings
  <2>2. \A i \in DOMAIN rows : rows[i] \in Int
    BY <1>2
  <2>3. DOMAIN rows = 1..Len(rows) /\ Len(rows) \in Nat
    BY <1>2
  <2>4. \A i \in DOMAIN rows : /\ PositionFindings[i] \in Findings
                               /\ PositionFindings[i].kind = "position_quantity"
    BY <1>1, <2>1, <2>2, Zenon DEF Outcomes
  <2>5. PositionFindings \in [1..Len(rows) -> Findings] /\ DOMAIN PositionFindings = DOMAIN rows
    BY <2>1, <2>3, <2>4
  <2> QED BY <2>3, <2>4, <2>5
<1> QED BY <1>3, <1>4, <1>5

\* What run_reconciliation reports, and that an empty report has compared
\* every order and the position.
LEMMA ReportOK ==
  ASSUME Types, FillsAreReal
  PROVE  /\ Report \in Seq(Findings)
         /\ \A i \in DOMAIN Report : Backed(Report[i])
         /\ Consistent => PositionFindings = <<>> /\ \A c \in Clients : OrderFindings(c) = {}
<1>1. PICK all : all = {OrderFindings(c) : c \in Clients}
  OBVIOUS
<1>2. IsFiniteSet(UNION all)
  <2>1. PICK f : f = [c \in Clients |-> OrderFindings(c)]
    OBVIOUS
  <2>2. f \in Surjection(Clients, all)
    BY <1>1, <2>1 DEF Surjection
  <2>3. IsFiniteSet(all)
    BY <2>2, FS_Surjection, ReconciliationAssumption
  <2>4. \A S \in all : IsFiniteSet(S)
    BY <1>1, OrderFindingsOK
  <2> QED BY <2>3, <2>4, FS_UNION
<1>3. \A f \in UNION all : f \in Findings /\ Backed(f)
  BY <1>1, OrderFindingsOK
<1>4. PICK s : s = SetToSeq(UNION all)
  OBVIOUS
<1>5. s \in Seq(UNION all) /\ (s = <<>> => UNION all = {})
  BY <1>2, <1>4, SetToSeqOK
<1>6. s \in Seq(Findings) /\ \A i \in DOMAIN s : Backed(s[i])
  <2>1. \A i \in DOMAIN s : s[i] \in UNION all
    BY <1>5
  <2>2. \A i \in DOMAIN s : s[i] \in Findings /\ Backed(s[i])
    BY <1>3, <2>1
  <2>3. Len(s) \in Nat /\ s \in [1..Len(s) -> UNION all] /\ DOMAIN s = 1..Len(s)
    BY <1>5
  <2>4. s \in [1..Len(s) -> Findings]
    BY <2>2, <2>3
  <2> QED BY <2>2, <2>3, <2>4
<1>7. PICK p : p = PositionFindings
  OBVIOUS
<1>8. p \in Seq(Findings) /\ \A i \in DOMAIN p : Backed(p[i])
  BY <1>7, PositionFindingsOK DEF Backed
<1>9. Report = s \o p
  BY <1>1, <1>4, <1>7 DEF Report
<1>10. Report \in Seq(Findings)
  BY <1>6, <1>8, <1>9
<1>11. \A i \in DOMAIN Report : Backed(Report[i])
  <2> SUFFICES ASSUME NEW i \in DOMAIN (s \o p) PROVE Backed((s \o p)[i])
    BY <1>9
  <2>1. Len(s) \in Nat /\ Len(p) \in Nat /\ DOMAIN s = 1..Len(s) /\ DOMAIN p = 1..Len(p)
        /\ DOMAIN (s \o p) = 1..(Len(s) + Len(p))
    BY <1>6, <1>8
  <2>2. CASE i <= Len(s)
    <3>1. i \in DOMAIN s /\ (s \o p)[i] = s[i]
      BY <1>6, <1>8, <2>1, <2>2
    <3> QED BY <1>6, <3>1
  <2>3. CASE i > Len(s)
    <3>1. i - Len(s) \in DOMAIN p
      BY <2>1, <2>3
    <3>2. (s \o p)[i] = p[i - Len(s)]
      BY <1>6, <1>8, <2>1, <2>3
    <3> QED BY <1>8, <3>1, <3>2
  <2> QED BY <2>1, <2>2, <2>3
<1>12. ASSUME Consistent PROVE PositionFindings = <<>> /\ \A c \in Clients : OrderFindings(c) = {}
  <2>1. s = <<>> /\ p = <<>>
    BY <1>6, <1>8, <1>9, <1>12, ConcatSimplifications DEF Consistent
  <2>2. UNION all = {}
    BY <1>5, <2>1
  <2> QED BY <1>1, <1>7, <2>1, <2>2
<1> QED BY <1>10, <1>11, <1>12

-----------------------------------------------------------------------------
(* Orders, rows and positions after a step                                 *)

LEMMA StatusSet ==
  ASSUME NEW S, NEW f \in [Clients -> [status: S, filled: Nat]], NEW c \in Clients, NEW st \in S,
         NEW g, g = [f EXCEPT ![c].status = st]
  PROVE  /\ g \in [Clients -> [status: S, filled: Nat]]
         /\ g[c].status = st /\ g[c].filled = f[c].filled
         /\ \A d \in Clients \ {c} : g[d] = f[d]
OBVIOUS

LEMMA EntrySet ==
  ASSUME NEW S, NEW f \in [Clients -> [status: S, filled: Nat]], NEW c \in Clients, NEW st \in S,
         NEW n \in Nat, NEW g, g = [f EXCEPT ![c] = [status |-> st, filled |-> n]]
  PROVE  /\ g \in [Clients -> [status: S, filled: Nat]]
         /\ g[c].status = st /\ g[c].filled = n
         /\ \A d \in Clients \ {c} : g[d] = f[d]
OBVIOUS

LEMMA SignedInt == ASSUME NEW c, NEW n \in Int PROVE Signed(c, n) \in Int
BY DEF Signed

LEMMA RowsAfterOK ==
  ASSUME Types, NEW c, NEW n \in Nat \ {0}
  PROVE  RowsAfter(c, n) \in Seq(Int \ {0}) /\ (Remote => Len(RowsAfter(c, n)) < 2)
<1>1. rows \in Seq(Int \ {0}) /\ (Remote => Len(rows) < 2)
  BY DEF Types
<1>2. CASE Remote
  <2>1. Total \in Int
    <3>1. CASE rows = <<>>
      BY <1>1, <1>2, <3>1, TotalOfOne
    <3>2. CASE rows # <<>>
      <4>1. PICK k \in Nat : k = Len(rows)
        BY <1>1
      <4>2. k # 0 /\ DOMAIN rows = 1..k
        BY <1>1, <3>2, <4>1, EmptySeq
      <4>3. 1 \in DOMAIN rows
        BY <4>2
      <4>4. rows[1] \in Int \ {0}
        BY <1>1, <4>3
      <4> QED BY <1>1, <1>2, <3>2, <4>4, TotalOfOne
    <3> QED BY <3>1, <3>2
  <2>2. PICK t \in Int : t = Total + Signed(c, n)
    BY <2>1, SignedInt
  <2>3. RowsAfter(c, n) = IF t = 0 THEN <<>> ELSE <<t>>
    <3>1. RowsAfter(c, n) = IF Total + Signed(c, n) = 0 THEN <<>> ELSE <<Total + Signed(c, n)>>
      BY <1>2 DEF RowsAfter
    <3> QED BY <2>2, <3>1, Zenon
  <2>4. CASE t = 0
    BY <2>3, <2>4
  <2>5. CASE t # 0
    <3>1. t \in Int \ {0} /\ RowsAfter(c, n) = <<t>>
      BY <2>3, <2>5
    <3>2. <<t>> \in Seq(Int \ {0}) /\ Len(<<t>>) = 1
      BY <3>1
    <3> QED BY <3>1, <3>2
  <2> QED BY <2>4, <2>5
<1>3. CASE ~Remote
  <2>1. RowsAfter(c, n) = <<>> \/ RowsAfter(c, n) = Append(rows, n)
    BY <1>3 DEF RowsAfter
  <2>2. Append(rows, n) \in Seq(Int \ {0})
    <3>1. n \in Int \ {0}
      OBVIOUS
    <3> QED BY <1>1, <3>1
  <2>3. <<>> \in Seq(Int \ {0})
    OBVIOUS
  <2> QED BY <1>3, <2>1, <2>2, <2>3
<1> QED BY <1>2, <1>3

LEMMA PosAfterInt == ASSUME pos \in Int, NEW c, NEW n \in Int PROVE PosAfter(c, n) \in Int
<1>1. PICK next \in Int : next = pos + Signed(c, n)
  BY SignedInt
<1> QED BY <1>1 DEF PosAfter

\* The broker has not filled less, so what was reported is still backed.
LEMMA StillReported ==
  ASSUME Types, Reported, report' = report,
         NEW B \in [Clients -> [status: BrokerStatus, filled: Nat]], book' = B,
         \A c \in Clients : book[c].filled <= book'[c].filled
  PROVE  Reported'
<1> SUFFICES ASSUME NEW i \in DOMAIN report PROVE Backed(report[i])'
  BY DEF Reported
<1>1. Backed(report[i]) /\ report'[i] = report[i]
  BY DEF Reported
<1>2. CASE report[i].kind = "order_fill_qty"
  <2>1. PICK d \in Clients, n \in Nat : d = report[i].client /\ n = report[i].qty
    BY <1>1, <1>2 DEF Backed
  <2>2. book[d].filled \in Nat /\ book'[d].filled \in Nat
    BY Typed
  <2>3. n <= book[d].filled /\ book[d].filled <= book'[d].filled
    BY <1>1, <1>2, <2>1 DEF Backed
  <2>4. n <= book'[d].filled
    BY <2>2, <2>3
  <2> QED BY <1>1, <2>1, <2>4 DEF Backed
<1>3. CASE report[i].kind # "order_fill_qty"
  BY <1>1, <1>3 DEF Backed
<1> QED BY <1>2, <1>3

-----------------------------------------------------------------------------
(* Trading between two starts                                              *)

\* A step on one client's order, at the broker or in the ledger.
LEMMA TradeStep ==
  ASSUME IInv, NEW c \in Clients,
         order' \in [Clients -> [status: OrderStatus, filled: Nat]],
         NEW B \in [Clients -> [status: BrokerStatus, filled: Nat]], book' = B,
         \A d \in Clients \ {c} : order'[d] = order[d] /\ book'[d] = book[d],
         BookOK(c)', order'[c].filled <= book'[c].filled, book[c].filled <= book'[c].filled,
         pos' \in Int, rows' \in Seq(Int \ {0}), Remote => Len(rows') < 2,
         recorded' \subseteq Clients, seen' \subseteq Clients, sending' \subseteq Clients,
         adapter' = adapter, UNCHANGED startup, UNCHANGED supVars
  PROVE  IInv'
<1>1. Types /\ Credit /\ Audit
  BY DEF IInv
<1>2. /\ phase' = phase /\ report' = report /\ unresolved' = unresolved /\ supUnresolved' = supUnresolved
      /\ errors' = errors /\ saved' = saved /\ degraded' = degraded /\ agent' = agent /\ stop' = stop
  BY DEF startup, supVars, audit, lifecycle
<1>3. Types'
  <2>1. \A i \in DOMAIN rows' : rows'[i] # 0
    OBVIOUS
  <2>2. TypeOK'
    BY <1>1, <1>2, <2>1 DEF Types, SupervisorTypeOK, TypeOK
  <2>3. SupervisorTypeOK'
    BY <1>1, <1>2, <2>2, Zenon DEF Types, SupervisorTypeOK
  <2> QED BY <1>1, <1>2, <2>3 DEF Types, Remote, Findings
<1>4. Audit'
  BY <1>1, <1>2 DEF Audit, Begun, Degradation, AuditIsKept, ClaimsRecovery
<1>5. Books' /\ FillsAreReal'
  <2> SUFFICES ASSUME NEW d \in Clients PROVE BookOK(d)' /\ order'[d].filled <= book'[d].filled
    BY DEF Books, FillsAreReal
  <2>1. CASE d = c
    BY <2>1
  <2>2. CASE d # c
    BY <1>1, <2>2 DEF Credit, Books, BookOK, FillsAreReal
  <2> QED BY <2>1, <2>2
<1>6. Reported'
  <2>1. \A d \in Clients : book[d].filled <= book'[d].filled
    <3> SUFFICES ASSUME NEW d \in Clients PROVE book[d].filled <= book'[d].filled
      OBVIOUS
    <3>1. CASE d = c
      BY <3>1
    <3>2. CASE d # c
      <4>1. PICK m \in Nat : m = book[d].filled
        BY <1>1, Typed
      <4> QED BY <3>2, <4>1
    <3> QED BY <3>1, <3>2
  <2> QED BY <1>1, <1>2, <2>1, StillReported DEF Credit
<1> QED BY <1>3, <1>4, <1>5, <1>6 DEF IInv, Credit

\* The variables of Types, by themselves.
LEMMA Held ==
  ASSUME IInv
  PROVE  /\ order \in [Clients -> [status: OrderStatus, filled: Nat]]
         /\ book \in [Clients -> [status: BrokerStatus, filled: Nat]]
         /\ pos \in Int /\ rows \in Seq(Int \ {0}) /\ (Remote => Len(rows) < 2)
         /\ recorded \subseteq Clients /\ seen \subseteq Clients /\ sending \subseteq Clients
         /\ Types
BY DEF IInv, Types, SupervisorTypeOK, TypeOK

LEMMA Filled ==
  ASSUME IInv, NEW c \in Clients
  PROVE  /\ BookOK(c) /\ order[c].filled <= book[c].filled
         /\ order[c].filled \in Nat /\ book[c].filled \in Nat /\ Size[c] \in Nat \ {0}
         /\ order[c].status \in OrderStatus /\ book[c].status \in BrokerStatus
<1>1. Types /\ Books /\ FillsAreReal
  BY DEF IInv, Credit
<1> QED BY <1>1, Typed DEF Books, FillsAreReal

\* The ledger takes note of a status; the broker's books may stay as they are.
LEMMA Noted ==
  ASSUME IInv, NEW c \in Clients, NEW st \in OrderStatus,
         order' = [order EXCEPT ![c].status = st],
         NEW B \in [Clients -> [status: BrokerStatus, filled: Nat]], book' = B,
         \A d \in Clients \ {c} : book'[d] = book[d],
         BookOK(c)', book'[c].filled = book[c].filled,
         pos' = pos, rows' = rows, adapter' = adapter,
         recorded' \subseteq Clients, seen' \subseteq Clients, sending' \subseteq Clients,
         UNCHANGED startup, UNCHANGED supVars
  PROVE  IInv'
<1>1. /\ order' \in [Clients -> [status: OrderStatus, filled: Nat]]
      /\ order'[c].filled = order[c].filled
      /\ \A d \in Clients \ {c} : order'[d] = order[d]
  BY Held, StatusSet
<1>2. order'[c].filled <= book'[c].filled /\ book[c].filled <= book'[c].filled
  BY <1>1, Filled
<1>3. pos' \in Int /\ rows' \in Seq(Int \ {0}) /\ (Remote => Len(rows') < 2)
  BY Held
<1> QED BY <1>1, <1>2, <1>3, TradeStep

LEMMA RequestKeeps ==
  ASSUME IInv, NEW c \in Clients, Request(c), UNCHANGED supVars PROVE IInv'
<1>1. PICK st : st = IF order[c].status = "none" THEN "submitted" ELSE order[c].status
  OBVIOUS
<1>2. st \in OrderStatus
  BY <1>1, Filled DEF OrderStatus
<1>3. /\ order' = [order EXCEPT ![c].status = st] /\ sending' \subseteq Clients
      /\ pos' = pos /\ recorded' = recorded /\ UNCHANGED broker /\ UNCHANGED startup
  BY <1>1, Held DEF Request
<1>4. adapter' = adapter /\ book' = book /\ rows' = rows /\ seen' = seen
  BY <1>3 DEF broker
<1>5. PICK B \in [Clients -> [status: BrokerStatus, filled: Nat]] : B = book
  BY Held
<1>6. BookOK(c)'
  BY <1>4, Filled DEF BookOK
<1> QED BY <1>2, <1>3, <1>4, <1>5, <1>6, Held, Noted

LEMMA AcceptKeeps ==
  ASSUME IInv, NEW c \in Clients, Accept(c), UNCHANGED supVars PROVE IInv'
<1>1. PICK st : st = IF order[c].status = "submitted" THEN "accepted" ELSE order[c].status
  OBVIOUS
<1>2. st \in OrderStatus
  BY <1>1, Filled DEF OrderStatus
<1>3. /\ order' = [order EXCEPT ![c].status = st] /\ sending' \subseteq Clients
      /\ pos' = pos /\ recorded' \subseteq Clients /\ UNCHANGED broker /\ UNCHANGED startup
  BY <1>1, Held DEF Accept
<1>4. adapter' = adapter /\ book' = book /\ rows' = rows /\ seen' = seen
  BY <1>3 DEF broker
<1>5. PICK B \in [Clients -> [status: BrokerStatus, filled: Nat]] : B = book
  BY Held
<1>6. BookOK(c)'
  BY <1>4, Filled DEF BookOK
<1> QED BY <1>2, <1>3, <1>4, <1>5, <1>6, Held, Noted

LEMMA SendFailsKeeps ==
  ASSUME IInv, NEW c \in Clients, SendFails(c), UNCHANGED supVars PROVE IInv'
<1>1. PICK st : st = IF order[c].status \in {"filled", "cancelled"} THEN order[c].status ELSE "rejected"
  OBVIOUS
<1>2. st \in OrderStatus
  BY <1>1 DEF OrderStatus
<1>3. /\ order' = [order EXCEPT ![c].status = st] /\ sending' \subseteq Clients
      /\ pos' = pos /\ recorded' = recorded /\ UNCHANGED startup
      /\ adapter' = adapter /\ rows' = rows /\ seen' = seen /\ book[c].status = "none"
  BY <1>1, Held DEF SendFails
<1>4. PICK bs \in {"none", "open"} : book' = [book EXCEPT ![c].status = bs]
  BY DEF SendFails
<1>5. PICK B : B = book'
  OBVIOUS
<1>6. /\ B \in [Clients -> [status: BrokerStatus, filled: Nat]]
      /\ B[c].status = bs /\ B[c].filled = book[c].filled
      /\ \A d \in Clients \ {c} : B[d] = book[d]
  <2>1. bs \in BrokerStatus
    BY DEF BrokerStatus
  <2>2. B = [book EXCEPT ![c].status = bs]
    BY <1>4, <1>5, Zenon
  <2>3. PICK f \in [Clients -> [status: BrokerStatus, filled: Nat]] : f = book
    BY Held
  <2> QED BY <2>1, <2>2, <2>3, StatusSet
<1>7. BookOK(c)'
  BY <1>3, <1>5, <1>6, Filled DEF BookOK
<1> QED BY <1>2, <1>3, <1>5, <1>6, <1>7, Held, Noted

LEMMA RecordCancelKeeps ==
  ASSUME IInv, NEW c \in Clients, RecordCancel(c), UNCHANGED supVars PROVE IInv'
<1>1. PICK st : st = IF order[c].status \in {"filled", "rejected"} THEN order[c].status ELSE "cancelled"
  OBVIOUS
<1>2. st \in OrderStatus
  BY <1>1 DEF OrderStatus
<1>3. /\ order' = [order EXCEPT ![c].status = st] /\ sending' = sending
      /\ pos' = pos /\ recorded' = recorded /\ UNCHANGED startup
      /\ adapter' = adapter /\ rows' = rows /\ seen' = seen
      /\ book' = [book EXCEPT ![c].status = "cancelled"]
  BY <1>1 DEF RecordCancel
<1>5. PICK B : B = book'
  OBVIOUS
<1>6. /\ B \in [Clients -> [status: BrokerStatus, filled: Nat]]
      /\ B[c].status = "cancelled" /\ B[c].filled = book[c].filled
      /\ \A d \in Clients \ {c} : B[d] = book[d]
  <2>1. "cancelled" \in BrokerStatus
    BY DEF BrokerStatus
  <2> QED BY <1>3, <1>5, <2>1, Held, StatusSet
<1>7. BookOK(c)'
  BY <1>5, <1>6, Filled DEF BookOK
<1> QED BY <1>2, <1>3, <1>5, <1>6, <1>7, Held, Noted

LEMMA SendKeeps ==
  ASSUME IInv, NEW c \in Clients, Send(c), UNCHANGED supVars PROVE IInv'
<1>1. /\ book[c].status = "none" /\ c \in sending /\ seen' = seen \cup {c}
      /\ UNCHANGED ledger /\ adapter' = adapter /\ sending' = sending /\ UNCHANGED startup
  BY DEF Send
<1>2. order' = order /\ pos' = pos /\ recorded' = recorded
  BY <1>1 DEF ledger
<1>3. seen' \subseteq Clients /\ sending' \subseteq Clients /\ recorded' \subseteq Clients /\ pos' \in Int
  BY <1>1, <1>2, Held
<1>4. PICK B : B = book'
  OBVIOUS
<1>5. PICK f \in [Clients -> [status: BrokerStatus, filled: Nat]] : f = book
  BY Held
<1>6. CASE UNCHANGED rows /\ \E st \in {"pending", "open"} : book' = [book EXCEPT ![c].status = st]
  <2>1. PICK st \in {"pending", "open"} : B = [f EXCEPT ![c].status = st]
    BY <1>4, <1>5, <1>6, Zenon
  <2>2. st \in BrokerStatus
    BY DEF BrokerStatus
  <2>3. /\ B \in [Clients -> [status: BrokerStatus, filled: Nat]]
        /\ B[c].status = st /\ B[c].filled = book[c].filled
        /\ \A d \in Clients \ {c} : B[d] = book[d]
    BY <1>5, <2>1, <2>2, StatusSet
  <2>4. BookOK(c)' /\ order'[c].filled <= book'[c].filled /\ book[c].filled <= book'[c].filled
    BY <1>1, <1>2, <1>4, <2>3, Filled DEF BookOK
  <2> QED BY <1>1, <1>2, <1>3, <1>4, <1>6, <2>3, <2>4, Held, TradeStep
<1>7. CASE /\ book' = [book EXCEPT ![c] = [status |-> "filled", filled |-> Size[c]]]
           /\ rows' = RowsAfter(c, Size[c])
  <2>1. PICK n \in Nat \ {0} : n = Size[c]
    BY Filled
  <2>2. "filled" \in BrokerStatus /\ B = [f EXCEPT ![c] = [status |-> "filled", filled |-> n]]
    BY <1>4, <1>5, <1>7, <2>1 DEF BrokerStatus
  <2>3. /\ B \in [Clients -> [status: BrokerStatus, filled: Nat]]
        /\ B[c].status = "filled" /\ B[c].filled = n
        /\ \A d \in Clients \ {c} : B[d] = book[d]
    BY <1>5, <2>2, EntrySet
  <2>4. BookOK(c)' /\ book[c].filled <= book'[c].filled
    BY <1>4, <2>1, <2>3, Filled DEF BookOK
  <2>5. order'[c].filled <= book'[c].filled
    BY <1>2, <1>4, <2>1, <2>3, <2>4, Filled DEF BookOK
  <2>6. rows' \in Seq(Int \ {0}) /\ (Remote => Len(rows') < 2)
    BY <1>7, <2>1, Held, RowsAfterOK
  <2> QED BY <1>1, <1>2, <1>3, <1>4, <2>3, <2>4, <2>5, <2>6, Held, TradeStep
<1> QED BY <1>6, <1>7, Zenon DEF Send

LEMMA BrokerFillsKeeps ==
  ASSUME IInv, NEW c \in Clients, BrokerFills(c), UNCHANGED supVars PROVE IInv'
<1>1. PICK m \in Nat : m = book[c].filled
  BY Filled
<1>2. PICK st : st = IF m + 1 = Size[c] THEN "filled" ELSE "open"
  OBVIOUS
<1>3. /\ book[c].status \in {"pending", "open"}
      /\ book' = [book EXCEPT ![c] = [status |-> st, filled |-> m + 1]]
      /\ rows' = RowsAfter(c, 1) /\ UNCHANGED ledger /\ adapter' = adapter
      /\ seen' = seen /\ sending' = sending /\ UNCHANGED startup
  BY <1>1, <1>2, Zenon DEF BrokerFills
<1>4. order' = order /\ pos' = pos /\ recorded' = recorded
  BY <1>3 DEF ledger
<1>5. PICK B : B = book'
  OBVIOUS
<1>6. PICK f \in [Clients -> [status: BrokerStatus, filled: Nat]] : f = book
  BY Held
<1>7. PICK n \in Nat : n = m + 1
  OBVIOUS
<1>8. st \in BrokerStatus /\ B = [f EXCEPT ![c] = [status |-> st, filled |-> n]]
  BY <1>2, <1>3, <1>5, <1>6, <1>7 DEF BrokerStatus
<1>9. /\ B \in [Clients -> [status: BrokerStatus, filled: Nat]]
      /\ B[c].status = st /\ B[c].filled = n
      /\ \A d \in Clients \ {c} : B[d] = book[d]
  BY <1>6, <1>8, EntrySet
<1>10. m < Size[c] /\ Size[c] \in Nat
  BY <1>1, <1>3, Filled DEF BookOK
<1>11. BookOK(c)'
  BY <1>2, <1>5, <1>7, <1>9, <1>10 DEF BookOK
<1>12. order'[c].filled <= book'[c].filled /\ book[c].filled <= book'[c].filled
  BY <1>1, <1>4, <1>5, <1>7, <1>9, Filled
<1>13. rows' \in Seq(Int \ {0}) /\ (Remote => Len(rows') < 2)
  <2>1. PICK one \in Nat \ {0} : one = 1
    OBVIOUS
  <2> QED BY <1>3, <2>1, Held, RowsAfterOK
<1>14. /\ order' \in [Clients -> [status: OrderStatus, filled: Nat]] /\ pos' \in Int
       /\ recorded' \subseteq Clients /\ seen' \subseteq Clients /\ sending' \subseteq Clients
       /\ \A d \in Clients \ {c} : order'[d] = order[d] /\ book'[d] = book[d]
  BY <1>3, <1>4, <1>5, <1>9, Held
<1> QED BY <1>3, <1>5, <1>9, <1>11, <1>12, <1>13, <1>14, TradeStep

\* The ledger records a fill of n contracts that the broker has.
LEMMA Recorded ==
  ASSUME IInv, NEW c \in Clients, NEW st \in OrderStatus, NEW n \in Nat, n <= book[c].filled,
         order' = [order EXCEPT ![c] = [status |-> st, filled |-> n]],
         pos' \in Int, recorded' = recorded, UNCHANGED broker, sending' = sending,
         UNCHANGED startup, UNCHANGED supVars
  PROVE  IInv'
<1>1. adapter' = adapter /\ book' = book /\ rows' = rows /\ seen' = seen
  BY DEF broker
<1>2. PICK f \in [Clients -> [status: OrderStatus, filled: Nat]] : f = order
  BY Held
<1>3. /\ order' \in [Clients -> [status: OrderStatus, filled: Nat]] /\ order'[c].filled = n
      /\ \A d \in Clients \ {c} : order'[d] = order[d]
  BY <1>2, EntrySet
<1>4. PICK B \in [Clients -> [status: BrokerStatus, filled: Nat]] : B = book
  BY Held
<1>5. BookOK(c)' /\ order'[c].filled <= book'[c].filled /\ book[c].filled <= book'[c].filled
  BY <1>1, <1>3, Filled DEF BookOK
<1> QED BY <1>1, <1>3, <1>4, <1>5, Held, TradeStep

LEMMA RecordFillKeeps ==
  ASSUME IInv, NEW c \in Clients, RecordFill(c), UNCHANGED supVars PROVE IInv'
<1>1. PICK z \in Nat : z = Size[c] /\ z <= book[c].filled
  <2>1. Size[c] \in Nat /\ book[c].filled = Size[c]
    BY Filled DEF RecordFill, BookOK
  <2> QED BY <2>1
<1>2. z - order[c].filled \in Int
  BY Filled
<1>3. pos' \in Int
  BY <1>1, <1>2, Held, PosAfterInt DEF RecordFill
<1>4. "filled" \in OrderStatus
  BY DEF OrderStatus
<1> QED BY <1>1, <1>3, <1>4, Recorded DEF RecordFill

LEMMA RecordPartialKeeps ==
  ASSUME IInv, NEW c \in Clients, RecordPartial(c), UNCHANGED supVars PROVE IInv'
<1>1. PICK n \in Nat : n = book[c].filled /\ n <= book[c].filled
  BY Filled
<1>2. n - order[c].filled \in Int
  BY Filled
<1>3. pos' \in Int
  BY <1>1, <1>2, Held, PosAfterInt DEF RecordPartial
<1>4. "partially_filled" \in OrderStatus
  BY DEF OrderStatus
<1> QED BY <1>1, <1>3, <1>4, Recorded DEF RecordPartial

LEMMA TradeKeeps == ASSUME IInv, NEW c \in Clients, Trade(c) PROVE IInv'
BY RequestKeeps, SendKeeps, SendFailsKeeps, AcceptKeeps, RecordFillKeeps, RecordPartialKeeps,
   RecordCancelKeeps, BrokerFillsKeeps DEF Trade

-----------------------------------------------------------------------------
(* Starting, restarting and stopping                                       *)

Stops == {"no", "reconcile", "checkpoint", "agent", "done", "aborted"}

LEMMA SupHeld ==
  ASSUME IInv
  PROVE  /\ errors \subseteq Codes /\ (\A s \in saved : s \subseteq Codes)
         /\ degraded \in BOOLEAN /\ agent \in {"off", "on"} /\ stop \in Stops /\ phase \in Phases
         /\ Begun /\ Degradation /\ AuditIsKept
BY Zenon DEF IInv, Types, SupervisorTypeOK, TypeOK, Audit, Stops

\* A step that leaves the ledger and the broker's books alone.
LEMMA QuietStep ==
  ASSUME IInv, UNCHANGED ledger, adapter' = adapter, book' = book, rows' = rows,
         seen' \subseteq Clients, sending' \subseteq Clients,
         report' = report \/ report' = <<>>, phase' \in Phases,
         errors' \subseteq Codes, \A s \in saved' : s \subseteq Codes,
         degraded' \in BOOLEAN, agent' \in {"off", "on"}, stop' \in Stops,
         Audit'
  PROVE  IInv'
<1>1. Types /\ Credit
  BY DEF IInv
<1>2. order' = order /\ pos' = pos /\ recorded' = recorded
  BY DEF ledger
<1>3. TypeOK'
  BY <1>1, <1>2 DEF Types, SupervisorTypeOK, TypeOK
<1>4. SupervisorTypeOK'
  BY <1>3, Zenon DEF SupervisorTypeOK, Stops
<1>5. report' \in Seq(Findings)
  <2>1. <<>> \in Seq(Findings) /\ report \in Seq(Findings)
    BY <1>1 DEF Types
  <2> QED BY <2>1, Zenon
<1>6. Types'
  BY <1>1, <1>4, <1>5 DEF Types, Remote, Findings
<1>7. Books' /\ FillsAreReal'
  BY <1>1, <1>2 DEF Credit, Books, BookOK, FillsAreReal
<1>8. Reported'
  BY <1>1 DEF Credit, Reported, Backed
<1> QED BY <1>6, <1>7, <1>8 DEF IInv, Credit

\* A step that only moves the supervisor.
LEMMA LifecycleStep ==
  ASSUME IInv, UNCHANGED vars, errors' \subseteq Codes, \A s \in saved' : s \subseteq Codes,
         degraded' \in BOOLEAN, agent' \in {"off", "on"}, stop' \in Stops, Audit'
  PROVE  IInv'
<1>1. /\ UNCHANGED ledger /\ adapter' = adapter /\ book' = book /\ rows' = rows
      /\ seen' = seen /\ sending' = sending /\ report' = report /\ phase' = phase
  BY DEF vars, broker, startup
<1>2. seen' \subseteq Clients /\ sending' \subseteq Clients /\ phase' \in Phases
  BY <1>1, Held, SupHeld
<1> QED BY <1>1, <1>2, QuietStep

LEMMA StartAgentKeeps == ASSUME IInv, StartAgent PROVE IInv'
<1>1. /\ UNCHANGED vars /\ errors' = errors /\ saved' = saved /\ degraded' = degraded
      /\ agent' = "on" /\ stop' = stop /\ phase = "up"
  BY DEF StartAgent, audit
<1>2. phase' = phase /\ unresolved' = unresolved /\ supUnresolved' = supUnresolved
  BY <1>1 DEF vars, startup
<1>3. Audit'
  BY <1>1, <1>2, SupHeld DEF Audit, Begun, Degradation, AuditIsKept, ClaimsRecovery
<1> QED BY <1>1, <1>3, SupHeld, LifecycleStep

LEMMA IngestKeeps == ASSUME IInv, IngestFail \/ IngestOk PROVE IInv'
<1>1. PICK deg \in BOOLEAN : degraded' = deg /\ errors' = SyncHealth(deg)
  BY Zenon DEF IngestFail, IngestOk
<1>2. /\ UNCHANGED vars /\ saved' = saved /\ agent' = agent /\ stop' = stop
      /\ agent = "on" /\ stop = "no"
  BY DEF IngestFail, IngestOk, Running, lifecycle
<1>3. phase' = phase /\ unresolved' = unresolved /\ supUnresolved' = supUnresolved /\ phase = "up"
  BY <1>2, SupHeld DEF vars, startup, Begun
<1>4. /\ errors' \subseteq Codes
      /\ deg => "task1_truth_degraded" \in errors'
      /\ "unresolved_reconciliation" \in errors => "unresolved_reconciliation" \in errors'
  BY <1>1, SupHeld DEF SyncHealth, Codes
<1>5. Begun' /\ Degradation'
  BY <1>1, <1>2, <1>3, <1>4, SupHeld DEF Begun, Degradation
<1>6. AuditIsKept'
  BY <1>1, <1>2, <1>3, <1>4, SupHeld DEF AuditIsKept, ClaimsRecovery
<1> QED BY <1>1, <1>2, <1>4, <1>5, <1>6, SupHeld, LifecycleStep DEF Audit

\* A further reconciliation can only take the runtime's mark away.
LEMMA ReconcileKeeps ==
  ASSUME IInv, Reconcile, errors' = errors, saved' = saved, degraded' = degraded, agent' = agent,
         stop' \in Stops \ {"agent", "done"} \/ stop' = stop
  PROVE  IInv'
<1>1. /\ UNCHANGED ledger /\ UNCHANGED broker /\ sending' = sending /\ phase' = phase
      /\ report' = report /\ supUnresolved' = supUnresolved /\ phase = "up"
      /\ (unresolved' => unresolved)
  BY DEF Reconcile
<1>2. adapter' = adapter /\ book' = book /\ rows' = rows /\ seen' = seen
  BY <1>1 DEF broker
<1>3. Audit'
  BY <1>1, SupHeld DEF Audit, Begun, Degradation, AuditIsKept, ClaimsRecovery
<1>4. stop' \in Stops
  BY SupHeld
<1> QED BY <1>1, <1>2, <1>3, <1>4, Held, SupHeld, QuietStep

LEMMA RecheckKeeps == ASSUME IInv, Recheck PROVE IInv'
BY ReconcileKeeps DEF Recheck, supVars, audit, lifecycle

LEMMA ShutdownKeeps == ASSUME IInv, ShutdownBegins \/ Shutdown PROVE IInv'
<1>1. CASE ShutdownBegins
  <2>1. /\ UNCHANGED vars /\ errors' = errors /\ saved' = saved /\ degraded' = degraded
        /\ agent' = agent /\ stop' = "reconcile" /\ agent = "on"
    BY <1>1 DEF ShutdownBegins, Running, audit
  <2>2. phase' = phase /\ unresolved' = unresolved /\ supUnresolved' = supUnresolved /\ phase = "up"
    BY <2>1, SupHeld DEF vars, startup, Begun
  <2>3. Audit' /\ stop' \in Stops
    BY <2>1, <2>2, SupHeld DEF Audit, Begun, Degradation, AuditIsKept, ClaimsRecovery, Stops
  <2> QED BY <2>1, <2>3, SupHeld, LifecycleStep
<1>2. CASE ShutdownReconciles
  <2>1. Reconcile /\ stop' = "checkpoint" /\ UNCHANGED <<errors, saved, degraded, agent>>
    BY <1>2 DEF ShutdownReconciles, audit
  <2>2. stop' \in Stops \ {"agent", "done"}
    BY <2>1 DEF Stops
  <2> QED BY <2>1, <2>2, ReconcileKeeps
<1>3. CASE ShutdownCheckpoints
  <2>1. /\ UNCHANGED vars /\ errors' = errors /\ saved' = {errors} /\ degraded' = degraded
        /\ agent' = agent /\ stop' = "agent" /\ stop = "checkpoint"
    BY <1>3 DEF ShutdownCheckpoints, Save
  <2>2. phase' = phase /\ unresolved' = unresolved /\ supUnresolved' = supUnresolved
    BY <2>1 DEF vars, startup
  <2>3. Begun' /\ Degradation' /\ stop' \in Stops
    BY <2>1, <2>2, SupHeld DEF Begun, Degradation, Stops
  <2>4. AuditIsKept'
    BY <2>1, <2>2, SupHeld DEF Degradation, AuditIsKept, ClaimsRecovery
  <2> QED BY <2>1, <2>3, <2>4, SupHeld, LifecycleStep DEF Audit
<1>4. CASE ShutdownAborts \/ ShutdownCloses
  <2>1. /\ UNCHANGED <<ledger, broker, startup>> /\ sending' = {} /\ agent' = "off"
        /\ errors' = errors /\ saved' = saved /\ degraded' = degraded
        /\ stop # "no" /\ (stop' = "done" => stop = "agent") /\ stop' \in {"done", "aborted"}
    BY <1>4 DEF ShutdownAborts, ShutdownCloses, audit
  <2>2. /\ phase' = phase /\ unresolved' = unresolved /\ supUnresolved' = supUnresolved
        /\ report' = report /\ adapter' = adapter /\ book' = book /\ rows' = rows /\ seen' = seen
    BY <2>1 DEF startup, broker
  <2>3. phase = "up"
    BY <2>1, SupHeld DEF Begun
  <2>4. Audit' /\ stop' \in Stops
    BY <2>1, <2>2, <2>3, SupHeld DEF Audit, Begun, Degradation, AuditIsKept, ClaimsRecovery, Stops
  <2> QED BY <2>1, <2>2, <2>4, Held, SupHeld, QuietStep
<1> QED BY <1>1, <1>2, <1>3, <1>4 DEF Shutdown

LEMMA RestartKeeps == ASSUME IInv, Restart PROVE IInv'
<1>1. /\ sending' = {} /\ phase' = "compare" /\ report' = <<>> /\ unresolved' = FALSE
      /\ supUnresolved' = FALSE /\ UNCHANGED ledger /\ adapter' = adapter /\ book' = book
      /\ rows' = rows /\ errors' = UNION saved /\ degraded' = FALSE /\ agent' = "off"
      /\ stop' = "no" /\ saved' = saved
  BY DEF Restart, Crash, LoadLatest
<1>2. seen' = seen \/ seen' = {}
  BY DEF Restart, Crash
<1>3. Audit'
  BY <1>1 DEF Audit, Begun, Degradation, AuditIsKept
<1>4. errors' \subseteq Codes /\ phase' \in Phases /\ stop' \in Stops
  BY <1>1, SupHeld DEF Phases, Stops
<1> QED BY <1>1, <1>2, <1>3, <1>4, Held, SupHeld, QuietStep

\* The steps of start.  The broker is only read.
LEMMA StartStep ==
  ASSUME IInv, RecordStart, UNCHANGED <<degraded, lifecycle>>, phase # "up",
         UNCHANGED broker, recorded' = recorded, sending' = sending,
         order' \in [Clients -> [status: OrderStatus, filled: Nat]],
         \A c \in Clients : order'[c].filled <= book[c].filled,
         pos' \in Int, report' \in Seq(Findings), Reported', phase' \in Phases, Begun'
  PROVE  IInv'
<1>1. adapter' = adapter /\ book' = book /\ rows' = rows /\ seen' = seen
  BY DEF broker
<1>2. degraded' = degraded /\ agent' = "off" /\ stop' = "no"
  BY SupHeld DEF lifecycle, Begun
<1>3. /\ errors \subseteq errors' /\ errors' \subseteq Codes /\ \A s \in saved' : s \subseteq Codes
      /\ supUnresolved' => "unresolved_reconciliation" \in errors'
      /\ phase' = "up" => saved' = {errors'}
  BY SupHeld DEF RecordStart, Save, Codes
<1>4. Degradation'
  BY <1>2, <1>3, SupHeld DEF Degradation
<1>5. AuditIsKept'
  <2> SUFFICES ASSUME phase' = "up" PROVE AuditIsKept'
    BY DEF AuditIsKept
  <2>1. ~ClaimsRecovery' => supUnresolved'
    BY DEF ClaimsRecovery, Begun
  <2> QED BY <1>2, <1>3, <1>4, <2>1 DEF AuditIsKept, Degradation
<1>6. TypeOK'
  BY <1>1, Held DEF TypeOK
<1>7. SupervisorTypeOK'
  <2>1. degraded' \in BOOLEAN
    BY <1>2, SupHeld, Zenon
  <2> QED BY <1>2, <1>3, <1>6, <2>1 DEF SupervisorTypeOK
<1>8. Types'
  BY <1>1, <1>7, Held DEF Types, Remote, Findings
<1>9. Books' /\ FillsAreReal'
  BY <1>1 DEF IInv, Credit, Books, BookOK, FillsAreReal
<1> QED BY <1>4, <1>5, <1>8, <1>9 DEF IInv, Credit, Audit

\* run_reconciliation reads the ledger; only a correction writes to it.
LEMMA StartReads ==
  ASSUME IInv, RecordStart, UNCHANGED <<degraded, lifecycle>>, phase # "up",
         UNCHANGED <<ledger, broker, sending>>,
         report' \in Seq(Findings), Reported', phase' \in Phases, Begun'
  PROVE  IInv'
<1>1. order' = order /\ pos' = pos /\ recorded' = recorded
  BY DEF ledger
<1>2. \A c \in Clients : order'[c].filled <= book[c].filled
  BY <1>1, Filled
<1>3. order' \in [Clients -> [status: OrderStatus, filled: Nat]] /\ pos' \in Int
  BY <1>1, Held
<1> QED BY <1>1, <1>2, <1>3, StartStep

LEMMA StartCompareKeeps ==
  ASSUME IInv, StartCompare, RecordStart, UNCHANGED <<degraded, lifecycle>> PROVE IInv'
<1>1. /\ phase = "compare" /\ report' = Report /\ (unresolved' => unresolved)
      /\ phase' \in {"up", "apply"} /\ supUnresolved' = supUnresolved
      /\ UNCHANGED <<ledger, broker, sending>>
  BY DEF StartCompare
<1>2. Report \in Seq(Findings) /\ \A i \in DOMAIN Report : Backed(Report[i])
  BY ReportOK DEF IInv, Credit
<1>3. book' = book
  BY <1>1 DEF broker
<1>4. Reported'
  BY <1>1, <1>2, <1>3 DEF Reported, Backed
<1>5. Begun'
  BY <1>1, SupHeld DEF Begun, lifecycle
<1>6. phase' \in Phases
  BY <1>1 DEF Phases
<1> QED BY <1>1, <1>2, <1>4, <1>5, <1>6, StartReads

LEMMA TailReported ==
  ASSUME IInv, report # <<>>
  PROVE  /\ Head(report) \in Findings /\ Backed(Head(report))
         /\ Tail(report) \in Seq(Findings)
         /\ \A i \in DOMAIN Tail(report) : Backed(Tail(report)[i])
<1>1. report \in Seq(Findings) /\ \A i \in DOMAIN report : Backed(report[i])
  BY DEF IInv, Types, Credit, Reported
<1>2. Tail(report) \in Seq(Findings) /\ Len(report) \in Nat /\ Len(report) # 0
  BY <1>1, EmptySeq
<1>3. Head(report) = report[1] /\ 1 \in DOMAIN report
  BY <1>1, <1>2
<1>4. Head(report) \in Findings
  BY <1>1, <1>3
<1>5. \A i \in DOMAIN Tail(report) : i + 1 \in DOMAIN report /\ Tail(report)[i] = report[i + 1]
  BY <1>1, <1>2
<1> QED BY <1>1, <1>2, <1>3, <1>4, <1>5

LEMMA StartApplyKeeps ==
  ASSUME IInv, StartApply, RecordStart, UNCHANGED <<degraded, lifecycle>> PROVE IInv'
<1>1. PICK f : f = Head(report)
  OBVIOUS
<1>2. /\ phase = "apply" /\ report # <<>> /\ report' = Tail(report)
      /\ order' = [c \in Clients |-> ApplyToOrder(order[c], c, f)]
      /\ pos' = IF f.kind = "position_quantity" THEN f.qty ELSE pos
      /\ UNCHANGED <<recorded, broker, sending, phase, unresolved, supUnresolved>>
  BY <1>1 DEF StartApply
<1>3. f \in Findings /\ Backed(f) /\ report' \in Seq(Findings)
      /\ \A i \in DOMAIN report' : Backed(report'[i])
  BY <1>1, <1>2, TailReported
<1>4. book' = book
  BY <1>2 DEF broker
<1>5. Reported'
  BY <1>3, <1>4 DEF Reported, Backed
<1>6. ASSUME NEW c \in Clients
      PROVE  /\ order'[c] \in [status: OrderStatus, filled: Nat]
             /\ order'[c].filled <= book[c].filled
  <2>1. PICK ord \in [status: OrderStatus, filled: Nat] : ord = order[c]
    BY Held
  <2>2. order'[c] = ApplyToOrder(ord, c, f)
    BY <1>2, <2>1
  <2>3. CASE f.client # c \/ ord.status = "none"
    BY <2>1, <2>2, <2>3, Filled DEF ApplyToOrder
  <2>4. CASE ~(f.client # c \/ ord.status = "none") /\ f.kind = "order_fill_qty"
    <3>1. PICK st \in {"filled", "partially_filled"} : order'[c] = [status |-> st, filled |-> f.qty]
      BY <2>2, <2>4 DEF ApplyToOrder
    <3>2. f.qty \in Nat /\ f.qty <= book[c].filled
      BY <1>3, <2>4 DEF Backed
    <3>3. st \in OrderStatus
      BY DEF OrderStatus
    <3> QED BY <3>1, <3>2, <3>3
  <2>5. CASE ~(f.client # c \/ ord.status = "none") /\ f.kind # "order_fill_qty"
    <3>1. PICK st \in OrderStatus : order'[c] = [ord EXCEPT !.status = st]
      BY <2>2, <2>5 DEF ApplyToOrder
    <3>2. order'[c] \in [status: OrderStatus, filled: Nat] /\ order'[c].filled = ord.filled
      BY <3>1
    <3> QED BY <2>1, <3>2, Filled
  <2> QED BY <2>3, <2>4, <2>5
<1>7. order' \in [Clients -> [status: OrderStatus, filled: Nat]]
  <2>1. order' = [c \in Clients |-> order'[c]]
    BY <1>2, Zenon
  <2> QED BY <1>6, <2>1
<1>8. pos' \in Int
  <2>1. f.qty \in Int
    BY <1>3 DEF Findings
  <2> QED BY <1>2, <2>1, Held
<1>9. Begun' /\ phase' \in Phases
  BY <1>2, SupHeld DEF Begun, lifecycle, Phases
<1> QED BY <1>2, <1>3, <1>5, <1>6, <1>7, <1>8, <1>9, StartStep

LEMMA StartApplyAgainKeeps ==
  ASSUME IInv, StartApplyAgain, RecordStart, UNCHANGED <<degraded, lifecycle>> PROVE IInv'
<1>1. /\ phase = "apply" /\ report # <<>> /\ report' = Tail(report) /\ phase' \in {"apply", "failed"}
      /\ UNCHANGED <<ledger, broker, sending, unresolved, supUnresolved>>
  BY DEF StartApplyAgain
<1>2. report' \in Seq(Findings) /\ \A i \in DOMAIN report' : Backed(report'[i])
  BY <1>1, TailReported
<1>3. book' = book
  BY <1>1 DEF broker
<1>4. Reported'
  BY <1>2, <1>3 DEF Reported, Backed
<1>5. Begun' /\ phase' \in Phases
  BY <1>1, SupHeld DEF Begun, lifecycle, Phases
<1> QED BY <1>1, <1>2, <1>4, <1>5, StartReads

LEMMA StartEndsKeeps ==
  ASSUME IInv, StartFollowUp \/ StartRecheck, RecordStart, UNCHANGED <<degraded, lifecycle>> PROVE IInv'
<1>1. /\ phase \in {"apply", "recheck"} /\ report' = report /\ UNCHANGED <<ledger, broker, sending>>
      /\ phase' = (IF phase = "apply" THEN "recheck" ELSE "up")
      /\ phase' = "recheck" => supUnresolved' = supUnresolved
      /\ phase' = "up" => (unresolved' => supUnresolved')
  BY DEF StartFollowUp, StartRecheck
<1>2. book' = book /\ report \in Seq(Findings) /\ Reported
  BY <1>1 DEF broker, IInv, Types, Credit
<1>3. Reported'
  BY <1>1, <1>2 DEF Reported, Backed
<1>4. Begun' /\ phase' \in Phases
  BY <1>1, SupHeld DEF Begun, lifecycle, Phases
<1> QED BY <1>1, <1>2, <1>3, <1>4, StartReads

LEMMA SupervisorStartKeeps == ASSUME IInv, SupervisorStart PROVE IInv'
BY StartCompareKeeps, StartApplyKeeps, StartApplyAgainKeeps, StartEndsKeeps
   DEF SupervisorStart, Start

LEMMA InitIInv == SupervisorInit => IInv
<1> SUFFICES ASSUME SupervisorInit PROVE IInv
  OBVIOUS
<1>1. /\ order = [c \in Clients |-> [status |-> "none", filled |-> 0]]
      /\ pos = 0 /\ recorded = {} /\ sending = {} /\ phase = "compare" /\ report = <<>>
      /\ unresolved = FALSE /\ supUnresolved = FALSE
      /\ errors = {} /\ saved = {} /\ degraded = FALSE /\ agent = "off" /\ stop = "no"
  BY DEF SupervisorInit, Init
<1>2. PICK F \in SUBSET Foreign :
        /\ book = [c \in Clients |-> [status |-> IF c \in F THEN "open" ELSE "none", filled |-> 0]]
        /\ seen = IF Remembers THEN F ELSE {}
  BY DEF SupervisorInit, Init
<1>3. rows \in Seq(Int \ {0}) /\ (Remote => Len(rows) < 2)
  <2>1. \/ rows = <<>> \/ rows = <<1>>
        \/ ~Remote /\ (rows = <<1, 1>> \/ rows = <<1, 2>>)
    BY DEF SupervisorInit, Init
  <2>2. PICK one \in Int \ {0}, two \in Int \ {0} : one = 1 /\ two = 2
    OBVIOUS
  <2>3. CASE rows = <<>>
    BY <2>3
  <2>4. CASE rows = <<1>>
    <3>1. <<one>> \in Seq(Int \ {0}) /\ Len(<<one>>) = 1
      OBVIOUS
    <3> QED BY <2>2, <2>4, <3>1
  <2>5. CASE ~Remote /\ (rows = <<1, 1>> \/ rows = <<1, 2>>)
    <3>1. <<one, one>> \in Seq(Int \ {0}) /\ <<one, two>> \in Seq(Int \ {0})
      OBVIOUS
    <3> QED BY <2>2, <2>5, <3>1
  <2> QED BY <2>1, <2>3, <2>4, <2>5
<1>4. /\ order \in [Clients -> [status: OrderStatus, filled: Nat]]
      /\ book \in [Clients -> [status: BrokerStatus, filled: Nat]]
  BY <1>1, <1>2 DEF OrderStatus, BrokerStatus
<1>5. TypeOK
  BY <1>1, <1>2, <1>3, <1>4, ReconciliationAssumption DEF TypeOK, Phases
<1>6. SupervisorTypeOK
  <2>1. degraded \in BOOLEAN
    BY <1>1, Zenon
  <2> QED BY <1>1, <1>5, <2>1 DEF SupervisorTypeOK
<1>7. report \in Seq(Findings)
  BY <1>1
<1>8. Types
  BY <1>3, <1>6, <1>7 DEF Types
<1>9. Books /\ FillsAreReal
  <2> SUFFICES ASSUME NEW c \in Clients PROVE BookOK(c) /\ order[c].filled <= book[c].filled
    BY DEF Books, FillsAreReal
  <2>1. /\ order[c].filled = 0 /\ book[c].filled = 0 /\ book[c].status \in {"open", "none"}
        /\ Size[c] \in Nat \ {0}
    BY <1>1, <1>2, ReconciliationAssumption
  <2> QED BY <2>1 DEF BookOK
<1>10. Reported
  BY <1>1 DEF Reported
<1>11. Audit
  BY <1>1 DEF Audit, Begun, Degradation, AuditIsKept
<1> QED BY <1>8, <1>9, <1>10, <1>11 DEF IInv, Credit

LEMMA IInvStep == ASSUME IInv, [Next]_allVars PROVE IInv'
<1>1. CASE UNCHANGED allVars
  <2>1. UNCHANGED vars /\ UNCHANGED <<errors, saved, degraded, agent, stop>>
    BY <1>1 DEF allVars, supVars, audit, lifecycle
  <2>2. phase' = phase /\ unresolved' = unresolved /\ supUnresolved' = supUnresolved
    BY <2>1 DEF vars, startup
  <2>3. Audit'
    BY <2>1, <2>2, SupHeld DEF Audit, Begun, Degradation, AuditIsKept, ClaimsRecovery
  <2>4. degraded' \in BOOLEAN
    BY <2>1, SupHeld, Zenon
  <2> QED BY <2>1, <2>3, <2>4, SupHeld, LifecycleStep
<1> QED BY <1>1, SupervisorStartKeeps, StartAgentKeeps, RestartKeeps, IngestKeeps, RecheckKeeps,
           TradeKeeps, ShutdownKeeps DEF Next

LEMMA InvariantHolds == Spec => []IInv
<1>1. SupervisorInit => IInv
  BY InitIInv
<1>2. IInv /\ [Next]_allVars => IInv'
  BY IInvStep
<1> QED BY <1>1, <1>2, PTL DEF Spec

-----------------------------------------------------------------------------
(* Theorems                                                                *)

\* Type correctness of the supervisor, the reconciliation and the broker's books.
THEOREM SupervisorTypeCorrect == Spec => []SupervisorTypeOK
<1>1. IInv => SupervisorTypeOK
  BY DEF IInv, Types
<1> QED BY <1>1, InvariantHolds, PTL

\* A session whose start left the reconciliation unresolved, or whose market data
\* are degraded, says so in its graph state and its checkpoints, however starts,
\* restarts, reconciliations, outages and shutdown follow one another.
THEOREM AuditAlwaysKept == Spec => []AuditIsKept
<1>1. IInv => AuditIsKept
  BY DEF IInv, Audit
<1> QED BY <1>1, InvariantHolds, PTL

\* No correction that BrokerReconciler builds and no fill recorded late credits
\* an order with more than the broker filled, for any orders and sizes, although
\* the broker goes on filling between the report and its corrections.
THEOREM FillsAlwaysReal == Spec => []FillsAreReal
<1>1. IInv => FillsAreReal
  BY DEF IInv, Credit
<1> QED BY <1>1, InvariantHolds, PTL

\* An empty report compares the position and every order, if the broker reports
\* at most one row of the contract.
LEMMA ConsistentAgrees ==
  ASSUME IInv, Consistent, Len(rows) < 2 PROVE Agrees
<1>1. Types /\ FillsAreReal /\ rows \in Seq(Int \ {0})
  BY Held DEF IInv, Credit
<1>2. PositionFindings = <<>> /\ \A c \in Clients : OrderFindings(c) = {}
  BY <1>1, ReportOK
<1>3. \A c \in Clients : (Active(c) => Working(c)) /\ (Working(c) => order[c].status # "none")
  <2> SUFFICES ASSUME NEW c \in Clients
               PROVE  (Active(c) => Working(c)) /\ (Working(c) => order[c].status # "none")
    OBVIOUS
  <2>1. OrderFindings(c) = {}
    BY <1>2
  <2>2. CASE Active(c)
    BY <2>1, <2>2 DEF OrderFindings, Active
  <2>3. CASE ~Active(c)
    BY <2>1, <2>3 DEF OrderFindings
  <2> QED BY <2>2, <2>3
<1>4. pos = Total
  <2>1. Total = IF rows = <<>> THEN 0 ELSE rows[1]
    BY <1>1, TotalOfOne
  <2>2. PICK n \in Nat : n = Len(rows)
    BY <1>1
  <2>3. rows # <<>> => n = 1 /\ DOMAIN rows # {}
    <3> SUFFICES ASSUME rows # <<>> PROVE n = 1 /\ DOMAIN rows # {}
      OBVIOUS
    <3>1. n # 0 /\ n < 2 /\ DOMAIN rows = 1..n
      BY <1>1, <2>2, EmptySeq
    <3>2. n = 1 /\ 1 \in 1..n
      BY <3>1
    <3> QED BY <3>1, <3>2
  <2>4. \A x : <<x>> # <<>>
    OBVIOUS
  <2>5. CASE pos # 0
    <3>1. rows # <<>> /\ Last(rows) = pos
      BY <1>2, <2>4, <2>5, Zenon DEF PositionFindings
    <3> QED BY <2>1, <2>2, <2>3, <3>1 DEF Last
  <2>6. CASE pos = 0
    <3>1. DOMAIN PositionFindings = DOMAIN rows
      BY <2>6 DEF PositionFindings
    <3>2. DOMAIN rows = {}
      BY <1>2, <3>1
    <3> QED BY <2>1, <2>3, <2>6, <3>2
  <2> QED BY <2>5, <2>6
<1> QED BY <1>3, <1>4 DEF Agrees

\* SessionSupervisor.start claims recovery only when the projection agrees with
\* what the broker reports then, whatever was corrected and whatever the broker
\* filled between the comparison, the corrections and the follow-up.
THEOREM RecoveryAlwaysHonest == Spec => RecoveryIsHonest
<1>1. ASSUME IInv, [Next]_allVars
      PROVE  [phase # "up" /\ phase' = "up" /\ ClaimsRecovery' /\ Len(rows) < 2 => Agrees']_vars
  <2> SUFFICES ASSUME phase # "up", phase' = "up", ClaimsRecovery', Len(rows) < 2 PROVE Agrees'
    OBVIOUS
  <2>1. StartCompare \/ StartRecheck
    <3>1. CASE SupervisorStart
      BY <3>1 DEF SupervisorStart, Start, StartApply, StartApplyAgain, StartFollowUp
    <3>2. CASE Restart
      BY <3>2 DEF Restart, Crash
    <3>3. CASE UNCHANGED phase
      BY <3>3
    <3>4. SupervisorStart \/ Restart \/ UNCHANGED phase
      BY <1>1 DEF Next, allVars, vars, startup, StartAgent, IngestFail, IngestOk, Recheck, Reconcile,
           Trade, Request, Send, SendFails, Accept, RecordFill, RecordPartial, RecordCancel, BrokerFills,
           ShutdownBegins, Shutdown, ShutdownReconciles, ShutdownAborts, ShutdownCheckpoints, ShutdownCloses
    <3> QED BY <3>1, <3>2, <3>3, <3>4
  <2>2. Consistent /\ UNCHANGED <<ledger, broker>>
    BY <2>1 DEF StartCompare, StartRecheck, ClaimsRecovery
  <2>3. Agrees
    BY <1>1, <2>2, ConsistentAgrees
  <2>4. order' = order /\ pos' = pos /\ book' = book /\ rows' = rows /\ seen' = seen
    BY <2>2 DEF ledger, broker
  <2>5. Total' = Total
    BY <2>4, Zenon DEF Total, FoldSeq, FoldFunction, FoldFunctionOnSet, MapThenFoldSet
  <2> QED BY <2>3, <2>4, <2>5 DEF Agrees, Active, Working
<1> QED BY <1>1, InvariantHolds, PTL DEF Spec, RecoveryIsHonest
=============================================================================
