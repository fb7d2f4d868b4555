---------------------------- MODULE OutlineProofs ----------------------------
(***************************************************************************)
(* Proofs about the outline of a course, for any number of siblings and    *)
(* requests: what the variables hold, which needs that sums, ranks and     *)
(* last positions are numbers; who can wait for each other for good, which *)
(* follows from where requests can stand with rows that they hold; and     *)
(* that no reorder is lost, which follows from whose those rows are.       *)
(***************************************************************************)
EXTENDS OutlineProps, NumberProofs

\* Where requests of each kind can stand, and what they then have in hand.
Formed(q) ==
    /\ q.held # {} => q.pc \in {"locking", "totalling", "course"}
    /\ q.pc = "row" => q.op \in {"update", "delete"}
    /\ q.pc = "placing" => q.op = "create" /\ q.node \in Nodes
    /\ q.pc = "locking" => q.op \in {"delete", "reorder"}
    /\ q.pc = "cascading" => q.op = "deleteCourse"
    /\ q.op = "deleteCourse" => q.pc \in {"course", "cascading"} /\ q.held = {}
    /\ q.pc = "listed" => q.op = "reorder"
    /\ q.op = "reorder" => q.pc \in {"listed", "locking"}
    /\ q.pc \in {"totalling", "course"} /\ q.op # "deleteCourse" =>
         kind = "lesson" /\ q.op \in {"create", "update", "delete"}

OutlineInv == TypeOK /\ \A r \in Requests : Formed(req[r])

----------------------------------------------------------------------------
(* Numbers                                                                 *)

LEMMA NodesFact ==
  /\ Nodes \subseteq Nat /\ IsFiniteSet(Nodes) /\ NoNode \notin Nodes /\ Sizes \subseteq Nat
  /\ \A N \in SUBSET Nodes : IsFiniteSet(N) /\ Cardinality(N) \in Nat
<1>1. Nodes \subseteq Nat /\ IsFiniteSet(Nodes) /\ NoNode \notin Nodes /\ Sizes \subseteq Nat
  BY OutlineAssumption
<1>2. QED
  BY <1>1, FS_Subset, FS_CardinalityType

\* The duration of a list is a natural.
LEMMA DurationIsNat ==
  ASSUME NEW f \in [Nodes -> Row]
  PROVE  Duration(f) \in Nat
<1> DEFINE g == [n \in Nodes |-> f[n].size]
<1>1. There(f) \in SUBSET Nodes /\ \A n \in There(f) : g[n] \in Nat
  BY DEF There, Row
<1>2. Duration(f) = SumOf(g, There(f))
  BY DEF Duration, SumFunctionOnSet, FoldFunctionOnSet, MapThenFoldSet,
         Sums, Some, AddedUp, SumOf
<1>3. QED
  BY <1>1, <1>2, NodesFact, SumIsNat

\* A finite set of integers has a greatest element.
LEMMA GreatestOf ==
  ASSUME NEW N, IsFiniteSet(N), N # {}, NEW f, \A n \in N : f[n] \in Int
  PROVE  \E n \in N : \A m \in N : f[m] <= f[n]
<1> DEFINE above(n) == {m \in N : f[n] < f[m]}
           T == {Cardinality(above(n)) : n \in N}
<1>1. \A n \in N : IsFiniteSet(above(n)) /\ Cardinality(above(n)) \in Nat
  BY FS_Subset, FS_CardinalityType
<1>2. T \subseteq Nat /\ T # {}
  BY <1>1
<1>3. PICK t \in T : \A u \in T : t <= u
  BY <1>2, NatMin
<1>4. PICK n \in N : t = Cardinality(above(n))
  OBVIOUS
<1>5. ASSUME NEW m \in N PROVE f[m] <= f[n]
  <2> SUFFICES ASSUME f[n] < f[m] PROVE FALSE
    OBVIOUS
  <2>1. above(m) \subseteq above(n) \ {m} /\ m \in above(n)
    <3>1. \A x \in above(m) : f[x] \in Int /\ f[n] \in Int /\ f[m] \in Int
      OBVIOUS
    <3>2. QED
      BY <3>1
  <2>2. Cardinality(above(n) \ {m}) = Cardinality(above(n)) - 1 /\ IsFiniteSet(above(n) \ {m})
    BY <1>1, <2>1, FS_RemoveElement
  <2>3. Cardinality(above(m)) <= Cardinality(above(n) \ {m})
    BY <2>1, <2>2, FS_Subset
  <2>4. Cardinality(above(n)) <= Cardinality(above(m))
    BY <1>3, <1>4
  <2>5. Cardinality(above(n)) \in Nat /\ Cardinality(above(m)) \in Nat
    BY <1>1
  <2>6. QED
    BY <2>2, <2>3, <2>4, <2>5
<1>6. QED
  BY <1>5

LEMMA LastPositionIsInt ==
  ASSUME TypeOK
  PROVE  LastPosition \in Int
<1> DEFINE f == [n \in Nodes |-> row[n].position]
<1>1. Siblings \in SUBSET Nodes /\ \A n \in Siblings : f[n] \in Int /\ f[n] = row[n].position
  BY DEF Siblings, There, TypeOK, Row
<1>2. CASE Siblings = {}
  BY <1>2 DEF LastPosition
<1>3. CASE Siblings # {}
  <2> HIDE DEF f
  <2>1. PICK n \in Siblings : \A m \in Siblings : f[m] <= f[n]
    BY <1>1, <1>3, NodesFact, GreatestOf
  <2>2. \E p \in {row[x].position : x \in Siblings} : \A m \in Siblings : row[m].position <= p
    BY <1>1, <2>1
  <2>3. LastPosition \in {row[x].position : x \in Siblings}
    BY <1>3, <2>2 DEF LastPosition
  <2>4. QED
    BY <1>1, <2>3
<1>4. QED
  BY <1>2, <1>3

\* Siblings that are put into a list each have a number there.
LEMMA ListFact ==
  ASSUME NEW N \in SUBSET Nodes, NEW list \in SetToSeqs(N)
  PROVE  /\ DOMAIN list \subseteq Nat
         /\ \A n \in N : \E i \in DOMAIN list : list[i] = n
<1>1. IsFiniteSet(N) /\ Cardinality(N) \in Nat
  BY NodesFact
<1>2. PICK D : D = 1 .. Cardinality(N)
  OBVIOUS
<1>3. list \in [D -> N] /\ \A i, j \in D : i # j => list[i] # list[j]
  BY <1>2 DEF SetToSeqs
<1>4. D \subseteq Nat /\ IsFiniteSet(D) /\ Cardinality(D) = Cardinality(N)
  BY <1>1, <1>2, FS_Interval
<1>5. list \in Injection(D, N)
  BY <1>3 DEF Injection, IsInjective
<1>6. list \in Surjection(D, N)
  BY <1>1, <1>4, <1>5, FS_Injection
<1>7. QED
  BY <1>3, <1>4, <1>6 DEF Surjection

----------------------------------------------------------------------------
(* Steps                                                                   *)

LEMMA InvParts ==
  ASSUME OutlineInv
  PROVE  /\ kind \in Kinds /\ row \in [Nodes -> Row] /\ learned \subseteq There(row)
         /\ course \in [there: BOOLEAN, duration: Nat]
         /\ req \in [Requests -> Request]
         /\ \A r \in Requests : req[r] \in Request /\ Formed(req[r])
BY DEF OutlineInv, TypeOK

LEMMA IdleFact == Idle \in Request /\ Formed(Idle)
<1>1. NewRow \in Row
  BY DEF NewRow, Row
<1>2. QED
  BY <1>1 DEF Idle, Request, Phase, Formed

\* A request that goes on.
LEMMA Sent ==
  ASSUME OutlineInv, NEW r \in Requests, NEW q \in Request, Formed(q), kind' = kind,
         req' = [req EXCEPT ![r] = q]
  PROVE  req' \in [Requests -> Request] /\ \A x \in Requests : Formed(req[x])'
<1>1. req' \in [Requests -> Request] /\ \A x \in Requests : Formed(req'[x])
  BY InvParts
<1>2. QED
  BY <1>1 DEF Formed

LEMMA Going ==
  ASSUME OutlineInv, NEW r \in Requests, NEW q \in Request, Formed(q), Goto(r, q)
  PROVE  OutlineInv'
<1>1. /\ kind' = kind /\ row' = row /\ learned' = learned /\ course' = course
      /\ req' = [req EXCEPT ![r] = q]
  BY DEF Goto
<1>2. req' \in [Requests -> Request] /\ \A x \in Requests : Formed(req[x])'
  BY <1>1, Sent
<1>3. QED
  BY <1>1, <1>2, InvParts DEF OutlineInv, TypeOK, There

LEMMA Starting ==
  ASSUME OutlineInv, NEW r \in Requests, NEW op, NEW pc, NEW q,
         [q EXCEPT !.op = op, !.pc = pc] \in Request, Formed([q EXCEPT !.op = op, !.pc = pc]),
         Begin(r, op, pc, q)
  PROVE  OutlineInv'
<1>1. Goto(r, [q EXCEPT !.op = op, !.pc = pc])
  BY DEF Begin, Goto
<1>2. QED
  BY <1>1, Going

LEMMA Aborting ==
  ASSUME OutlineInv, NEW r \in Requests, Abort(r)
  PROVE  OutlineInv'
<1>1. /\ kind' = kind /\ row' = row /\ learned' = learned /\ course' = course
      /\ req' = [req EXCEPT ![r] = Idle]
  BY DEF Abort, End
<1>2. req' \in [Requests -> Request] /\ \A x \in Requests : Formed(req[x])'
  BY <1>1, Sent, IdleFact
<1>3. QED
  BY <1>1, <1>2, InvParts DEF OutlineInv, TypeOK, There

LEMMA Committing ==
  ASSUME OutlineInv, NEW r \in Requests, NEW f \in [Nodes -> Row], Commit(r, f),
         course' \in [there: BOOLEAN, duration: Nat]
  PROVE  OutlineInv'
<1>1. /\ kind' = kind /\ row' = f /\ learned' = learned \cap There(f)
      /\ req' = [req EXCEPT ![r] = Idle]
  BY DEF Commit, End
<1>2. req' \in [Requests -> Request] /\ \A x \in Requests : Formed(req[x])'
  BY <1>1, Sent, IdleFact
<1>3. learned' \subseteq There(row)'
  BY <1>1 DEF There
<1>4. QED
  BY <1>1, <1>2, <1>3, InvParts DEF OutlineInv, TypeOK

LEMMA ViewTyped ==
  ASSUME OutlineInv, NEW q \in Request
  PROVE  [n \in Nodes |-> IF n \in q.held THEN q.mine[n] ELSE row[n]] \in [Nodes -> Row]
BY InvParts DEF Request

LEMMA Finishing ==
  ASSUME OutlineInv, NEW r \in Requests, NEW q \in Request,
         q.op \in {"create", "update", "delete"}, q.pc \in {"placing", "row", "locking"}, Finish(r, q)
  PROVE  OutlineInv'
<1>1. CASE kind = "lesson"
  <2> DEFINE x == [q EXCEPT !.pc = "totalling"]
  <2>1. x \in Request /\ x.pc = "totalling" /\ x.op = q.op
    BY DEF Request, Phase
  <2>2. Formed(x)
    BY <1>1, <2>1 DEF Formed
  <2>3. Goto(r, x)
    BY <1>1 DEF Finish
  <2>4. QED
    BY <2>1, <2>2, <2>3, Going
<1>2. CASE kind # "lesson"
  <2>1. /\ Commit(r, [n \in Nodes |-> IF n \in q.held THEN q.mine[n] ELSE row[n]])
        /\ course' = course
    BY <1>2 DEF Finish
  <2>2. QED
    BY <2>1, ViewTyped, InvParts, Committing
<1>3. QED
  BY <1>1, <1>2

LEMMA CreateStep ==
  ASSUME OutlineInv, NEW r \in Requests, NEW n \in Nodes, NEW s \in Sizes, StartCreate(r, n, s)
  PROVE  OutlineInv'
<1> DEFINE new == [is |-> "there", position |-> LastPosition + 1, size |-> IF kind = "lesson" THEN s ELSE 0]
           q == [Idle EXCEPT !.node = n, !.mine[n] = new]
           x == [q EXCEPT !.op = "create", !.pc = "placing"]
<1>1. new \in Row
  BY LastPositionIsInt, NodesFact DEF OutlineInv, Row
<1>2. Begin(r, "create", "placing", q)
  BY DEF StartCreate
<1> HIDE DEF new
<1>3. x \in Request
  BY <1>1, IdleFact DEF Request, Phase
<1>4. x.op = "create" /\ x.pc = "placing" /\ x.node = n /\ x.held = {}
  BY DEF Idle
<1>5. Formed(x)
  BY <1>4 DEF Formed
<1>6. QED
  BY <1>2, <1>3, <1>5, Starting

LEMMA UpdateStarts ==
  ASSUME OutlineInv, NEW r \in Requests, NEW n \in Nodes, NEW s \in Sizes, StartUpdate(r, n, s)
  PROVE  OutlineInv'
<1> DEFINE size == IF kind = "lesson" THEN s ELSE 0
           q == [Idle EXCEPT !.node = n, !.mine[n].size = size]
           x == [q EXCEPT !.op = "update", !.pc = "row"]
<1>1. Begin(r, "update", "row", q)
  BY DEF StartUpdate
<1>2. x \in Request
  <2>1. size \in Nat
    BY NodesFact
  <2> HIDE DEF size
  <2>2. Idle.mine \in [Nodes -> Row]
    BY IdleFact DEF Request
  <2>3. [Idle.mine EXCEPT ![n].size = size] \in [Nodes -> Row]
    BY <2>1, <2>2 DEF Row
  <2>4. x = [Idle EXCEPT !.node = n, !.mine = [Idle.mine EXCEPT ![n].size = size],
                         !.op = "update", !.pc = "row"]
    OBVIOUS
  <2>5. QED
    BY <2>3, <2>4, IdleFact DEF Request, Phase
<1>3. x.op = "update" /\ x.pc = "row" /\ x.held = {}
  BY DEF Idle
<1>4. Formed(x)
  BY <1>3 DEF Formed
<1>5. QED
  BY <1>1, <1>2, <1>4, Starting

LEMMA OthersStart ==
  ASSUME OutlineInv, NEW r \in Requests,
         (\E n \in Nodes : StartDelete(r, n)) \/ StartReorder(r) \/ StartDeleteCourse(r)
  PROVE  OutlineInv'
<1>1. ASSUME NEW n \in Nodes, StartDelete(r, n) PROVE OutlineInv'
  <2> DEFINE q == [Idle EXCEPT !.node = n]
             x == [q EXCEPT !.op = "delete", !.pc = "row"]
  <2>1. x \in Request /\ x.op = "delete" /\ x.pc = "row" /\ x.held = {}
    BY IdleFact DEF Request, Phase, Idle
  <2>2. Formed(x)
    BY <2>1 DEF Formed
  <2>3. QED
    BY <1>1, <2>1, <2>2, Starting DEF StartDelete
<1>2. CASE StartReorder(r)
  <2> DEFINE q == [Idle EXCEPT !.seen = Shown]
             x == [q EXCEPT !.op = "reorder", !.pc = "listed"]
  <2>1. x \in Request /\ x.op = "reorder" /\ x.pc = "listed" /\ x.held = {}
    BY IdleFact DEF Request, Phase, Idle, Shown, Siblings, There
  <2>2. Formed(x)
    BY <2>1 DEF Formed
  <2>3. QED
    BY <1>2, <2>1, <2>2, Starting DEF StartReorder
<1>3. CASE StartDeleteCourse(r)
  <2> DEFINE x == [Idle EXCEPT !.op = "deleteCourse", !.pc = "course"]
  <2>1. x \in Request /\ x.op = "deleteCourse" /\ x.pc = "course" /\ x.held = {}
    BY IdleFact DEF Request, Phase, Idle
  <2>2. Formed(x)
    BY <2>1 DEF Formed
  <2>3. QED
    BY <1>3, <2>1, <2>2, Starting DEF StartDeleteCourse
<1>4. QED
  BY <1>1, <1>2, <1>3

LEMMA PlaceStep ==
  ASSUME OutlineInv, NEW r \in Requests, Place(r)
  PROVE  OutlineInv'
<1> DEFINE q == [req[r] EXCEPT !.held = {req[r].node}]
<1>1. req[r] \in Request /\ req[r].pc = "placing" /\ req[r].op = "create" /\ req[r].node \in Nodes
  BY InvParts DEF Place, CanPlace, Formed
<1>2. q \in Request /\ q.pc = "placing" /\ q.op = "create"
  BY <1>1 DEF Request
<1>3. Finish(r, q)
  BY DEF Place
<1>4. QED
  BY <1>2, <1>3, Finishing

LEMMA UpdateStep ==
  ASSUME OutlineInv, NEW r \in Requests, Update(r)
  PROVE  OutlineInv'
<1> DEFINE n == req[r].node
           new == [row[n] EXCEPT !.size = req[r].mine[n].size]
           q == [req[r] EXCEPT !.held = {n}, !.mine[n] = new]
<1>1. req[r] \in Request /\ req[r].pc = "row" /\ req[r].op = "update" /\ n \in Nodes
  BY InvParts DEF Update, Siblings, There
<1>2. new \in Row
  <2>1. row[n] \in Row /\ req[r].mine[n] \in Row
    BY <1>1, InvParts DEF Request
  <2>2. QED
    BY <2>1 DEF Row
<1>3. Finish(r, q)
  BY DEF Update
<1> HIDE DEF new
<1>4. q \in Request /\ q.pc = "row" /\ q.op = "update"
  BY <1>1, <1>2 DEF Request
<1>5. QED
  BY <1>3, <1>4, Finishing

LEMMA RankIsNat ==
  ASSUME NEW N \in SUBSET Nodes, NEW n
  PROVE  Rank(n, N) \in Nat
<1>1. {m \in N : row[m].position <= row[n].position} \in SUBSET Nodes
  OBVIOUS
<1>2. QED
  BY <1>1, NodesFact DEF Rank

LEMMA DeleteStep ==
  ASSUME OutlineInv, NEW r \in Requests, Delete(r)
  PROVE  OutlineInv'
<1> DEFINE rest == Siblings \ {req[r].node}
           todo == {n \in rest : Rank(n, rest) # row[n].position}
           mine == [n \in Nodes |-> IF n \in rest
                                    THEN [row[n] EXCEPT !.position = Rank(n, rest)] ELSE Gone]
           q == [req[r] EXCEPT !.pc = "locking", !.held = {req[r].node}, !.todo = todo, !.mine = mine]
<1>1. req[r] \in Request /\ req[r].op = "delete" /\ req[r].node \in Nodes /\ rest \in SUBSET Nodes
  BY InvParts DEF Delete, Siblings, There
<1>2. mine \in [Nodes -> Row]
  <2> SUFFICES ASSUME NEW n \in Nodes
               PROVE  [row[n] EXCEPT !.position = Rank(n, rest)] \in Row /\ Gone \in Row
    OBVIOUS
  <2>1. row[n] \in Row /\ Rank(n, rest) \in Int
    BY <1>1, InvParts, RankIsNat
  <2>2. QED
    BY <2>1 DEF Row, Gone
<1>3. todo \in SUBSET Nodes
  BY <1>1
<1>4. Goto(r, q)
  BY DEF Delete
<1> HIDE DEF mine, todo
<1>5. q \in Request /\ q.pc = "locking" /\ q.op = "delete"
  BY <1>1, <1>2, <1>3 DEF Request, Phase
<1>6. Formed(q)
  BY <1>5 DEF Formed
<1>7. QED
  BY <1>4, <1>5, <1>6, Going

LEMMA RenumberStep ==
  ASSUME OutlineInv, NEW r \in Requests, NEW n \in Nodes, Renumber(r, n)
  PROVE  OutlineInv'
<1> DEFINE new == [row[n] EXCEPT !.position = req[r].mine[n].position]
           q == [req[r] EXCEPT !.todo = @ \ {n}, !.held = @ \cup {n}, !.mine[n] = new]
<1>1. req[r] \in Request /\ req[r].pc = "locking" /\ req[r].op = "delete"
  BY InvParts DEF Renumber
<1>2. new \in Row
  <2>1. row[n] \in Row /\ req[r].mine[n] \in Row
    BY <1>1, InvParts DEF Request
  <2>2. QED
    BY <2>1 DEF Row
<1>3. Goto(r, q)
  BY DEF Renumber
<1> HIDE DEF new
<1>4. q \in Request /\ q.pc = "locking" /\ q.op = "delete"
  BY <1>1, <1>2 DEF Request
<1>5. Formed(q)
  BY <1>4 DEF Formed
<1>6. QED
  BY <1>3, <1>4, <1>5, Going

LEMMA ScanStep ==
  ASSUME OutlineInv, NEW r \in Requests, Scan(r)
  PROVE  OutlineInv'
<1> DEFINE q == [req[r] EXCEPT !.pc = "locking", !.todo = Siblings]
<1>1. req[r] \in Request /\ req[r].held = {} /\ req[r].pc = "listed" /\ Siblings \in SUBSET Nodes
  BY InvParts DEF Scan, Formed, Siblings, There
<1>2. q \in Request /\ q.pc = "locking" /\ q.held = {} /\ q.op = req[r].op
  BY <1>1 DEF Request, Phase
<1>3. req[r].op = "reorder"
  BY <1>1, InvParts DEF Formed
<1>4. Formed(q)
  BY <1>2, <1>3 DEF Formed
<1>5. QED
  BY <1>2, <1>4, Going DEF Scan

LEMMA LockStep ==
  ASSUME OutlineInv, NEW r \in Requests, NEW n \in Nodes, LockSibling(r, n)
  PROVE  OutlineInv'
<1> DEFINE locked == [req[r] EXCEPT !.todo = @ \ {n}, !.held = @ \cup {n}, !.mine[n] = row[n]]
           passed == [req[r] EXCEPT !.todo = @ \ {n}]
<1>1. req[r] \in Request /\ req[r].pc = "locking" /\ req[r].op = "reorder" /\ row[n] \in Row
  BY InvParts DEF LockSibling
<1>2. /\ locked \in Request /\ locked.pc = "locking" /\ locked.op = "reorder"
      /\ passed \in Request /\ passed.pc = "locking" /\ passed.op = "reorder"
  BY <1>1 DEF Request
<1>3. Formed(locked) /\ Formed(passed)
  BY <1>2 DEF Formed
<1>4. Goto(r, locked) \/ Goto(r, passed)
  BY DEF LockSibling
<1>5. QED
  BY <1>2, <1>3, <1>4, Going

LEMMA ReorderStep ==
  ASSUME OutlineInv, NEW r \in Requests, NEW list \in SetToSeqs(req[r].seen), Reorder(r, list)
  PROVE  OutlineInv'
<1>1. CASE Abort(r)
  BY <1>1, Aborting
<1>2. CASE Commit(r, Reordered(list, req[r].held)) /\ course' = course
  <2>1. DOMAIN list \subseteq Nat
    BY InvParts, ListFact DEF Request
  <2>2. \A n \in Nodes : row[n] \in Row /\ row[n].position \in Int /\ Parking \in Int
    BY InvParts, OutlineAssumption DEF Row
  <2>3. Parked(req[r].held) \in [Nodes -> Row]
    <3>1. \A n \in Nodes : -((IF row[n].position < 0 THEN -row[n].position ELSE row[n].position) + Parking) \in Int
      BY <2>2
    <3>2. \A n \in Nodes : \A p \in Int : [row[n] EXCEPT !.position = p] \in Row
      BY <2>2 DEF Row
    <3>3. QED
      BY <2>2, <3>1, <3>2 DEF Parked
  <2>4. Reordered(list, req[r].held) \in [Nodes -> Row]
    <3>1. \A n \in Nodes : (\E i \in DOMAIN list : list[i] = n)
             => (CHOOSE i \in DOMAIN list : list[i] = n) \in Int
      BY <2>1
    <3>2. \A n \in Nodes : \A p \in Int : [row[n] EXCEPT !.position = p] \in Row
      BY <2>2 DEF Row
    <3>3. QED
      BY <2>3, <3>1, <3>2 DEF Reordered
  <2>5. QED
    BY <1>2, <2>4, InvParts, Committing
<1>3. QED
  BY <1>1, <1>2 DEF Reorder

LEMMA DurationSteps ==
  ASSUME OutlineInv, NEW r \in Requests, Total(r) \/ SaveDuration(r)
  PROVE  OutlineInv'
<1>1. req[r] \in Request /\ Formed(req[r]) /\ View(r) \in [Nodes -> Row]
  BY InvParts, ViewTyped DEF View
<1>2. Duration(View(r)) \in Nat
  BY <1>1, DurationIsNat
<1>3. CASE Commit(r, View(r)) /\ course' = course
  BY <1>1, <1>3, InvParts, Committing
<1>4. CASE SaveDuration(r)
  <2>1. course' \in [there: BOOLEAN, duration: Nat]
    BY <1>1, <1>4, InvParts DEF SaveDuration, Request
  <2>2. QED
    BY <1>1, <1>4, <2>1, Committing DEF SaveDuration
<1>5. CASE Total(r)
  <2> DEFINE q == [req[r] EXCEPT !.pc = "course", !.total = Duration(View(r))]
  <2>1. q \in Request /\ q.pc = "course" /\ q.op = req[r].op
    BY <1>1, <1>2 DEF Request, Phase
  <2>2. req[r].pc = "totalling"
    BY <1>5 DEF Total
  <2>3. kind = "lesson" /\ req[r].op \in {"create", "update", "delete"}
    BY <1>1, <2>2 DEF Formed
  <2>4. Formed(q)
    BY <2>1, <2>3 DEF Formed
  <2>5. CASE Goto(r, q)
    BY <2>1, <2>4, <2>5, Going
  <2>6. QED
    BY <1>3, <1>5, <2>5 DEF Total
<1>6. QED
  BY <1>4, <1>5

LEMMA FinishDeleteStep ==
  ASSUME OutlineInv, NEW r \in Requests, FinishDelete(r)
  PROVE  OutlineInv'
<1>1. req[r] \in Request /\ req[r].pc = "locking" /\ req[r].op = "delete"
  BY InvParts DEF FinishDelete
<1>2. Abort(r) \/ Finish(r, req[r])
  BY DEF FinishDelete
<1>3. QED
  BY <1>1, <1>2, Aborting, Finishing

LEMMA CourseSteps ==
  ASSUME OutlineInv, NEW r \in Requests, LockCourse(r) \/ Cascade(r)
  PROVE  OutlineInv'
<1>1. CASE LockCourse(r)
  <2> DEFINE q == [req[r] EXCEPT !.pc = "cascading"]
  <2>1. req[r] \in Request /\ req[r].op = "deleteCourse" /\ req[r].held = {}
    BY <1>1, InvParts DEF LockCourse, Formed
  <2>2. q \in Request /\ q.pc = "cascading" /\ q.op = "deleteCourse" /\ q.held = {}
    BY <2>1 DEF Request, Phase
  <2>3. Formed(q)
    BY <2>2 DEF Formed
  <2>4. QED
    BY <1>1, <2>2, <2>3, Going, Aborting DEF LockCourse
<1>2. CASE Cascade(r)
  <2> DEFINE f == [n \in Nodes |-> IF n \in Siblings THEN Gone ELSE row[n]]
  <2>1. f \in [Nodes -> Row]
    BY InvParts DEF Gone, Row
  <2>2. course' \in [there: BOOLEAN, duration: Nat]
    BY <1>2 DEF Cascade
  <2>3. Commit(r, f)
    BY <1>2 DEF Cascade
  <2>4. QED
    BY <2>1, <2>2, <2>3, Committing
<1>3. QED
  BY <1>1, <1>2

LEMMA ApartFromRequests ==
  ASSUME OutlineInv, CreateCourse \/ Publish \/ \E n \in Nodes : Learn(n)
  PROVE  OutlineInv'
<1>1. /\ kind' = kind /\ row' = row /\ req' = req
      /\ learned' \subseteq There(row)
  BY InvParts DEF CreateCourse, Publish, Learn, Siblings
<1>2. Duration(row) \in Nat
  BY InvParts, DurationIsNat
<1>3. course' \in [there: BOOLEAN, duration: Nat]
  <2>1. CASE Publish
    <3>1. \A d \in Nat : [course EXCEPT !.duration = d] \in [there: BOOLEAN, duration: Nat]
      BY InvParts
    <3>2. course.duration \in Nat
      BY InvParts
    <3>3. QED
      BY <1>2, <2>1, <3>1, <3>2 DEF Publish
  <2>2. CASE CreateCourse
    <3>1. course' = [there |-> TRUE, duration |-> 0]
      BY <2>2 DEF CreateCourse
    <3>2. QED
      BY <3>1
  <2>3. CASE \E n \in Nodes : Learn(n)
    <3>1. course' = course
      BY <2>3 DEF Learn
    <3>2. QED
      BY <3>1, InvParts
  <2>4. QED
    BY <2>1, <2>2, <2>3
<1>4. \A x \in Requests : Formed(req[x])'
  BY <1>1, InvParts DEF Formed
<1>5. QED
  BY <1>1, <1>3, <1>4, InvParts DEF OutlineInv, TypeOK, There

LEMMA OutlineStep ==
  ASSUME OutlineInv, [Next]_vars
  PROVE  OutlineInv'
<1>1. CASE UNCHANGED vars
  BY <1>1 DEF vars, OutlineInv, TypeOK, Formed, There
<1>2. ASSUME NEW r \in Requests, NEW n \in Nodes, NEW s \in Sizes,
             StartCreate(r, n, s) \/ StartUpdate(r, n, s)
      PROVE  OutlineInv'
  BY <1>2, CreateStep, UpdateStarts
<1>3. ASSUME NEW r \in Requests,
             \/ (\E n \in Nodes : StartDelete(r, n)) \/ StartReorder(r) \/ StartDeleteCourse(r)
             \/ Place(r) \/ Update(r) \/ Delete(r) \/ Scan(r) \/ FinishDelete(r)
             \/ \E n \in Nodes : Renumber(r, n) \/ LockSibling(r, n)
             \/ \E list \in SetToSeqs(req[r].seen) : Reorder(r, list)
             \/ Total(r) \/ SaveDuration(r) \/ LockCourse(r) \/ Cascade(r)
      PROVE  OutlineInv'
  BY <1>3, OthersStart, PlaceStep, UpdateStep, DeleteStep, ScanStep, FinishDeleteStep,
     RenumberStep, LockStep, ReorderStep, DurationSteps, CourseSteps
<1>4. ASSUME NEW r \in Requests,
             CannotPlace(r) \/ Missing(r) \/ Fail(r) \/ \E n \in Nodes : Stale(r, n)
      PROVE  OutlineInv'
  <2>1. Abort(r)
    BY <1>4 DEF CannotPlace, Missing, Fail, Stale
  <2>2. QED
    BY <2>1, Aborting
<1>5. CASE CreateCourse \/ Publish \/ \E n \in Nodes : Learn(n)
  BY <1>5, ApartFromRequests
<1>6. QED
  BY <1>1, <1>2, <1>3, <1>4, <1>5 DEF Next

LEMMA OutlineStarts ==
  ASSUME Init
  PROVE  OutlineInv
<1>1. row \in [Nodes -> Row] /\ learned \subseteq There(row)
  <2>1. PICK list \in SetToSeqs(Early) :
          row = [n \in Nodes |-> IF n \in Early
                                 THEN [is |-> "there", size |-> 0,
                                       position |-> CHOOSE i \in DOMAIN list : list[i] = n]
                                 ELSE NewRow]
    BY DEF Init
  <2>2. DOMAIN list \subseteq Nat /\ \A n \in Early : \E i \in DOMAIN list : list[i] = n
    BY OutlineAssumption, ListFact
  <2> DEFINE at(n) == CHOOSE i \in DOMAIN list : list[i] = n
             first(n) == [is |-> "there", size |-> 0, position |-> at(n)]
  <2>3. \A n \in Early : at(n) \in Int
    BY <2>2
  <2>4. row = [n \in Nodes |-> IF n \in Early THEN first(n) ELSE NewRow]
    BY <2>1
  <2> HIDE DEF at
  <2>5. \A n \in Nodes : row[n] \in Row
    <3>1. \A n \in Early : first(n) \in Row
      BY <2>3 DEF Row
    <3>2. NewRow \in Row
      BY DEF Row, NewRow
    <3> HIDE DEF first
    <3>3. QED
      BY <2>4, <3>1, <3>2
  <2>6. learned \subseteq There(row)
    BY DEF Init
  <2>7. QED
    BY <2>4, <2>5, <2>6
<1>2. req \in [Requests -> Request] /\ \A r \in Requests : Formed(req[r])
  BY IdleFact DEF Init
<1>3. course \in [there: BOOLEAN, duration: Nat] /\ kind \in Kinds
  BY DEF Init
<1>4. QED
  BY <1>1, <1>2, <1>3 DEF OutlineInv, TypeOK

\* Every variable keeps its type; what learners have refers to rows that are there, whoever
\* deletes them meanwhile (guard_course_history and the cascades behind it).
THEOREM OutlineTypesHold == Spec => []TypeOK
<1>1. Init => OutlineInv
  BY OutlineStarts
<1>2. OutlineInv /\ [Next]_vars => OutlineInv'
  BY OutlineStep
<1>3. OutlineInv => TypeOK
  BY DEF OutlineInv
<1>4. QED
  BY <1>1, <1>2, <1>3, PTL DEF Spec

----------------------------------------------------------------------------
(* Circles                                                                 *)

LEMMA Two ==
  ASSUME NEW T, IsFiniteSet(T), NEW a \in T, NEW b \in T, a # b
  PROVE  Cardinality(T) > 1
<1>1. b \in T \ {a} /\ IsFiniteSet(T \ {a}) /\ Cardinality(T \ {a}) = Cardinality(T) - 1
  BY FS_RemoveElement
<1>2. Cardinality(T \ {a}) # 0 /\ Cardinality(T \ {a}) \in Nat /\ Cardinality(T) \in Nat
  BY <1>1, FS_EmptySet, FS_CardinalityType
<1>3. QED
  BY <1>1, <1>2

Locking(r) == req[r].pc = "locking" /\ req[r].op \in {"delete", "reorder"}

Saving(r) == kind = "lesson" /\ req[r].pc = "course" /\ req[r].op \in {"create", "update", "delete"}

\* Who holds rows and waits is locking more of them, or about to save the duration and
\* waits for a deletion of the course.
LEMMA HoldersWait ==
  ASSUME OutlineInv, NEW q \in Requests, req[q].held # {}, NEW x, WaitsFor(q, x)
  PROVE  \/ Locking(q) /\ req[x].held # {} /\ q # x
         \/ Saving(q) /\ req[x].pc = "cascading"
<1>1. Formed(req[q])
  BY InvParts
<1>2. QED
  BY <1>1 DEF Formed, WaitsFor, Locking, Saving

LEMMA Circles ==
  ASSUME OutlineInv
  PROVE  OnlyTheseDeadlock
<1> SUFFICES ASSUME NEW S \in SUBSET Requests, Deadlocked(S)
             PROVE  \/ Cardinality({r \in S : req[r].op \in {"delete", "reorder"}}) > 1
                    \/ \E r, q \in S : /\ req[r].op = "deleteCourse" /\ kind = "lesson"
                                       /\ req[q].op \in {"create", "update", "delete"}
  BY DEF OnlyTheseDeadlock
<1> DEFINE T == {r \in S : req[r].op \in {"delete", "reorder"}}
<1>1. S # {} /\ \A r \in S : \E q \in S : WaitsFor(r, q)
  BY DEF Deadlocked
<1>2. IsFiniteSet(T)
  BY FS_Subset, OutlineAssumption
<1>3. \A r \in S : Formed(req[r])
  BY InvParts
<1>4. \A q \in S : req[q].held # {} =>
         \/ Locking(q) /\ \E x \in S : x # q /\ req[x].held # {}
         \/ Saving(q) /\ \E x \in S : req[x].pc = "cascading"
  BY <1>1, HoldersWait
<1>5. ASSUME NEW q \in S, req[q].held # {}
      PROVE  Cardinality(T) > 1 \/ \E x, y \in S : Saving(x) /\ req[y].pc = "cascading"
  <2>1. CASE Saving(q) /\ \E x \in S : req[x].pc = "cascading"
    BY <2>1
  <2>2. CASE Locking(q) /\ \E x \in S : x # q /\ req[x].held # {}
    <3>1. PICK x \in S : x # q /\ req[x].held # {}
      BY <2>2
    <3>2. CASE Locking(x)
      <4>1. q \in T /\ x \in T
        BY <2>2, <3>2 DEF Locking
      <4>2. QED
        BY <1>2, <3>1, <4>1, Two
    <3>3. CASE Saving(x) /\ \E y \in S : req[y].pc = "cascading"
      BY <3>3
    <3>4. QED
      BY <1>4, <3>1, <3>2, <3>3
  <2>3. QED
    BY <1>4, <1>5, <2>1, <2>2
<1>6. \E q \in S : req[q].held # {}
  <2>1. PICK r \in S, q \in S : WaitsFor(r, q)
    BY <1>1
  <2>2. CASE req[q].held # {}
    BY <2>2
  <2>3. CASE req[q].pc = "cascading"
    <3>1. PICK x \in S : WaitsFor(q, x)
      BY <1>1
    <3>2. QED
      BY <2>3, <3>1 DEF WaitsFor
  <2>4. QED
    BY <2>1, <2>2, <2>3 DEF WaitsFor
<1>7. Cardinality(T) > 1 \/ \E x, y \in S : Saving(x) /\ req[y].pc = "cascading"
  BY <1>5, <1>6
<1>8. \A y \in S : req[y].pc = "cascading" => req[y].op = "deleteCourse"
  BY <1>3 DEF Formed
<1>9. QED
  BY <1>7, <1>8 DEF Saving

\* Requests wait for each other in a circle only if two of them delete or reorder siblings, or
\* one deletes the course and another, about a lesson, saves its duration; for any number of
\* them: who holds rows and waits is one of these, and waits for another who holds rows, or
\* for the deletion of the course, which waits for one who does.
THEOREM OutlineDeadlocks == Spec => []OnlyTheseDeadlock
<1>1. Init => OutlineInv
  BY OutlineStarts
<1>2. OutlineInv /\ [Next]_vars => OutlineInv'
  BY OutlineStep
<1>3. OutlineInv => OnlyTheseDeadlock
  BY Circles
<1>4. QED
  BY <1>1, <1>2, <1>3, PTL DEF Spec

----------------------------------------------------------------------------
(* Rows and who holds them                                                 *)

\* What is so of the rows f that the request q holds, is to create or wants in an order: those
\* that it holds are there, or are its own; a row that is gone stays so; and what its author
\* saw is still to be locked, or held, unless it is gone.
Keeping(q, f) ==
    /\ \A n \in q.held : /\ q.mine[n].is # "new"
                         /\ f[n].is = "there" \/ (q.op = "create" /\ n = q.node)
    /\ q.op = "create" => q.node \in Nodes /\ f[q.node].is = "new" /\ q.mine[q.node].is = "there"
    /\ q.op = "delete" => IF q.pc = "row" THEN q.held = {} ELSE q.node \in q.held
    /\ q.op = "reorder" =>
         \A n \in q.seen : /\ f[n].is # "new"
                           /\ q.pc = "locking" => n \in q.todo \/ n \in q.held \/ f[n].is = "gone"

\* Two requests hold no row together, and create none.
ApartOf(q, x) ==
    /\ q.held \cap x.held = {}
    /\ q.op = "create" /\ x.op = "create" => q.node # x.node

RowInv ==
    /\ \A r \in Requests : Keeping(req[r], row)
    /\ \A r, x \in Requests : r # x => ApartOf(req[r], req[x])

LEMMA IdleKeeps ==
  /\ \A f : Keeping(Idle, f)
  /\ \A x : ApartOf(Idle, x)
BY DEF Idle, Keeping, ApartOf

\* Others may delete what the request does not hold, and create what it does not.
LEMMA KeepingLasts ==
  ASSUME NEW q \in Request, NEW f \in [Nodes -> Row], NEW g \in [Nodes -> Row], Keeping(q, f),
         \A n \in Nodes : \/ g[n] = f[n]
                          \/ f[n].is = "there" /\ n \notin q.held /\ g[n].is # "new"
                          \/ f[n].is = "new" /\ ~(q.op = "create" /\ n = q.node) /\ g[n].is # "new"
  PROVE  Keeping(q, g)
<1>1. q.held \subseteq Nodes /\ q.seen \subseteq Nodes
  BY DEF Request
<1>2. ASSUME NEW n \in q.held
      PROVE  q.mine[n].is # "new" /\ (g[n].is = "there" \/ (q.op = "create" /\ n = q.node))
  BY <1>1 DEF Keeping
<1>3. q.op = "create" => q.node \in Nodes /\ g[q.node].is = "new" /\ q.mine[q.node].is = "there"
  BY DEF Keeping
<1>4. q.op = "reorder" =>
        \A n \in q.seen : /\ g[n].is # "new"
                          /\ q.pc = "locking" => n \in q.todo \/ n \in q.held \/ g[n].is = "gone"
  BY <1>1 DEF Keeping
<1>5. q.op = "delete" => IF q.pc = "row" THEN q.held = {} ELSE q.node \in q.held
  BY DEF Keeping
<1>6. QED
  BY <1>2, <1>3, <1>4, <1>5 DEF Keeping

LEMMA GoingKeeps ==
  ASSUME OutlineInv, RowInv, NEW r \in Requests, NEW q, Goto(r, q), Keeping(q, row),
         \A x \in Requests \ {r} : ApartOf(q, req[x])
  PROVE  RowInv'
<1>1. row' = row /\ req' = [req EXCEPT ![r] = q] /\ req \in [Requests -> Request]
  BY InvParts DEF Goto
<1>2. req'[r] = q /\ \A x \in Requests \ {r} : req'[x] = req[x]
  BY <1>1
<1>3. \A x \in Requests : Keeping(req'[x], row')
  BY <1>1, <1>2 DEF RowInv
<1>4. \A x \in Requests \ {r} : ApartOf(req[x], q)
  BY DEF ApartOf
<1>5. \A y, x \in Requests : y # x => ApartOf(req'[y], req'[x])
  BY <1>2, <1>4 DEF RowInv
<1>6. QED
  BY <1>3, <1>5 DEF RowInv

\* The request r ends and writes the rows of H, which nobody else holds, as in f.
Writes(r, H, f) ==
    /\ row' = f /\ req' = [req EXCEPT ![r] = Idle]
    /\ \A n \in Nodes \ H : f[n] = row[n]
    /\ \A n \in H : /\ f[n].is # "new"
                    /\ \/ row[n].is = "there"
                       \/ row[n].is = "new" /\ req[r].op = "create" /\ n = req[r].node
                    /\ \A x \in Requests \ {r} : n \notin req[x].held

LEMMA WritingKeeps ==
  ASSUME OutlineInv, RowInv, NEW r \in Requests, NEW H \in SUBSET Nodes, NEW f \in [Nodes -> Row],
         Writes(r, H, f)
  PROVE  RowInv'
<1> USE DEF Writes
<1>1. /\ req'[r] = Idle /\ \A x \in Requests \ {r} : req'[x] = req[x]
      /\ row \in [Nodes -> Row] /\ \A x \in Requests : req[x] \in Request
  BY InvParts
<1>2. ASSUME NEW x \in Requests \ {r} PROVE Keeping(req[x], f)
  <2>1. req[x] \in Request /\ Keeping(req[x], row) /\ ApartOf(req[r], req[x])
    BY <1>1 DEF RowInv
  <2>2. ASSUME NEW n \in Nodes
        PROVE  \/ f[n] = row[n]
               \/ row[n].is = "there" /\ n \notin req[x].held /\ f[n].is # "new"
               \/ row[n].is = "new" /\ ~(req[x].op = "create" /\ n = req[x].node) /\ f[n].is # "new"
    BY <2>1 DEF ApartOf
  <2>3. QED
    BY <1>1, <2>1, <2>2, KeepingLasts
<1>3. \A x \in Requests : Keeping(req'[x], row')
  BY <1>1, <1>2, IdleKeeps
<1>4. \A x \in Requests \ {r} : ApartOf(req[x], Idle) /\ ApartOf(Idle, req[x])
  BY IdleKeeps DEF ApartOf, Idle
<1>5. \A y, x \in Requests : y # x => ApartOf(req'[y], req'[x])
  BY <1>1, <1>4 DEF RowInv
<1>6. QED
  BY <1>3, <1>5 DEF RowInv

LEMMA AbortingKeeps ==
  ASSUME OutlineInv, RowInv, NEW r \in Requests, Abort(r)
  PROVE  RowInv'
<1>1. row' = row /\ req' = [req EXCEPT ![r] = Idle]
  BY DEF Abort, End
<1>2. Writes(r, {}, row)
  BY <1>1 DEF Writes
<1>3. {} \in SUBSET Nodes /\ row \in [Nodes -> Row]
  BY InvParts
<1>4. QED
  BY <1>2, <1>3, WritingKeeps

\* A request writes what it holds.
LEMMA CommittingKeeps ==
  ASSUME OutlineInv, RowInv, NEW r \in Requests, NEW q \in Request, Keeping(q, row),
         \A x \in Requests \ {r} : ApartOf(q, req[x]),
         q.op = req[r].op, q.node = req[r].node, NEW f \in [Nodes -> Row],
         \A n \in Nodes \ q.held : f[n] = row[n], \A n \in q.held : f[n].is # "new",
         Commit(r, f)
  PROVE  RowInv'
<1>1. row' = f /\ req' = [req EXCEPT ![r] = Idle] /\ q.held \in SUBSET Nodes
  BY DEF Commit, End, Request
<1>2. ASSUME NEW n \in q.held
      PROVE  /\ \/ row[n].is = "there"
                \/ row[n].is = "new" /\ req[r].op = "create" /\ n = req[r].node
             /\ \A x \in Requests \ {r} : n \notin req[x].held
  BY DEF Keeping, ApartOf
<1>3. Writes(r, q.held, f)
  BY <1>1, <1>2 DEF Writes
<1>4. QED
  BY <1>1, <1>3, WritingKeeps

LEMMA FinishingKeeps ==
  ASSUME OutlineInv, RowInv, NEW r \in Requests, NEW q \in Request, Keeping(q, row),
         \A x \in Requests \ {r} : ApartOf(q, req[x]),
         q.op = req[r].op, q.node = req[r].node, q.op # "reorder", q.op = "delete" => q.pc # "row",
         Finish(r, q)
  PROVE  RowInv'
<1>1. CASE kind = "lesson"
  <2> DEFINE y == [q EXCEPT !.pc = "totalling"]
  <2>1. /\ y.op = q.op /\ y.node = q.node /\ y.held = q.held /\ y.mine = q.mine
        /\ y.pc = "totalling"
    BY DEF Request, Phase
  <2>2. Goto(r, y)
    BY <1>1 DEF Finish
  <2>3. Keeping(y, row) /\ \A x \in Requests \ {r} : ApartOf(y, req[x])
    BY <2>1 DEF Keeping, ApartOf
  <2>4. QED
    BY <2>1, <2>2, <2>3, GoingKeeps
<1>2. CASE kind # "lesson"
  <2> DEFINE f == [n \in Nodes |-> IF n \in q.held THEN q.mine[n] ELSE row[n]]
  <2>1. Commit(r, f) /\ f \in [Nodes -> Row]
    BY <1>2, ViewTyped DEF Finish
  <2>2. \A n \in Nodes \ q.held : f[n] = row[n]
    OBVIOUS
  <2>3. \A n \in q.held : f[n].is # "new"
    BY DEF Keeping, Request
  <2> HIDE DEF f
  <2>4. QED
    BY <2>1, <2>2, <2>3, CommittingKeeps
<1>3. QED
  BY <1>1, <1>2

LEMMA RowParts ==
  ASSUME OutlineInv, RowInv, NEW r \in Requests
  PROVE  /\ req[r] \in Request /\ Formed(req[r]) /\ Keeping(req[r], row)
         /\ \A x \in Requests \ {r} : Keeping(req[x], row) /\ ApartOf(req[r], req[x])
         /\ \A n \in Nodes : row[n] \in Row /\ row[n].is \in {"new", "there", "gone"}
         /\ \A n : n \in Siblings <=> n \in Nodes /\ row[n].is = "there"
BY InvParts DEF RowInv, Siblings, There, Row

LEMMA StartsKeep ==
  ASSUME OutlineInv, RowInv, NEW r \in Requests,
         \/ \E n \in Nodes, s \in Sizes : StartCreate(r, n, s) \/ StartUpdate(r, n, s)
         \/ (\E n \in Nodes : StartDelete(r, n)) \/ StartReorder(r) \/ StartDeleteCourse(r)
  PROVE  RowInv'
<1>1. ASSUME NEW op, NEW pc, NEW q, Begin(r, op, pc, q),
             NEW x, x = [q EXCEPT !.op = op, !.pc = pc], x.op = op, x.pc = pc, x.held = {},
             op # "create",
             op = "delete" => pc = "row",
             op = "reorder" => pc = "listed" /\ \A n \in x.seen : row[n].is # "new"
      PROVE  RowInv'
  <2>1. Goto(r, x)
    BY <1>1 DEF Begin, Goto
  <2>2. Keeping(x, row)
    BY <1>1 DEF Keeping
  <2>3. \A y \in Requests \ {r} : ApartOf(x, req[y])
    BY <1>1 DEF ApartOf
  <2>4. QED
    BY <2>1, <2>2, <2>3, GoingKeeps
<1>2. ASSUME NEW n \in Nodes, NEW s \in Sizes, StartCreate(r, n, s) PROVE RowInv'
  <2> DEFINE new == [is |-> "there", position |-> LastPosition + 1, size |-> IF kind = "lesson" THEN s ELSE 0]
             q == [Idle EXCEPT !.node = n, !.mine[n] = new]
             x == [q EXCEPT !.op = "create", !.pc = "placing"]
  <2>1. Begin(r, "create", "placing", q) /\ row[n].is = "new" /\ \A y \in Requests : req[y].node # n
    BY <1>2 DEF StartCreate
  <2>2. new.is = "there"
    OBVIOUS
  <2> HIDE DEF new
  <2>3. x.op = "create" /\ x.pc = "placing" /\ x.held = {} /\ x.node = n /\ x.mine[n] = new
    BY DEF Idle
  <2>4. /\ x.node \in Nodes /\ row[x.node].is = "new" /\ x.mine[x.node].is = "there"
        /\ \A y \in Requests : req[y].node # x.node
    BY <2>1, <2>2, <2>3
  <2>5. Goto(r, x)
    BY <2>1 DEF Begin, Goto
  <2> HIDE DEF x
  <2>6. Keeping(x, row) /\ \A y \in Requests \ {r} : ApartOf(x, req[y])
    BY <2>3, <2>4 DEF Keeping, ApartOf
  <2>7. QED
    BY <2>5, <2>6, GoingKeeps
<1>3. ASSUME NEW n \in Nodes, NEW s \in Sizes, StartUpdate(r, n, s) PROVE RowInv'
  <2> DEFINE q == [Idle EXCEPT !.node = n, !.mine[n].size = IF kind = "lesson" THEN s ELSE 0]
             x == [q EXCEPT !.op = "update", !.pc = "row"]
  <2>1. Begin(r, "update", "row", q)
    BY <1>3 DEF StartUpdate
  <2>2. x.op = "update" /\ x.pc = "row" /\ x.held = {}
    BY DEF Idle
  <2> HIDE DEF q
  <2>3. QED
    BY <1>1, <2>1, <2>2
<1>4. ASSUME NEW n \in Nodes, StartDelete(r, n) PROVE RowInv'
  <2> DEFINE q == [Idle EXCEPT !.node = n]
             x == [q EXCEPT !.op = "delete", !.pc = "row"]
  <2>1. Begin(r, "delete", "row", q)
    BY <1>4 DEF StartDelete
  <2>2. x.op = "delete" /\ x.pc = "row" /\ x.held = {}
    BY DEF Idle
  <2> HIDE DEF q
  <2>3. QED
    BY <1>1, <2>1, <2>2
<1>5. CASE StartReorder(r)
  <2> DEFINE q == [Idle EXCEPT !.seen = Shown]
             x == [q EXCEPT !.op = "reorder", !.pc = "listed"]
  <2>1. Begin(r, "reorder", "listed", q)
    BY <1>5 DEF StartReorder
  <2>2. x.op = "reorder" /\ x.pc = "listed" /\ x.held = {} /\ x.seen = Siblings
    BY DEF Idle, Shown
  <2>3. \A n \in Siblings : row[n].is # "new"
    BY RowParts
  <2> HIDE DEF q
  <2>4. QED
    BY <1>1, <2>1, <2>2, <2>3
<1>6. CASE StartDeleteCourse(r)
  <2> DEFINE x == [Idle EXCEPT !.op = "deleteCourse", !.pc = "course"]
  <2>1. Begin(r, "deleteCourse", "course", Idle)
    BY <1>6 DEF StartDeleteCourse
  <2>2. x.op = "deleteCourse" /\ x.pc = "course" /\ x.held = {}
    BY DEF Idle
  <2>3. QED
    BY <1>1, <2>1, <2>2
<1>7. QED
  BY <1>2, <1>3, <1>4, <1>5, <1>6

LEMMA PlaceKeeps ==
  ASSUME OutlineInv, RowInv, NEW r \in Requests, Place(r)
  PROVE  RowInv'
<1> DEFINE n == req[r].node
           q == [req[r] EXCEPT !.held = {n}]
<1>1. req[r] \in Request /\ req[r].op = "create" /\ req[r].pc = "placing" /\ n \in Nodes
  BY RowParts DEF Place, CanPlace, Formed
<1>2. /\ q \in Request /\ q.op = "create" /\ q.held = {n} /\ q.node = n
      /\ q.mine = req[r].mine
  BY <1>1 DEF Request
<1>3. row[n].is = "new" /\ req[r].mine[n].is = "there"
  BY <1>1, RowParts DEF Keeping
<1>4. Keeping(q, row)
  BY <1>1, <1>2, <1>3 DEF Keeping
<1>5. \A x \in Requests \ {r} : ApartOf(q, req[x])
  BY <1>1, <1>2, <1>3, RowParts DEF ApartOf, Keeping
<1>6. Finish(r, q)
  BY DEF Place
<1>7. QED
  BY <1>1, <1>2, <1>4, <1>5, <1>6, FinishingKeeps

LEMMA UpdateKeeps ==
  ASSUME OutlineInv, RowInv, NEW r \in Requests, Update(r)
  PROVE  RowInv'
<1> DEFINE n == req[r].node
           new == [row[n] EXCEPT !.size = req[r].mine[n].size]
           q == [req[r] EXCEPT !.held = {n}, !.mine[n] = new]
<1>1. /\ req[r] \in Request /\ req[r].op = "update" /\ n \in Nodes /\ row[n].is = "there"
      /\ row[n] \in Row /\ \A x \in Requests \ {r} : n \notin req[x].held
  BY RowParts DEF Update, Free, Others
<1>2. new \in Row /\ new.is = "there"
  <2>1. req[r].mine[n] \in Row
    BY <1>1 DEF Request
  <2>2. QED
    BY <1>1, <2>1 DEF Row
<1>3. Finish(r, q)
  BY DEF Update
<1> HIDE DEF new
<1>4. q \in Request /\ q.op = "update" /\ q.held = {n} /\ q.node = n /\ q.mine[n] = new
  BY <1>1, <1>2 DEF Request
<1>5. Keeping(q, row) /\ \A x \in Requests \ {r} : ApartOf(q, req[x])
  BY <1>1, <1>2, <1>4 DEF Keeping, ApartOf
<1>6. QED
  BY <1>1, <1>3, <1>4, <1>5, FinishingKeeps

LEMMA DeleteKeeps ==
  ASSUME OutlineInv, RowInv, NEW r \in Requests, Delete(r)
  PROVE  RowInv'
<1> DEFINE n == req[r].node
           rest == Siblings \ {n}
           mine == [m \in Nodes |-> IF m \in rest
                                    THEN [row[m] EXCEPT !.position = Rank(m, rest)] ELSE Gone]
           q == [req[r] EXCEPT !.pc = "locking", !.held = {n},
                               !.todo = {m \in rest : Rank(m, rest) # row[m].position}, !.mine = mine]
<1>1. /\ req[r] \in Request /\ req[r].op = "delete" /\ n \in Nodes /\ row[n].is = "there"
      /\ \A x \in Requests \ {r} : n \notin req[x].held
  BY RowParts DEF Delete, Free, Others
<1>2. mine[n].is = "gone"
  BY <1>1 DEF Gone
<1>3. Goto(r, q)
  BY DEF Delete
<1> HIDE DEF mine
<1>4. q.op = "delete" /\ q.pc = "locking" /\ q.held = {n} /\ q.node = n /\ q.mine = mine
  BY <1>1 DEF Request
<1>5. Keeping(q, row) /\ \A x \in Requests \ {r} : ApartOf(q, req[x])
  BY <1>1, <1>2, <1>4 DEF Keeping, ApartOf
<1>6. QED
  BY <1>3, <1>5, GoingKeeps

LEMMA RenumberKeeps ==
  ASSUME OutlineInv, RowInv, NEW r \in Requests, NEW n \in Nodes, Renumber(r, n)
  PROVE  RowInv'
<1> DEFINE new == [row[n] EXCEPT !.position = req[r].mine[n].position]
           q == [req[r] EXCEPT !.todo = @ \ {n}, !.held = @ \cup {n}, !.mine[n] = new]
<1>1. /\ req[r] \in Request /\ req[r].op = "delete" /\ req[r].pc = "locking" /\ row[n].is = "there"
      /\ row[n] \in Row /\ \A x \in Requests \ {r} : n \notin req[x].held
  BY RowParts DEF Renumber, Free, Others
<1>2. new.is = "there"
  BY <1>1 DEF Row
<1>3. Goto(r, q)
  BY DEF Renumber
<1> HIDE DEF new
<1>4. /\ q.op = "delete" /\ q.pc = "locking" /\ q.node = req[r].node
      /\ q.held = req[r].held \cup {n} /\ q.held \subseteq Nodes
      /\ \A m \in Nodes : q.mine[m] = IF m = n THEN new ELSE req[r].mine[m]
  BY <1>1 DEF Request
<1>5. Keeping(q, row) /\ \A x \in Requests \ {r} : ApartOf(q, req[x])
  <2>1. Keeping(req[r], row) /\ \A x \in Requests \ {r} : ApartOf(req[r], req[x])
    BY RowParts
  <2>2. Keeping(q, row)
    BY <1>1, <1>2, <1>4, <2>1 DEF Keeping
  <2>3. \A x \in Requests \ {r} : ApartOf(q, req[x])
    BY <1>1, <1>4, <2>1 DEF ApartOf
  <2>4. QED
    BY <2>2, <2>3
<1>6. QED
  BY <1>3, <1>5, GoingKeeps

LEMMA ScanKeeps ==
  ASSUME OutlineInv, RowInv, NEW r \in Requests, Scan(r)
  PROVE  RowInv'
<1> DEFINE q == [req[r] EXCEPT !.pc = "locking", !.todo = Siblings]
<1>1. req[r] \in Request /\ req[r].op = "reorder" /\ req[r].held = {} /\ req[r].seen \subseteq Nodes
  BY RowParts DEF Scan, Formed, Request
<1>2. q.op = "reorder" /\ q.held = {} /\ q.seen = req[r].seen /\ q.todo = Siblings
  BY <1>1 DEF Request
<1>3. \A n \in q.seen : row[n].is # "new" /\ (n \in q.todo \/ row[n].is = "gone")
  BY <1>1, <1>2, RowParts DEF Keeping
<1> HIDE DEF q
<1>4. Keeping(q, row) /\ \A x \in Requests \ {r} : ApartOf(q, req[x])
  BY <1>2, <1>3 DEF Keeping, ApartOf
<1>5. Goto(r, q)
  BY DEF Scan, q
<1>6. QED
  BY <1>4, <1>5, GoingKeeps

LEMMA LockKeeps ==
  ASSUME OutlineInv, RowInv, NEW r \in Requests, NEW n \in Nodes, LockSibling(r, n)
  PROVE  RowInv'
<1>1. /\ req[r] \in Request /\ req[r].op = "reorder" /\ req[r].pc = "locking"
      /\ req[r].seen \subseteq Nodes /\ \A x \in Requests \ {r} : n \notin req[x].held
  BY RowParts DEF LockSibling, Free, Others, Request
<1>2. Keeping(req[r], row) /\ \A x \in Requests \ {r} : ApartOf(req[r], req[x])
  BY RowParts
<1>3. CASE n \in Siblings
  <2> DEFINE q == [req[r] EXCEPT !.todo = @ \ {n}, !.held = @ \cup {n}, !.mine[n] = row[n]]
  <2>1. Goto(r, q)
    BY <1>3 DEF LockSibling
  <2>2. /\ q.op = "reorder" /\ q.pc = "locking" /\ q.seen = req[r].seen
        /\ q.held = req[r].held \cup {n} /\ q.held \subseteq Nodes /\ q.todo = req[r].todo \ {n}
        /\ \A m \in Nodes : q.mine[m] = IF m = n THEN row[n] ELSE req[r].mine[m]
    BY <1>1 DEF Request
  <2>3. row[n].is = "there"
    BY <1>3, RowParts
  <2> HIDE DEF q
  <2>4. Keeping(q, row)
    BY <1>1, <1>2, <2>2, <2>3 DEF Keeping
  <2>5. \A x \in Requests \ {r} : ApartOf(q, req[x])
    BY <1>1, <1>2, <2>2 DEF ApartOf
  <2>6. QED
    BY <2>1, <2>4, <2>5, GoingKeeps
<1>4. CASE n \notin Siblings
  <2> DEFINE q == [req[r] EXCEPT !.todo = @ \ {n}]
  <2>1. Goto(r, q)
    BY <1>4 DEF LockSibling
  <2>2. /\ q.op = "reorder" /\ q.pc = "locking" /\ q.seen = req[r].seen /\ q.node = req[r].node
        /\ q.held = req[r].held /\ q.todo = req[r].todo \ {n} /\ q.mine = req[r].mine
    BY <1>1 DEF Request
  <2>3. n \in req[r].seen => row[n].is = "gone"
    BY <1>1, <1>2, <1>4, RowParts DEF Keeping
  <2> HIDE DEF q
  <2>4. Keeping(q, row)
    BY <1>1, <1>2, <2>2, <2>3 DEF Keeping
  <2>5. \A x \in Requests \ {r} : ApartOf(q, req[x])
    BY <1>1, <1>2, <2>2 DEF ApartOf
  <2>6. QED
    BY <2>1, <2>4, <2>5, GoingKeeps
<1>5. QED
  BY <1>3, <1>4

\* A request that has all it needs writes what it holds.
LEMMA OwnRowsWritten ==
  ASSUME OutlineInv, OutlineInv', RowInv, NEW r \in Requests, NEW f, Commit(r, f),
         \A n \in Nodes \ req[r].held : f[n] = row[n], \A n \in req[r].held : f[n].is # "new"
  PROVE  RowInv'
<1>1. req[r] \in Request /\ Keeping(req[r], row) /\ \A x \in Requests \ {r} : ApartOf(req[r], req[x])
  BY RowParts
<1>2. f \in [Nodes -> Row]
  BY DEF OutlineInv, TypeOK, Commit
<1>3. QED
  BY <1>1, <1>2, CommittingKeeps

LEMMA ReorderKeeps ==
  ASSUME OutlineInv, OutlineInv', RowInv, NEW r \in Requests, NEW list, Reorder(r, list)
  PROVE  RowInv'
<1>1. CASE Abort(r)
  BY <1>1, AbortingKeeps
<1>2. CASE Commit(r, Reordered(list, req[r].held))
  <2> DEFINE f == Reordered(list, req[r].held)
  <2>1. req[r].held \subseteq Nodes /\ \A n \in req[r].held : row[n].is = "there" /\ row[n] \in Row
    <3>1. req[r].op = "reorder"
      BY DEF Reorder
    <3>2. QED
      BY <3>1, RowParts DEF Keeping, Request
  <2>2. ASSUME NEW n \in Nodes \ req[r].held PROVE f[n] = row[n]
    BY DEF Reordered, Parked
  <2>3. ASSUME NEW n \in req[r].held PROVE f[n].is # "new"
    <3>1. \A p : [row[n] EXCEPT !.position = p].is = "there"
      BY <2>1 DEF Row
    <3>2. n \in Nodes /\ Parked(req[r].held)[n].is = "there"
      BY <2>1, <3>1 DEF Parked
    <3>3. f[n].is = "there"
      BY <3>1, <3>2 DEF Reordered
    <3>4. QED
      BY <3>3
  <2> HIDE DEF f
  <2>4. Commit(r, f)
    BY <1>2 DEF f
  <2>5. QED
    BY <2>2, <2>3, <2>4, OwnRowsWritten
<1>3. QED
  BY <1>1, <1>2 DEF Reorder

LEMMA DurationKeeps ==
  ASSUME OutlineInv, OutlineInv', RowInv, NEW r \in Requests, Total(r) \/ SaveDuration(r)
  PROVE  RowInv'
<1>1. /\ req[r] \in Request /\ Formed(req[r]) /\ Keeping(req[r], row)
      /\ \A x \in Requests \ {r} : ApartOf(req[r], req[x])
  BY RowParts
<1>2. CASE Commit(r, View(r))
  <2>1. \A n \in Nodes \ req[r].held : View(r)[n] = row[n]
    BY DEF View
  <2>2. \A n \in req[r].held : View(r)[n].is # "new"
    BY <1>1 DEF View, Keeping, Request
  <2>3. QED
    BY <1>2, <2>1, <2>2, OwnRowsWritten
<1>3. CASE req[r].pc = "totalling" /\ Goto(r, [req[r] EXCEPT !.pc = "course", !.total = Duration(View(r))])
  <2> DEFINE q == [req[r] EXCEPT !.pc = "course", !.total = Duration(View(r))]
  <2>1. /\ q.op = req[r].op /\ q.pc = "course" /\ q.held = req[r].held /\ q.node = req[r].node
        /\ q.mine = req[r].mine /\ q.op # "reorder"
    BY <1>1, <1>3 DEF Request, Formed
  <2>2. Goto(r, q)
    BY <1>3
  <2>3. req[r].pc # "row"
    BY <1>3
  <2> HIDE DEF q
  <2>4. Keeping(q, row)
    BY <1>1, <2>1, <2>3 DEF Keeping
  <2>5. \A x \in Requests \ {r} : ApartOf(q, req[x])
    BY <1>1, <2>1 DEF ApartOf
  <2>6. QED
    BY <2>2, <2>4, <2>5, GoingKeeps
<1>4. QED
  BY <1>2, <1>3 DEF Total, SaveDuration

LEMMA FinishDeleteKeeps ==
  ASSUME OutlineInv, RowInv, NEW r \in Requests, FinishDelete(r)
  PROVE  RowInv'
<1>1. req[r].pc = "locking" /\ req[r].op = "delete" /\ (Abort(r) \/ Finish(r, req[r]))
  BY DEF FinishDelete
<1>2. QED
  BY <1>1, RowParts, AbortingKeeps, FinishingKeeps

LEMMA CourseKeeps ==
  ASSUME OutlineInv, OutlineInv', RowInv, NEW r \in Requests, LockCourse(r) \/ Cascade(r)
  PROVE  RowInv'
<1>1. CASE LockCourse(r)
  <2> DEFINE q == [req[r] EXCEPT !.pc = "cascading"]
  <2>1. req[r] \in Request /\ req[r].op = "deleteCourse" /\ req[r].held = {}
    BY <1>1, RowParts DEF LockCourse, Formed
  <2>2. q.op = "deleteCourse" /\ q.held = {}
    BY <2>1 DEF Request
  <2>3. Goto(r, q) \/ Abort(r)
    BY <1>1 DEF LockCourse
  <2> HIDE DEF q
  <2>4. Keeping(q, row) /\ \A x \in Requests \ {r} : ApartOf(q, req[x])
    BY <2>2 DEF Keeping, ApartOf
  <2>5. QED
    BY <2>3, <2>4, GoingKeeps, AbortingKeeps
<1>2. CASE Cascade(r)
  <2> DEFINE f == [n \in Nodes |-> IF n \in Siblings THEN Gone ELSE row[n]]
  <2>1. Commit(r, f) /\ \A x \in Requests \ {r} : req[x].held = {}
    BY <1>2 DEF Cascade, Others
  <2>2. f \in [Nodes -> Row] /\ Siblings \in SUBSET Nodes
    BY <2>1, RowParts DEF OutlineInv, TypeOK, Commit
  <2>3. \A n \in Siblings : f[n].is # "new" /\ row[n].is = "there"
    BY <2>2, RowParts DEF Gone
  <2>4. \A n \in Nodes \ Siblings : f[n] = row[n]
    OBVIOUS
  <2> HIDE DEF f
  <2>5. Writes(r, Siblings, f)
    BY <2>1, <2>3, <2>4 DEF Writes, Commit, End
  <2>6. QED
    BY <2>2, <2>5, WritingKeeps
<1>3. QED
  BY <1>1, <1>2

LEMMA RowStep ==
  ASSUME OutlineInv, RowInv, [Next]_vars
  PROVE  RowInv'
<1>0. OutlineInv'
  BY OutlineStep
<1>1. CASE UNCHANGED vars
  BY <1>1 DEF vars, RowInv
<1>2. ASSUME NEW r \in Requests,
             \/ \E n \in Nodes, s \in Sizes : StartCreate(r, n, s) \/ StartUpdate(r, n, s)
             \/ (\E n \in Nodes : StartDelete(r, n)) \/ StartReorder(r) \/ StartDeleteCourse(r)
      PROVE  RowInv'
  BY <1>2, StartsKeep
<1>3. ASSUME NEW r \in Requests,
             \/ Place(r) \/ Update(r) \/ Delete(r) \/ Scan(r) \/ FinishDelete(r)
             \/ \E n \in Nodes : Renumber(r, n) \/ LockSibling(r, n)
             \/ \E list \in SetToSeqs(req[r].seen) : Reorder(r, list)
             \/ Total(r) \/ SaveDuration(r) \/ LockCourse(r) \/ Cascade(r)
      PROVE  RowInv'
  BY <1>0, <1>3, PlaceKeeps, UpdateKeeps, DeleteKeeps, ScanKeeps, FinishDeleteKeeps,
     RenumberKeeps, LockKeeps, ReorderKeeps, DurationKeeps, CourseKeeps
<1>4. ASSUME NEW r \in Requests,
             CannotPlace(r) \/ Missing(r) \/ Fail(r) \/ \E n \in Nodes : Stale(r, n)
      PROVE  RowInv'
  <2>1. Abort(r)
    BY <1>4 DEF CannotPlace, Missing, Fail, Stale
  <2>2. QED
    BY <2>1, AbortingKeeps
<1>5. CASE CreateCourse \/ Publish \/ \E n \in Nodes : Learn(n)
  <2>1. row' = row /\ req' = req
    BY <1>5 DEF CreateCourse, Publish, Learn
  <2>2. QED
    BY <2>1 DEF RowInv
<1>6. QED
  BY <1>1, <1>2, <1>3, <1>4, <1>5 DEF Next

LEMMA ReordersStand ==
  ASSUME OutlineInv, RowInv
  PROVE  NoReorderIsLost
<1> SUFFICES ASSUME NEW r \in Requests,
                    req[r].op = "reorder", req[r].pc = "locking", req[r].todo = {}
             PROVE  /\ req[r].seen \cap Siblings \subseteq req[r].held
                    /\ \A q \in Requests :
                         req[q].op = "delete" /\ req[q].held # {} => req[q].node \notin req[r].seen
  BY DEF NoReorderIsLost
<1>1. req[r].seen \cap Siblings \subseteq req[r].held
  BY RowParts DEF Keeping
<1>2. ASSUME NEW q \in Requests, req[q].op = "delete", req[q].held # {}
      PROVE  req[q].node \notin req[r].seen
  <2>1. q # r /\ Keeping(req[q], row) /\ ApartOf(req[r], req[q])
    BY <1>2, RowParts
  <2>2. req[q].node \in req[q].held /\ row[req[q].node].is = "there" /\ req[q].held \subseteq Nodes
    BY <1>2, <2>1, RowParts DEF Keeping, Request
  <2>3. req[q].node \in Siblings /\ req[q].node \notin req[r].held
    BY <2>1, <2>2, RowParts DEF ApartOf
  <2>4. QED
    BY <1>1, <2>3
<1>3. QED
  BY <1>1, <1>2

\* A reorder that is about to write holds every row that its author has put in order, and no
\* deletion of one of them still has the old order to write; for any number of siblings and
\* requests. What makes it so is that a deletion locks its row before it reads the order.
THEOREM ReordersAreKept == Spec => []NoReorderIsLost
<1> DEFINE Inv == OutlineInv /\ RowInv
<1>1. Init => Inv
  <2>1. Init => RowInv
    BY IdleKeeps DEF Init, RowInv
  <2>2. QED
    BY <2>1, OutlineStarts
<1>2. Inv /\ [Next]_vars => Inv'
  BY OutlineStep, RowStep
<1>3. Inv => NoReorderIsLost
  BY ReordersStand
<1>4. QED
  BY <1>1, <1>2, <1>3, PTL DEF Spec
=============================================================================
