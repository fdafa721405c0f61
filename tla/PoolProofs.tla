------------------------------- MODULE PoolProofs -------------------------------
(***************************************************************************)
(* What the connection pool keeps for any number of requests and any size: *)
(* a stall takes as many status requests as the pool has connections.  The *)
(* argument is an account of the connections: each is free, or it is the   *)
(* first or the second of one request.                                     *)
(***************************************************************************)
EXTENDS ConnectionPool, TLAPS, FiniteSetTheorems

\* The steps of that kind a request did before step k of its plan.
DoneBefore(q, k, step) == {i \in DOMAIN Plan(q) : i < k /\ Plan(q)[i] = step}

Holders == {q \in PoolRequests : CheckedOut(q) >= 1}
DoubleHolders == {q \in PoolRequests : CheckedOut(q) = 2}

\* Every connection is free, or somebody's first, or somebody's second.
ConnectionsAreAccounted ==
  /\ IsFiniteSet(Holders) /\ IsFiniteSet(DoubleHolders)
  /\ free + Cardinality(Holders) + Cardinality(DoubleHolders) = PoolSize

PoolInv == PoolTypeOK /\ ConnectionsAreAccounted

\* What a request has checked out before step k of its plan: as CheckedOut
\* counts it, and as a table.
CountAt(q, k) ==
  IF k \in {Out, Ended} THEN 0
  ELSE Cardinality(DoneBefore(q, k, "take")) - Cardinality(DoneBefore(q, k, "give"))
HeldAt(q, k) ==
  IF q \in StatusRequests
  THEN IF k \in {5, 7} THEN 2 ELSE IF k \in {2, 4, 6, 8} THEN 1 ELSE 0
  ELSE IF k = 2 THEN 1 ELSE 0

\* The plans, step by step.
LEMMA PlansAre ==
  ASSUME NEW q \in PoolRequests
  PROVE  /\ q \in StatusRequests => DOMAIN Plan(q) = 1 .. 8 /\ Len(Plan(q)) = 8
         /\ q \notin StatusRequests => DOMAIN Plan(q) = 1 .. 2 /\ Len(Plan(q)) = 2
         /\ q \in StatusRequests =>
              /\ Plan(q)[1] = "take" /\ Plan(q)[2] = "give" /\ Plan(q)[3] = "take"
              /\ Plan(q)[4] = "take" /\ Plan(q)[5] = "give" /\ Plan(q)[6] = "take"
              /\ Plan(q)[7] = "give" /\ Plan(q)[8] = "give"
         /\ q \notin StatusRequests => Plan(q)[1] = "take" /\ Plan(q)[2] = "give"
  BY DEF Plan, StatusPlan, PlainPlan

\* One step more has done one take more, or one give.
LEMMA OneStepMore ==
  ASSUME NEW q \in PoolRequests, NEW k \in DOMAIN Plan(q), NEW step,
         IsFiniteSet(DoneBefore(q, k, step))
  PROVE  /\ IsFiniteSet(DoneBefore(q, k + 1, step))
         /\ Cardinality(DoneBefore(q, k + 1, step))
              = Cardinality(DoneBefore(q, k, step)) + (IF Plan(q)[k] = step THEN 1 ELSE 0)
<1>0. DOMAIN Plan(q) \subseteq Nat
  BY PlansAre
<1>1. CASE Plan(q)[k] = step
  <2>1. DoneBefore(q, k + 1, step) = DoneBefore(q, k, step) \cup {k}
    BY <1>0, <1>1 DEF DoneBefore
  <2>2. k \notin DoneBefore(q, k, step)
    BY <1>0 DEF DoneBefore
  <2> QED
    BY <2>1, <2>2, <1>1, FS_AddElement
<1>2. CASE Plan(q)[k] # step
  <2>1. DoneBefore(q, k + 1, step) = DoneBefore(q, k, step)
    BY <1>0, <1>2 DEF DoneBefore
  <2>2. Cardinality(DoneBefore(q, k, step)) \in Nat
    BY FS_CardinalityType
  <2> QED
    BY <2>1, <2>2, <1>2
<1> QED
  BY <1>1, <1>2

\* The count is what the table says.
LEMMA CountIsTable ==
  ASSUME NEW q \in PoolRequests, NEW k \in DOMAIN Plan(q) \cup {Out, Ended}
  PROVE  CountAt(q, k) = HeldAt(q, k)
<1> DEFINE n(i, step) == Cardinality(DoneBefore(q, i, step))
           ok(i) == IsFiniteSet(DoneBefore(q, i, "take")) /\ IsFiniteSet(DoneBefore(q, i, "give"))
           has(i, t, g) == ok(i) /\ n(i, "take") = t /\ n(i, "give") = g
<1>0. DOMAIN Plan(q) \subseteq Nat \ {0}
  BY PlansAre
<1>1. has(1, 0, 0)
  <2>1. DoneBefore(q, 1, "take") = {} /\ DoneBefore(q, 1, "give") = {}
    BY <1>0 DEF DoneBefore
  <2> QED
    BY <2>1, FS_EmptySet
<1>2. ASSUME NEW i \in DOMAIN Plan(q), NEW t \in Nat, NEW g \in Nat, has(i, t, g)
      PROVE  has(i + 1, IF Plan(q)[i] = "take" THEN t + 1 ELSE t,
                        IF Plan(q)[i] = "give" THEN g + 1 ELSE g)
  <2>1. n(i + 1, "take") = n(i, "take") + (IF Plan(q)[i] = "take" THEN 1 ELSE 0)
        /\ IsFiniteSet(DoneBefore(q, i + 1, "take"))
    BY <1>2, OneStepMore
  <2>2. n(i + 1, "give") = n(i, "give") + (IF Plan(q)[i] = "give" THEN 1 ELSE 0)
        /\ IsFiniteSet(DoneBefore(q, i + 1, "give"))
    BY <1>2, OneStepMore
  <2> QED
    BY <1>2, <2>1, <2>2
<1>3. ~(k \in {Out, Ended}) => CountAt(q, k) = n(k, "take") - n(k, "give")
  BY DEF CountAt
<1>4. k \in {Out, Ended} => CountAt(q, k) = 0
  BY DEF CountAt
<1> HIDE DEF n, ok, has
<1>5. CASE q \in StatusRequests
  <2>0. DOMAIN Plan(q) = 1 .. 8
    BY <1>5, PlansAre
  <2>1. has(2, 1, 0)
    BY <1>1, <1>2, <1>5, <2>0, PlansAre
  <2>2. has(3, 1, 1)
    BY <2>1, <1>2, <1>5, <2>0, PlansAre
  <2>3. has(4, 2, 1)
    BY <2>2, <1>2, <1>5, <2>0, PlansAre
  <2>4. has(5, 3, 1)
    BY <2>3, <1>2, <1>5, <2>0, PlansAre
  <2>5. has(6, 3, 2)
    BY <2>4, <1>2, <1>5, <2>0, PlansAre
  <2>6. has(7, 4, 2)
    BY <2>5, <1>2, <1>5, <2>0, PlansAre
  <2>7. has(8, 4, 3)
    BY <2>6, <1>2, <1>5, <2>0, PlansAre
  <2>8. k \in {Out, Ended} \/ k = 1 \/ k = 2 \/ k = 3 \/ k = 4 \/ k = 5
          \/ k = 6 \/ k = 7 \/ k = 8
    BY <2>0
  <2> QED
    BY <1>1, <2>1, <2>2, <2>3, <2>4, <2>5, <2>6, <2>7, <2>8, <1>3, <1>4, <1>5
       DEF has, HeldAt, Out, Ended
<1>6. CASE q \notin StatusRequests
  <2>0. DOMAIN Plan(q) = 1 .. 2
    BY <1>6, PlansAre
  <2>1. has(2, 1, 0)
    BY <1>1, <1>2, <1>6, <2>0, PlansAre
  <2>2. k \in {Out, Ended} \/ k = 1 \/ k = 2
    BY <2>0
  <2> QED
    BY <1>1, <2>1, <2>2, <1>3, <1>4, <1>6 DEF has, HeldAt, Out, Ended
<1> QED
  BY <1>5, <1>6

\* A request that wants one has none or one, and one that gives one back has one or two.
LEMMA WantsAre ==
  ASSUME PoolTypeOK, NEW q \in PoolRequests
  PROVE  /\ CheckedOut(q) \in {0, 1, 2}
         /\ Wants(q, "take") => CheckedOut(q) \in {0, 1}
         /\ Wants(q, "give") => CheckedOut(q) \in {1, 2}
         /\ Wants(q, "take") \/ Wants(q, "give") \/ at[q] \in {Out, Ended}
         /\ at[q] \in {Out, Ended} => CheckedOut(q) = 0
         /\ CheckedOut(q) # 0 /\ Wants(q, "take") => q \in StatusRequests
<1>1. at[q] \in DOMAIN Plan(q) \cup {Out, Ended}
  BY DEF PoolTypeOK
<1>2. CheckedOut(q) = CountAt(q, at[q])
  BY DEF CheckedOut, CountAt, DoneBefore
<1>3. CheckedOut(q) = HeldAt(q, at[q])
  BY <1>1, <1>2, CountIsTable
<1>4. CASE q \in StatusRequests
  BY <1>1, <1>3, <1>4, PlansAre DEF HeldAt, Wants, Out, Ended
<1>5. CASE q \notin StatusRequests
  BY <1>1, <1>3, <1>5, PlansAre DEF HeldAt, Wants, Out, Ended
<1> QED
  BY <1>4, <1>5

\* What a step of q does to q, and that the others have what they had.
LEMMA MoveIs ==
  ASSUME PoolTypeOK, NEW q \in PoolRequests, NEW k \in DOMAIN Plan(q) \cup {Out, Ended},
         at' = [at EXCEPT ![q] = k]
  PROVE  /\ \A p \in PoolRequests \ {q} : at'[p] = at[p] /\ CheckedOut(p)' = CheckedOut(p)
         /\ CheckedOut(q) = HeldAt(q, at[q]) /\ CheckedOut(q)' = HeldAt(q, k)
         /\ at' \in [PoolRequests -> Out .. Ended]
         /\ \A p \in PoolRequests : at'[p] \in DOMAIN Plan(p)' \cup {Out, Ended}
<1>1. at \in [PoolRequests -> Out .. Ended]
      /\ \A p \in PoolRequests : at[p] \in DOMAIN Plan(p) \cup {Out, Ended}
  BY DEF PoolTypeOK
<1>2. at'[q] = k /\ \A p \in PoolRequests \ {q} : at'[p] = at[p]
  BY <1>1
<1>3. \A p \in PoolRequests : Plan(p)' = Plan(p)
  BY DEF Plan
<1>4. CheckedOut(q) = CountAt(q, at[q]) /\ CheckedOut(q)' = CountAt(q, at'[q])
  BY DEF CheckedOut, CountAt, DoneBefore, Plan
<1>5. k \in Out .. Ended
  BY PlansAre DEF Out, Ended
<1>6. at' \in [PoolRequests -> Out .. Ended]
  BY <1>1, <1>5
<1>7. \A p \in PoolRequests : at'[p] \in DOMAIN Plan(p)' \cup {Out, Ended}
  BY <1>1, <1>2, <1>3
<1>8. \A p \in PoolRequests \ {q} : CheckedOut(p)' = CheckedOut(p)
  BY <1>2 DEF CheckedOut, Plan
<1> QED
  BY <1>1, <1>2, <1>4, <1>6, <1>7, <1>8, CountIsTable

\* A request takes one, gives one back or loses what it has: the account moves with it.
LEMMA AccountMoves ==
  ASSUME PoolInv, PoolTypeOK', NEW q \in PoolRequests,
         \A p \in PoolRequests \ {q} : CheckedOut(p)' = CheckedOut(p),
         CheckedOut(q) \in {0, 1, 2}, CheckedOut(q)' \in {0, 1, 2},
         CheckedOut(q) = 2 => CheckedOut(q)' # 0,
         CheckedOut(q) = 0 => CheckedOut(q)' # 2,
         free' + CheckedOut(q)' = free + CheckedOut(q)
  PROVE  ConnectionsAreAccounted'
<1> DEFINE h == CheckedOut(q)
           g == CheckedOut(q)'
<1>1. Cardinality(Holders) \in Nat /\ Cardinality(DoubleHolders) \in Nat
      /\ free \in Nat /\ free' \in Nat /\ PoolSize \in Nat
  BY FS_CardinalityType, PoolAssumption DEF PoolInv, PoolTypeOK, ConnectionsAreAccounted
<1>2. /\ IsFiniteSet(Holders) /\ IsFiniteSet(DoubleHolders)
      /\ free + Cardinality(Holders) + Cardinality(DoubleHolders) = PoolSize
  BY DEF PoolInv, ConnectionsAreAccounted
<1>3. h \in {0, 1, 2} /\ g \in {0, 1, 2} /\ free' + g = free + h
  OBVIOUS
<1>4. (q \in Holders <=> h \in {1, 2}) /\ (q \in DoubleHolders <=> h = 2)
  BY DEF Holders, DoubleHolders
<1>5. Holders' = IF g = 0 THEN Holders \ {q} ELSE Holders \cup {q}
  BY DEF Holders
<1>6. DoubleHolders' = IF g = 2 THEN DoubleHolders \cup {q} ELSE DoubleHolders \ {q}
  BY DEF DoubleHolders
<1>7. /\ IsFiniteSet(Holders')
      /\ Cardinality(Holders') = Cardinality(Holders) - (IF h = 0 THEN 0 ELSE 1) + (IF g = 0 THEN 0 ELSE 1)
  <2>1. /\ IsFiniteSet(Holders \ {q}) /\ IsFiniteSet(Holders \cup {q})
        /\ Cardinality(Holders \ {q}) = IF q \in Holders THEN Cardinality(Holders) - 1 ELSE Cardinality(Holders)
        /\ Cardinality(Holders \cup {q}) = IF q \in Holders THEN Cardinality(Holders) ELSE Cardinality(Holders) + 1
    BY <1>2, FS_AddElement, FS_RemoveElement
  <2> HIDE DEF h, g
  <2> QED
    BY <2>1, <1>1, <1>4, <1>5, <1>3
<1>8. /\ IsFiniteSet(DoubleHolders')
      /\ Cardinality(DoubleHolders')
           = Cardinality(DoubleHolders) - (IF h = 2 THEN 1 ELSE 0) + (IF g = 2 THEN 1 ELSE 0)
  <2>1. /\ IsFiniteSet(DoubleHolders \ {q}) /\ IsFiniteSet(DoubleHolders \cup {q})
        /\ Cardinality(DoubleHolders \ {q})
             = IF q \in DoubleHolders THEN Cardinality(DoubleHolders) - 1 ELSE Cardinality(DoubleHolders)
        /\ Cardinality(DoubleHolders \cup {q})
             = IF q \in DoubleHolders THEN Cardinality(DoubleHolders) ELSE Cardinality(DoubleHolders) + 1
    BY <1>2, FS_AddElement, FS_RemoveElement
  <2> HIDE DEF h, g
  <2> QED
    BY <2>1, <1>1, <1>4, <1>6, <1>3
<1>9. free' + Cardinality(Holders') + Cardinality(DoubleHolders') = PoolSize
  <2> DEFINE a == Cardinality(Holders)
             d == Cardinality(DoubleHolders)
             a1 == Cardinality(Holders')
             d1 == Cardinality(DoubleHolders')
             f1 == free'
  <2>1. /\ a \in Nat /\ d \in Nat /\ free \in Nat /\ f1 \in Nat /\ free + a + d = PoolSize
        /\ h \in {0, 1, 2} /\ g \in {0, 1, 2} /\ f1 + g = free + h
    BY <1>1, <1>2, <1>3
  <2>2. a1 \in Nat /\ d1 \in Nat
    BY <1>7, <1>8, FS_CardinalityType
  <2>3. (h = 2 => g # 0) /\ (h = 0 => g # 2)
    OBVIOUS
  <2>4. a1 = a - (IF h = 0 THEN 0 ELSE 1) + (IF g = 0 THEN 0 ELSE 1)
    BY <1>7
  <2>5. d1 = d - (IF h = 2 THEN 1 ELSE 0) + (IF g = 2 THEN 1 ELSE 0)
    BY <1>8
  <2> HIDE DEF h, g, a, d, a1, d1, f1
  <2> DEFINE n == a + d
             n1 == a1 + d1
  <2>6. n \in Nat /\ n1 \in Nat /\ free + n = PoolSize /\ n1 + h = n + g
    BY <2>1, <2>2, <2>3, <2>4, <2>5
  <2> HIDE DEF n, n1
  <2>7. f1 + n1 = PoolSize
    BY <2>1, <2>6
  <2>8. f1 + a1 + d1 = PoolSize
    BY <2>1, <2>2, <2>7 DEF n1
  <2> QED
    BY <2>8 DEF a1, d1, f1
<1> QED
  BY <1>7, <1>8, <1>9 DEF ConnectionsAreAccounted

\* Where there is room for it, the count of the free ones stays within the pool.
LEMMA RoomToGive ==
  ASSUME PoolInv, NEW p \in PoolRequests
  PROVE  free + CheckedOut(p) <= PoolSize
<1>1. /\ IsFiniteSet(Holders) /\ IsFiniteSet(DoubleHolders)
      /\ free + Cardinality(Holders) + Cardinality(DoubleHolders) = PoolSize
      /\ Cardinality(Holders) \in Nat /\ Cardinality(DoubleHolders) \in Nat
      /\ free \in Nat /\ PoolSize \in Nat
  BY FS_CardinalityType, PoolAssumption DEF PoolInv, PoolTypeOK, ConnectionsAreAccounted
<1>2. CheckedOut(p) \in {1, 2} => Cardinality(Holders) >= 1
  <2>1. CheckedOut(p) \in {1, 2} => Holders # {}
    BY DEF Holders
  <2> QED
    BY <1>1, <2>1, FS_EmptySet
<1>3. CheckedOut(p) = 2 => Cardinality(DoubleHolders) >= 1
  <2>1. CheckedOut(p) = 2 => DoubleHolders # {}
    BY DEF DoubleHolders
  <2> QED
    BY <1>1, <2>1, FS_EmptySet
<1>4. CheckedOut(p) \in {0, 1, 2}
  BY WantsAre DEF PoolInv
<1> QED
  BY <1>1, <1>2, <1>3, <1>4

\* A step that moves a request from one place of its plan to another, and the
\* account with it.
LEMMA StepKeeps ==
  ASSUME PoolInv, NEW q \in PoolRequests, NEW k \in DOMAIN Plan(q) \cup {Out, Ended},
         at' = [at EXCEPT ![q] = k],
         free' \in 0 .. PoolSize, free' + HeldAt(q, k) = free + HeldAt(q, at[q]),
         HeldAt(q, at[q]) = 2 => HeldAt(q, k) # 0, HeldAt(q, at[q]) = 0 => HeldAt(q, k) # 2
  PROVE  PoolInv'
<1>0. PoolTypeOK
  BY DEF PoolInv
<1>1. PoolTypeOK'
  BY <1>0, MoveIs DEF PoolTypeOK
<1>2. HeldAt(q, k) \in {0, 1, 2}
  BY DEF HeldAt
<1>3. ConnectionsAreAccounted'
  <2>1. /\ \A p \in PoolRequests \ {q} : CheckedOut(p)' = CheckedOut(p)
        /\ CheckedOut(q) = HeldAt(q, at[q]) /\ CheckedOut(q)' = HeldAt(q, k)
    BY <1>0, MoveIs
  <2>2. CheckedOut(q) \in {0, 1, 2} /\ CheckedOut(q)' \in {0, 1, 2}
    BY <1>0, <1>2, <2>1, WantsAre
  <2>3. /\ CheckedOut(q) = 2 => CheckedOut(q)' # 0
        /\ CheckedOut(q) = 0 => CheckedOut(q)' # 2
        /\ free' + CheckedOut(q)' = free + CheckedOut(q)
    BY <2>1
  <2> QED
    BY <1>1, <2>1, <2>2, <2>3, AccountMoves
<1> QED
  BY <1>1, <1>3 DEF PoolInv

\* Each step of a request keeps the account.
LEMMA PoolStep == PoolInv /\ [PoolNext]_poolVars => PoolInv'
<1> SUFFICES ASSUME PoolInv, [PoolNext]_poolVars
             PROVE  PoolInv'
  OBVIOUS
<1>0. PoolTypeOK /\ free \in 0 .. PoolSize /\ PoolSize \in Nat
  BY PoolAssumption DEF PoolInv, PoolTypeOK
<1>1. CASE UNCHANGED poolVars
  BY <1>1 DEF poolVars, PoolInv, PoolTypeOK, ConnectionsAreAccounted, Holders, DoubleHolders,
              CheckedOut, Plan
<1>2. ASSUME NEW q \in PoolRequests, Arrive(q)
      PROVE  PoolInv'
  <2>1. 1 \in DOMAIN Plan(q) /\ HeldAt(q, 1) = 0 /\ HeldAt(q, at[q]) = 0
    BY <1>2, PlansAre DEF Arrive, HeldAt, Out
  <2>2. at' = [at EXCEPT ![q] = 1] /\ free' = free
    BY <1>2 DEF Arrive
  <2>3. free' \in 0 .. PoolSize /\ free' + HeldAt(q, 1) = free + HeldAt(q, at[q])
    BY <1>0, <2>1, <2>2
  <2>4. HeldAt(q, at[q]) # 2 /\ HeldAt(q, 1) # 2
    BY <2>1
  <2> QED
    BY <2>1, <2>2, <2>3, <2>4, StepKeeps
<1> DEFINE next(q) == IF at[q] = Len(Plan(q)) THEN Ended ELSE at[q] + 1
<1>3. ASSUME NEW q \in PoolRequests, at[q] \in DOMAIN Plan(q), Advance(q)
      PROVE  /\ next(q) \in DOMAIN Plan(q) \cup {Out, Ended}
             /\ at' = [at EXCEPT ![q] = next(q)]
             /\ Wants(q, "take") => HeldAt(q, next(q)) = HeldAt(q, at[q]) + 1
             /\ Wants(q, "give") => HeldAt(q, next(q)) + 1 = HeldAt(q, at[q])
  <2>1. at' = [at EXCEPT ![q] = next(q)]
    BY <1>3 DEF Advance
  <2> DEFINE moves(i, j) ==
               /\ j \in DOMAIN Plan(q) \cup {Out, Ended}
               /\ Plan(q)[i] = "take" => HeldAt(q, j) = HeldAt(q, i) + 1
               /\ Plan(q)[i] = "give" => HeldAt(q, j) + 1 = HeldAt(q, i)
  <2>2. CASE q \in StatusRequests
    <3>1. DOMAIN Plan(q) = 1 .. 8 /\ Len(Plan(q)) = 8
      BY <2>2, PlansAre
    <3>2. moves(1, 2) /\ moves(2, 3) /\ moves(3, 4) /\ moves(4, 5)
      BY <2>2, <3>1, PlansAre DEF HeldAt
    <3>3. moves(5, 6) /\ moves(6, 7) /\ moves(7, 8) /\ moves(8, Ended)
      BY <2>2, <3>1, PlansAre DEF HeldAt, Ended
    <3>4. \/ at[q] \in 1 .. 7 /\ next(q) = at[q] + 1
          \/ at[q] = 8 /\ next(q) = Ended
      BY <1>3, <3>1
    <3> HIDE DEF moves, next
    <3>5. moves(at[q], next(q))
      BY <3>2, <3>3, <3>4
    <3> QED
      BY <2>1, <3>5 DEF moves, Wants
  <2>3. CASE q \notin StatusRequests
    <3>1. DOMAIN Plan(q) = 1 .. 2 /\ Len(Plan(q)) = 2
      BY <2>3, PlansAre
    <3>2. moves(1, 2) /\ moves(2, Ended)
      BY <2>3, <3>1, PlansAre DEF HeldAt, Ended
    <3>3. \/ at[q] = 1 /\ next(q) = 2
          \/ at[q] = 2 /\ next(q) = Ended
      BY <1>3, <3>1
    <3> HIDE DEF moves, next
    <3>4. moves(at[q], next(q))
      BY <3>2, <3>3
    <3> QED
      BY <2>1, <3>4 DEF moves, Wants
  <2> QED
    BY <2>2, <2>3
<1>4. ASSUME NEW q \in PoolRequests
      PROVE  CheckedOut(q) = HeldAt(q, at[q]) /\ HeldAt(q, at[q]) \in {0, 1, 2}
  <2>1. at[q] \in DOMAIN Plan(q) \cup {Out, Ended}
    BY <1>0 DEF PoolTypeOK
  <2>2. CheckedOut(q) = CountAt(q, at[q])
    BY DEF CheckedOut, CountAt, DoneBefore
  <2> QED
    BY <2>1, <2>2, CountIsTable DEF HeldAt
<1>5. ASSUME NEW q \in PoolRequests, TakeConnection(q)
      PROVE  PoolInv'
  <2>1. at[q] \in DOMAIN Plan(q) /\ Wants(q, "take") /\ Advance(q) /\ free > 0 /\ free' = free - 1
    BY <1>5 DEF TakeConnection, Wants
  <2>2. free' \in 0 .. PoolSize
    BY <1>0, <2>1
  <2> HIDE DEF next
  <2>3. /\ free' + HeldAt(q, next(q)) = free + HeldAt(q, at[q])
        /\ HeldAt(q, at[q]) = 2 => HeldAt(q, next(q)) # 0
        /\ HeldAt(q, at[q]) = 0 => HeldAt(q, next(q)) # 2
    BY <1>0, <1>3, <1>4, <2>1
  <2> QED
    BY <1>3, <2>1, <2>2, <2>3, StepKeeps
<1>6. ASSUME NEW q \in PoolRequests, GiveConnection(q)
      PROVE  PoolInv'
  <2>1. at[q] \in DOMAIN Plan(q) /\ Wants(q, "give") /\ Advance(q) /\ free' = free + 1
    BY <1>6 DEF GiveConnection, Wants
  <2> HIDE DEF next
  <2>2. free' \in 0 .. PoolSize
    BY <1>0, <1>4, <2>1, WantsAre, RoomToGive
  <2>3. /\ free' + HeldAt(q, next(q)) = free + HeldAt(q, at[q])
        /\ HeldAt(q, at[q]) = 2 => HeldAt(q, next(q)) # 0
        /\ HeldAt(q, at[q]) = 0 => HeldAt(q, next(q)) # 2
    <3>1. HeldAt(q, next(q)) + 1 = HeldAt(q, at[q]) /\ HeldAt(q, at[q]) \in {1, 2}
      BY <1>0, <1>3, <1>4, <2>1, WantsAre
    <3>2. HeldAt(q, next(q)) \in {0, 1, 2}
      BY DEF HeldAt
    <3> QED
      BY <1>0, <2>1, <3>1, <3>2
  <2> QED
    BY <1>3, <2>1, <2>2, <2>3, StepKeeps
<1>7. ASSUME NEW q \in PoolRequests, PoolTimeout(q)
      PROVE  PoolInv'
  <2>1. Wants(q, "take") /\ free = 0 /\ free' = free + CheckedOut(q) /\ at' = [at EXCEPT ![q] = Ended]
    BY <1>7 DEF PoolTimeout
  <2>2. HeldAt(q, at[q]) \in {0, 1} /\ HeldAt(q, Ended) = 0
    BY <1>0, <1>4, <2>1, WantsAre DEF HeldAt, Ended
  <2>3. free' \in 0 .. PoolSize
    BY <1>0, <1>4, <2>1, <2>2, RoomToGive
  <2>4. free' + HeldAt(q, Ended) = free + HeldAt(q, at[q])
    BY <1>0, <1>4, <2>1, <2>2
  <2>5. (HeldAt(q, at[q]) = 2 => HeldAt(q, Ended) # 0) /\ (HeldAt(q, at[q]) = 0 => HeldAt(q, Ended) # 2)
    BY <2>2
  <2> QED
    BY <2>1, <2>3, <2>4, <2>5, StepKeeps
<1> QED
  BY <1>1, <1>2, <1>5, <1>6, <1>7 DEF PoolNext

\* In a stall nobody has two, so everybody who has one counts for one.
LEMMA AccountOfStall == PoolInv => StallTakesAllConnections
<1> SUFFICES ASSUME PoolInv, Stalled
             PROVE  Cardinality({q \in StatusRequests : CheckedOut(q) = 1}) >= PoolSize
  BY DEF StallTakesAllConnections
<1>0. PoolTypeOK /\ PoolSize \in Nat
  BY PoolAssumption DEF PoolInv
<1>1. free = 0
  BY DEF Stalled
<1>2. \A q \in PoolRequests : /\ CheckedOut(q) \in {0, 1}
                              /\ CheckedOut(q) = 1 => q \in StatusRequests
  BY <1>0, WantsAre DEF Stalled
<1>3. DoubleHolders = {} /\ Holders = {q \in StatusRequests : CheckedOut(q) = 1}
  BY <1>2 DEF DoubleHolders, Holders, PoolRequests
<1>4. free + Cardinality(Holders) + Cardinality(DoubleHolders) = PoolSize
      /\ Cardinality(Holders) \in Nat
  BY FS_CardinalityType DEF PoolInv, ConnectionsAreAccounted
<1>5. Cardinality(DoubleHolders) = 0
  BY <1>3, FS_EmptySet
<1>6. Cardinality(Holders) = PoolSize
  BY <1>0, <1>1, <1>4, <1>5
<1> QED
  BY <1>0, <1>3, <1>6

(* Requests wait for each other with nobody to give a connection back only *)
(* when every connection of the pool is the outer one of a status request, *)
(* whatever the pool's size and however many requests there are.           *)
THEOREM StallAlwaysTakesAll == PoolSpec => []StallTakesAllConnections
<1>1. PoolInit => PoolInv
  <2> SUFFICES ASSUME PoolInit
               PROVE  PoolInv
    OBVIOUS
  <2>1. PoolTypeOK
    BY PoolAssumption DEF PoolInit, PoolTypeOK, Out, Ended
  <2>2. \A q \in PoolRequests : CheckedOut(q) = 0
    BY DEF PoolInit, CheckedOut
  <2>3. Holders = {} /\ DoubleHolders = {}
    BY <2>2 DEF Holders, DoubleHolders
  <2> QED
    BY <2>1, <2>3, FS_EmptySet, PoolAssumption DEF PoolInv, ConnectionsAreAccounted, PoolInit
<1> QED
  BY <1>1, PoolStep, AccountOfStall, PTL DEF PoolSpec
================================================================================
