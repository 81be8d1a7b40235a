--------------------------- MODULE RcuHashMapProofs ---------------------------
(* The structure of RcuHashMap for every number of readers, keys and nodes: *)
(* chains are finite and whole, every node is in one place, and a reader    *)
(* finds only what is still there.                                          *)
EXTENDS MCStructures, FiniteSetTheorems, WellFoundedInduction, TLAPS

-----------------------------------------------------------------------------
(* Numbers: every set of them has a least one, which is all the induction  *)
(* that is needed here.                                                    *)
LEMMA LeastOf ==
  ASSUME NEW T \in SUBSET Nat, T # {}
  PROVE  \E x \in T : \A y \in T : x <= y
<1>1. PICK x \in T : \A y \in T : ~(<<y, x>> \in OpToRel(<, Nat))
  <2>1. IsWellFoundedOn(OpToRel(<, Nat), Nat)
    BY NatLessThanWellFounded
  <2> QED
    BY <2>1, WFMin, Zenon
<1>2. \A y \in T : ~(y < x)
  BY <1>1, Zenon DEF OpToRel
<1> QED
  BY <1>2

(* The largest of a bounded set of numbers.                                *)
LEMMA LargestOf ==
  ASSUME NEW bound \in Nat, NEW T \in SUBSET (0 .. bound), T # {}
  PROVE  \E x \in T : \A y \in T : y <= x
<1> DEFINE U == {z \in Nat : bound - z \in T}
<1>1. U \in SUBSET Nat /\ U # {}
  <2>1. PICK x \in T : TRUE
    OBVIOUS
  <2>2. bound - x \in Nat /\ bound - (bound - x) = x
    OBVIOUS
  <2> QED
    BY <2>1, <2>2
<1>2. PICK z \in U : \A y \in U : z <= y
  BY <1>1, LeastOf
<1>3. bound - z \in T
  OBVIOUS
<1>4. ASSUME NEW y \in T PROVE y <= bound - z
  <2>1. bound - y \in Nat /\ bound - (bound - y) = y
    OBVIOUS
  <2>2. z <= bound - y
    BY <1>2, <2>1
  <2> QED
    BY <2>2
<1> QED
  BY <1>3, <1>4

-----------------------------------------------------------------------------
(* Chains, for any links nx between the nodes.                             *)
ReachIn(nx, first) ==
  LET reach[n \in Nodes \cup {Null}] == IF n = Null THEN {} ELSE {n} \cup reach[nx[n]]
  IN  reach[first]

ClosedIn(nx, S) == \A n \in S : nx[n] # Null => nx[n] \in S

(* The links lead downwards.                                               *)
Descends(nx, rank) ==
  /\ Null \notin Nodes
  /\ nx \in [Nodes -> Nodes \cup {Null}] /\ rank \in [Nodes -> Nat]
  /\ \A n \in Nodes : nx[n] # Null => rank[nx[n]] < rank[n]

(* What a chain leads to, as the smallest set that the links do not leave. *)
Least(nx, first) ==
  IF first = Null THEN {}
  ELSE {m \in Nodes : \A S \in SUBSET Nodes : first \in S /\ ClosedIn(nx, S) => m \in S}

LEMMA LeastUnfolds ==
  ASSUME Null \notin Nodes, NEW nx \in [Nodes -> Nodes \cup {Null}], NEW n \in Nodes
  PROVE  Least(nx, n) = {n} \cup Least(nx, nx[n])
<1>1. n # Null
  OBVIOUS
<1>2. n \in Least(nx, n)
  BY <1>1 DEF Least
<1>3. ClosedIn(nx, Least(nx, n)) /\ Least(nx, n) \in SUBSET Nodes
  BY <1>1 DEF Least, ClosedIn
<1>4. Least(nx, nx[n]) \subseteq Least(nx, n)
  <2>1. CASE nx[n] = Null
    BY <2>1 DEF Least
  <2>2. CASE nx[n] # Null
    <3>1. nx[n] \in Least(nx, n)
      BY <1>2, <1>3, <2>2 DEF ClosedIn
    <3>2. Least(nx, nx[n]) =
            {m \in Nodes : \A S \in SUBSET Nodes : nx[n] \in S /\ ClosedIn(nx, S) => m \in S}
      BY <2>2 DEF Least
    <3> QED
      BY <1>3, <3>1, <3>2
  <2> QED
    BY <2>1, <2>2
<1> DEFINE S == {n} \cup Least(nx, nx[n])
<1>5. S \in SUBSET Nodes /\ n \in S
  BY DEF Least
<1>6. ClosedIn(nx, S)
  <2> SUFFICES ASSUME NEW m \in S, nx[m] # Null PROVE nx[m] \in S
    BY DEF ClosedIn
  <2>1. CASE m = n
    <3>1. nx[n] \in Nodes /\ nx[n] # Null
      BY <2>1
    <3>2. nx[n] \in Least(nx, nx[n])
      BY <3>1 DEF Least
    <3> QED
      BY <2>1, <3>2
  <2>2. CASE m \in Least(nx, nx[n])
    <3>1. nx[n] # Null
      BY <2>2 DEF Least
    <3>2. m \in Nodes /\ nx[m] \in Nodes
      BY <1>5
    <3>3. nx[m] \in Least(nx, nx[n])
      BY <2>2, <3>1, <3>2 DEF Least, ClosedIn
    <3> QED
      BY <3>3
  <2> QED
    BY <2>1, <2>2
<1>7. Least(nx, n) \subseteq S
  BY <1>1, <1>5, <1>6 DEF Least
<1> QED
  BY <1>2, <1>4, <1>7

(* The recursive function has a solution, and so it is one.                *)
LEMMA ReachUnfolds ==
  ASSUME Null \notin Nodes, NEW nx \in [Nodes -> Nodes \cup {Null}]
  PROVE  /\ ReachIn(nx, Null) = {}
         /\ \A n \in Nodes : ReachIn(nx, n) = {n} \cup ReachIn(nx, nx[n])
<1> DEFINE D == Nodes \cup {Null}
           reach[n \in D] == IF n = Null THEN {} ELSE {n} \cup reach[nx[n]]
           g == [n \in D |-> Least(nx, n)]
<1>1. g = [n \in D |-> IF n = Null THEN {} ELSE {n} \cup g[nx[n]]]
  <2>1. ASSUME NEW n \in D
        PROVE  Least(nx, n) = IF n = Null THEN {} ELSE {n} \cup g[nx[n]]
    <3>1. CASE n = Null
      BY <3>1 DEF Least
    <3>2. CASE n # Null
      <4>1. n \in Nodes /\ nx[n] \in D
        BY <3>2
      <4>2. Least(nx, n) = {n} \cup Least(nx, nx[n])
        BY <4>1, LeastUnfolds
      <4> QED
        BY <3>2, <4>1, <4>2
    <3> QED
      BY <3>1, <3>2
  <2> QED
    BY <2>1
<1> HIDE DEF g
<1>2. reach = [n \in D |-> IF n = Null THEN {} ELSE {n} \cup reach[nx[n]]]
  BY <1>1, Zenon
<1>3. \A n \in D : ReachIn(nx, n) = reach[n]
  BY DEF ReachIn
<1> HIDE DEF reach
<1>4. \A n \in D : reach[n] = IF n = Null THEN {} ELSE {n} \cup reach[nx[n]]
  BY <1>2
<1>5. \A n \in Nodes : n \in D /\ nx[n] \in D /\ n # Null
  OBVIOUS
<1> QED
  BY <1>3, <1>4, <1>5

(* A set the links do not leave holds what any of its nodes leads to.      *)
LEMMA ReachLeast ==
  ASSUME NEW nx, NEW rank, Descends(nx, rank),
         NEW S \in SUBSET Nodes, ClosedIn(nx, S), NEW first \in S
  PROVE  ReachIn(nx, first) \subseteq S
<1>1. /\ Null \notin Nodes /\ nx \in [Nodes -> Nodes \cup {Null}] /\ rank \in [Nodes -> Nat]
      /\ \A n \in Nodes : nx[n] # Null => rank[nx[n]] < rank[n]
  BY DEF Descends
<1>2. /\ ReachIn(nx, Null) = {}
      /\ \A n \in Nodes : ReachIn(nx, n) = {n} \cup ReachIn(nx, nx[n])
  BY <1>1, ReachUnfolds
<1> DEFINE Bad == {n \in S : ~(ReachIn(nx, n) \subseteq S)}
           T == {rank[n] : n \in Bad}
<1>3. SUFFICES ASSUME Bad # {} PROVE FALSE
  OBVIOUS
<1>4. T \in SUBSET Nat /\ T # {}
  BY <1>1, <1>3
<1> HIDE DEF T
<1>5. PICK x \in T : \A y \in T : x <= y
  BY <1>4, LeastOf
<1> USE DEF T
<1>6. PICK n \in Bad : x = rank[n]
  BY <1>5
<1>7. n \in Nodes /\ n \in S /\ ~(ReachIn(nx, n) \subseteq S)
  BY <1>6
<1>8. nx[n] # Null /\ nx[n] \in S
  BY <1>1, <1>2, <1>7 DEF ClosedIn
<1>9. nx[n] \in Bad
  BY <1>2, <1>7, <1>8
<1>10. rank[nx[n]] < rank[n] /\ rank[n] \in Nat /\ rank[nx[n]] \in Nat
  BY <1>1, <1>7, <1>8
<1>11. rank[n] <= rank[nx[n]]
  BY <1>5, <1>6, <1>9
<1> QED
  BY <1>10, <1>11

LEMMA ReachClosed ==
  ASSUME NEW nx, NEW rank, Descends(nx, rank), NEW first \in Nodes
  PROVE  /\ ReachIn(nx, first) \in SUBSET Nodes
         /\ ClosedIn(nx, ReachIn(nx, first))
         /\ first \in ReachIn(nx, first)
<1>1. /\ Null \notin Nodes /\ nx \in [Nodes -> Nodes \cup {Null}] /\ rank \in [Nodes -> Nat]
      /\ \A n \in Nodes : nx[n] # Null => rank[nx[n]] < rank[n]
  BY DEF Descends
<1>2. /\ ReachIn(nx, Null) = {}
      /\ \A n \in Nodes : ReachIn(nx, n) = {n} \cup ReachIn(nx, nx[n])
  BY <1>1, ReachUnfolds
<1>3. ClosedIn(nx, Nodes)
  BY <1>1 DEF ClosedIn
<1>4. \A n \in Nodes : ReachIn(nx, n) \subseteq Nodes
  BY <1>3, ReachLeast
(* The nodes from which everything reachable leads on to what is reachable. *)
<1> DEFINE Bad == {n \in Nodes : ~ClosedIn(nx, ReachIn(nx, n))}
           T == {rank[n] : n \in Bad}
<1>5. Bad = {}
  <2> SUFFICES ASSUME Bad # {} PROVE FALSE
    OBVIOUS
  <2>1. T \in SUBSET Nat /\ T # {}
    BY <1>1
  <2> HIDE DEF T
  <2>2. PICK x \in T : \A y \in T : x <= y
    BY <2>1, LeastOf
  <2> USE DEF T
  <2>3. PICK n \in Bad : x = rank[n]
    BY <2>2
  <2>4. n \in Nodes /\ ~ClosedIn(nx, ReachIn(nx, n))
    BY <2>3
  <2>5. PICK m \in ReachIn(nx, n) : nx[m] # Null /\ nx[m] \notin ReachIn(nx, n)
    BY <2>4 DEF ClosedIn
  <2>6. nx[n] # Null
    BY <1>2, <2>4, <2>5
  <2>7. nx[n] \in Nodes
    BY <1>1, <2>4, <2>6
  <2>8. nx[n] \in ReachIn(nx, n)
    BY <1>2, <2>4, <2>7
  <2>9. m \in ReachIn(nx, nx[n]) /\ nx[m] \notin ReachIn(nx, nx[n])
    BY <1>2, <2>4, <2>5, <2>8
  <2>10. nx[n] \in Bad
    BY <2>5, <2>7, <2>9 DEF ClosedIn
  <2>11. rank[nx[n]] < rank[n] /\ rank[n] \in Nat /\ rank[nx[n]] \in Nat
    BY <1>1, <2>4, <2>6, <2>7
  <2>12. rank[n] <= rank[nx[n]]
    BY <2>2, <2>3, <2>10
  <2> QED
    BY <2>11, <2>12
<1> QED
  BY <1>2, <1>4, <1>5

(* A chain whose links stay is the same chain.                             *)
LEMMA ReachSame ==
  ASSUME NEW nx, NEW rank, Descends(nx, rank), NEW ny, NEW rank2, Descends(ny, rank2),
         NEW first \in Nodes \cup {Null}, \A n \in ReachIn(nx, first) : ny[n] = nx[n]
  PROVE  ReachIn(ny, first) = ReachIn(nx, first)
<1>1. CASE first = Null
  BY <1>1, ReachUnfolds DEF Descends
<1>2. CASE first # Null
  <2>1. first \in Nodes
    BY <1>2
  <2>2. /\ ReachIn(nx, first) \in SUBSET Nodes /\ first \in ReachIn(nx, first)
        /\ ClosedIn(nx, ReachIn(nx, first))
    BY <2>1, ReachClosed
  <2>3. /\ ReachIn(ny, first) \in SUBSET Nodes /\ first \in ReachIn(ny, first)
        /\ ClosedIn(ny, ReachIn(ny, first))
    BY <2>1, ReachClosed
  <2>4. ClosedIn(ny, ReachIn(nx, first))
    BY <2>2 DEF ClosedIn
  <2>5. ReachIn(ny, first) \subseteq ReachIn(nx, first)
    BY <2>2, <2>4, ReachLeast
  <2>6. ClosedIn(nx, ReachIn(ny, first))
    BY <2>3, <2>5 DEF ClosedIn
  <2>7. ReachIn(nx, first) \subseteq ReachIn(ny, first)
    BY <2>3, <2>6, ReachLeast
  <2> QED
    BY <2>5, <2>7
<1> QED
  BY <1>1, <1>2

LEMMA ReachDown ==
  ASSUME NEW nx, NEW rank, Descends(nx, rank), NEW first \in Nodes, NEW n \in ReachIn(nx, first)
  PROVE  rank[n] <= rank[first] /\ n \in Nodes /\ ReachIn(nx, n) \subseteq ReachIn(nx, first)
<1>1. /\ Null \notin Nodes /\ nx \in [Nodes -> Nodes \cup {Null}] /\ rank \in [Nodes -> Nat]
      /\ \A m \in Nodes : nx[m] # Null => rank[nx[m]] < rank[m]
  BY DEF Descends
<1> DEFINE S == {m \in Nodes : rank[m] <= rank[first]}
<1>2. ClosedIn(nx, S)
  <2> SUFFICES ASSUME NEW m \in S, nx[m] # Null PROVE nx[m] \in S
    BY DEF ClosedIn
  <2>1. m \in Nodes /\ nx[m] \in Nodes /\ rank[nx[m]] < rank[m] /\ rank[m] <= rank[first]
    BY <1>1
  <2>2. rank[nx[m]] \in Nat /\ rank[m] \in Nat /\ rank[first] \in Nat
    BY <1>1, <2>1
  <2> QED
    BY <2>1, <2>2
<1>3. first \in S /\ S \in SUBSET Nodes
  BY <1>1
<1> HIDE DEF S
<1>4. ReachIn(nx, first) \subseteq S
  BY <1>2, <1>3, ReachLeast
<1> USE DEF S
<1>5. rank[n] <= rank[first] /\ n \in Nodes
  BY <1>4
<1>6. ReachIn(nx, first) \in SUBSET Nodes /\ ClosedIn(nx, ReachIn(nx, first))
  BY ReachClosed
<1>7. ReachIn(nx, n) \subseteq ReachIn(nx, first)
  BY <1>6, ReachLeast
<1> QED
  BY <1>5, <1>7

LEMMA ReachPredecessor ==
  ASSUME NEW nx, NEW rank, Descends(nx, rank), NEW first \in Nodes,
         NEW n \in ReachIn(nx, first), n # first
  PROVE  \E m \in ReachIn(nx, first) : nx[m] = n
<1> DEFINE S == ReachIn(nx, first) \ {n}
<1>1. SUFFICES ASSUME \A m \in ReachIn(nx, first) : nx[m] # n PROVE FALSE
  OBVIOUS
<1>2. /\ ReachIn(nx, first) \in SUBSET Nodes /\ first \in ReachIn(nx, first)
      /\ ClosedIn(nx, ReachIn(nx, first))
  BY ReachClosed
<1>3. ClosedIn(nx, S) /\ first \in S /\ S \in SUBSET Nodes
  BY <1>1, <1>2 DEF ClosedIn
<1>4. ReachIn(nx, first) \subseteq S
  BY <1>3, ReachLeast
<1> QED
  BY <1>4

-----------------------------------------------------------------------------
(* What Relink makes of a chain: old goes, and to takes its place.         *)
BeforeIn(nx, first, old) == {m \in ReachIn(nx, first) : nx[m] = old}

LEMMA OnlyFirstHasNoneBefore ==
  ASSUME NEW nx, NEW rank, Descends(nx, rank), NEW first \in Nodes, NEW old \in ReachIn(nx, first)
  PROVE  BeforeIn(nx, first, old) = {} <=> old = first
<1>1. CASE old = first
  <2> SUFFICES ASSUME NEW m \in ReachIn(nx, first), nx[m] = first PROVE FALSE
    BY <1>1 DEF BeforeIn
  <2>1. rank[m] <= rank[first] /\ m \in Nodes
    BY ReachDown
  <2>2. rank[first] < rank[m] /\ rank[m] \in Nat /\ rank[first] \in Nat
    BY <2>1 DEF Descends
  <2> QED
    BY <2>1, <2>2
<1>2. CASE old # first
  BY <1>2, ReachPredecessor DEF BeforeIn
<1> QED
  BY <1>1, <1>2

LEMMA ReachReplaced ==
  ASSUME NEW nx, NEW rank, Descends(nx, rank), NEW first \in Nodes, NEW old \in ReachIn(nx, first),
         NEW new \in Nodes, \A n \in Nodes : nx[n] # new, new \notin ReachIn(nx, first),
         NEW ny, NEW rank2, Descends(ny, rank2),
         \A n \in Nodes : ny[n] = IF n \in BeforeIn(nx, first, old) THEN new
                                  ELSE IF n = new THEN nx[old] ELSE nx[n],
         NEW head, head = IF BeforeIn(nx, first, old) # {} THEN first ELSE new
  PROVE  ReachIn(ny, head) = (ReachIn(nx, first) \ {old}) \cup {new}
<1> DEFINE R == ReachIn(nx, first)
           Q == ReachIn(ny, head)
           B == BeforeIn(nx, first, old)
           W == (R \ {old}) \cup {new}
<1>1. /\ Null \notin Nodes /\ nx \in [Nodes -> Nodes \cup {Null}] /\ rank \in [Nodes -> Nat]
      /\ \A n \in Nodes : nx[n] # Null => rank[nx[n]] < rank[n]
  BY DEF Descends
<1>2. R \in SUBSET Nodes /\ first \in R /\ ClosedIn(nx, R)
  BY ReachClosed
<1>3. old \in Nodes /\ nx[old] # old /\ old # new
  BY <1>1, <1>2
<1>4. B \subseteq R /\ new \notin B /\ \A m \in R : m \in B <=> nx[m] = old
  BY DEF BeforeIn
<1>5. B = {} <=> old = first
  BY OnlyFirstHasNoneBefore
<1>6. /\ \A n \in B : ny[n] = new
      /\ ny[new] = nx[old]
      /\ \A n \in R : n \notin B => ny[n] = nx[n]
  BY <1>2, <1>4
<1> HIDE DEF R, B
<1>7. head \in W /\ head \in Nodes /\ W \in SUBSET Nodes
  BY <1>2, <1>5 DEF B
<1>8. Q \in SUBSET Nodes /\ head \in Q /\ ClosedIn(ny, Q)
  BY <1>7, ReachClosed
<1> HIDE DEF Q
<1>9. ClosedIn(ny, W)
  <2> SUFFICES ASSUME NEW m \in W, ny[m] # Null PROVE ny[m] \in W
    BY DEF ClosedIn
  <2>1. CASE m = new
    <3>1. ny[m] = nx[old] /\ nx[old] \in R
      BY <1>2, <1>6, <2>1 DEF ClosedIn, R
    <3> QED
      BY <1>3, <3>1
  <2>2. CASE m \in R /\ m \in B
    BY <1>6, <2>2
  <2>3. CASE m \in R /\ m \notin B
    BY <1>2, <1>4, <1>6, <2>3 DEF ClosedIn
  <2> QED
    BY <2>1, <2>2, <2>3
<1>10. Q \subseteq W
  BY <1>7, <1>9, ReachLeast DEF Q
<1> DEFINE S == {m \in R : m \in Q \/ (m = old /\ new \in Q)}
<1>11. first \in S /\ S \in SUBSET Nodes
  BY <1>2, <1>5, <1>8 DEF B
<1>12. ClosedIn(nx, S)
  <2> SUFFICES ASSUME NEW m \in S, nx[m] # Null PROVE nx[m] \in S
    BY DEF ClosedIn
  <2>0. m \in R /\ nx[m] \in R
    BY <1>2 DEF ClosedIn
  <2>1. CASE m = old /\ new \in Q
    <3>1. ny[new] = nx[m] /\ ny[new] # Null
      BY <1>6, <2>1
    <3>2. nx[m] \in Q
      BY <1>8, <2>1, <3>1 DEF ClosedIn
    <3> QED
      BY <2>0, <3>2
  <2>2. CASE m \in Q /\ m \in B
    <3>1. nx[m] = old /\ ny[m] = new
      BY <1>4, <1>6, <2>0, <2>2
    <3>2. new \in Q
      BY <1>1, <1>8, <2>2, <3>1 DEF ClosedIn
    <3> QED
      BY <2>0, <3>1, <3>2
  <2>3. CASE m \in Q /\ m \notin B
    <3>1. ny[m] = nx[m]
      BY <1>6, <2>0, <2>3
    <3>2. nx[m] \in Q
      BY <1>8, <2>3, <3>1 DEF ClosedIn
    <3> QED
      BY <2>0, <3>2
  <2> QED
    BY <2>1, <2>2, <2>3
<1> HIDE DEF S
<1>13. R \subseteq S
  BY <1>11, <1>12, ReachLeast DEF R
<1>14. old \in R /\ new \notin R
  BY DEF R
<1>15. new \in Q
  BY <1>3, <1>10, <1>13, <1>14 DEF S
<1>16. W \subseteq Q
  BY <1>13, <1>15 DEF S
<1> QED
  BY <1>10, <1>16 DEF Q, R

LEMMA ReachRemoved ==
  ASSUME NEW nx, NEW rank, Descends(nx, rank), NEW first \in Nodes, NEW old \in ReachIn(nx, first),
         NEW ny, NEW rank2, Descends(ny, rank2),
         \A n \in Nodes : ny[n] = IF n \in BeforeIn(nx, first, old) THEN nx[old] ELSE nx[n],
         NEW head, head = IF BeforeIn(nx, first, old) # {} THEN first ELSE nx[old]
  PROVE  ReachIn(ny, head) = ReachIn(nx, first) \ {old}
<1> DEFINE R == ReachIn(nx, first)
           Q == ReachIn(ny, head)
           B == BeforeIn(nx, first, old)
           W == R \ {old}
<1>1. /\ Null \notin Nodes /\ nx \in [Nodes -> Nodes \cup {Null}] /\ rank \in [Nodes -> Nat]
      /\ \A n \in Nodes : nx[n] # Null => rank[nx[n]] < rank[n]
      /\ ny \in [Nodes -> Nodes \cup {Null}]
  BY DEF Descends
<1>2. R \in SUBSET Nodes /\ first \in R /\ ClosedIn(nx, R)
  BY ReachClosed
<1>3. old \in Nodes /\ nx[old] # old
  BY <1>1, <1>2
<1>4. B \subseteq R /\ \A m \in R : m \in B <=> nx[m] = old
  BY DEF BeforeIn
<1>5. B = {} <=> old = first
  BY OnlyFirstHasNoneBefore
<1>6. /\ \A n \in B : ny[n] = nx[old]
      /\ \A n \in R : n \notin B => ny[n] = nx[n]
      /\ old \in R
  BY <1>2, <1>4
<1>7. head \in Nodes \cup {Null} /\ (head # Null => head \in W) /\ W \in SUBSET Nodes
  <2>1. CASE old = first
    <3>1. head = nx[old]
      BY <1>5, <2>1
    <3> QED
      BY <1>1, <1>2, <1>3, <2>1, <3>1 DEF ClosedIn
  <2>2. CASE old # first
    BY <1>2, <1>5, <2>2
  <2> QED
    BY <2>1, <2>2
<1>8. ClosedIn(ny, Q) /\ (head # Null => head \in Q)
  <2>1. CASE head = Null
    <3>1. Q = {}
      BY <1>1, <2>1, ReachUnfolds
    <3> QED
      BY <2>1, <3>1 DEF ClosedIn
  <2>2. CASE head # Null
    <3>1. head \in Nodes
      BY <1>7, <2>2
    <3> QED
      BY <3>1, ReachClosed
  <2> QED
    BY <2>1, <2>2
<1> HIDE DEF R, B
<1>9. ClosedIn(ny, W)
  <2> SUFFICES ASSUME NEW m \in W, ny[m] # Null PROVE ny[m] \in W
    BY DEF ClosedIn
  <2>1. CASE m \in B
    <3>1. ny[m] = nx[old] /\ nx[old] \in R
      BY <1>2, <1>6, <2>1 DEF ClosedIn
    <3> QED
      BY <1>3, <3>1
  <2>2. CASE m \notin B
    BY <1>2, <1>4, <1>6, <2>2 DEF ClosedIn
  <2> QED
    BY <2>1, <2>2
<1>10. Q \subseteq W
  <2>1. CASE head = Null
    <3>1. Q = {}
      BY <1>1, <2>1, ReachUnfolds
    <3> QED
      BY <3>1
  <2>2. CASE head # Null
    BY <1>7, <1>9, <2>2, ReachLeast
  <2> QED
    BY <2>1, <2>2
<1> HIDE DEF Q
<1> DEFINE S == {m \in R : m \in Q \/ (m = old /\ (nx[old] = Null \/ nx[old] \in Q))}
<1>11. first \in S /\ S \in SUBSET Nodes
  <2>1. CASE old = first
    <3>1. head = nx[old]
      BY <1>5, <2>1 DEF B
    <3> QED
      BY <1>2, <1>8, <2>1, <3>1
  <2>2. CASE old # first
    <3>1. head = first /\ head # Null
      BY <1>1, <1>2, <1>5, <2>2 DEF B
    <3> QED
      BY <1>2, <1>8, <3>1
  <2> QED
    BY <2>1, <2>2
<1>12. ClosedIn(nx, S)
  <2> SUFFICES ASSUME NEW m \in S, nx[m] # Null PROVE nx[m] \in S
    BY DEF ClosedIn
  <2>0. m \in R /\ nx[m] \in R
    BY <1>2 DEF ClosedIn
  <2>1. CASE m = old /\ (nx[old] = Null \/ nx[old] \in Q)
    BY <2>0, <2>1
  <2>2. CASE m \in Q /\ m \in B
    <3>1. nx[m] = old /\ ny[m] = nx[old]
      BY <1>4, <1>6, <2>0, <2>2
    <3>2. nx[old] = Null \/ nx[old] \in Q
      BY <1>8, <2>2, <3>1 DEF ClosedIn
    <3> QED
      BY <2>0, <3>1, <3>2
  <2>3. CASE m \in Q /\ m \notin B
    <3>1. ny[m] = nx[m]
      BY <1>6, <2>0, <2>3
    <3>2. nx[m] \in Q
      BY <1>8, <2>3, <3>1 DEF ClosedIn
    <3> QED
      BY <2>0, <3>2
  <2> QED
    BY <2>1, <2>2, <2>3
<1> HIDE DEF S
<1>13. R \subseteq S
  BY <1>11, <1>12, ReachLeast DEF R
<1>14. W \subseteq Q
  BY <1>13 DEF S
<1> QED
  BY <1>10, <1>14 DEF Q, R

-----------------------------------------------------------------------------
(* What a walk down a chain finds.                                         *)
FindIn(nx, ky, k, first) ==
  LET find[n \in Nodes \cup {Null}] == IF n = Null \/ ky[n] = k THEN n ELSE find[nx[n]]
  IN  find[first]

Having(nx, ky, k, n) == {m \in ReachIn(nx, n) : ky[m] = k}

Highest(nx, rank, ky, k, n) ==
  IF Having(nx, ky, k, n) = {} THEN Null
  ELSE CHOOSE m \in Having(nx, ky, k, n) : \A l \in Having(nx, ky, k, n) : rank[l] <= rank[m]

LEMMA HighestUnfolds ==
  ASSUME NEW nx, NEW rank, Descends(nx, rank), NEW ky, NEW k, NEW n \in Nodes
  PROVE  Highest(nx, rank, ky, k, n) = IF ky[n] = k THEN n ELSE Highest(nx, rank, ky, k, nx[n])
<1>1. /\ Null \notin Nodes /\ nx \in [Nodes -> Nodes \cup {Null}] /\ rank \in [Nodes -> Nat]
      /\ \A m \in Nodes : nx[m] # Null => rank[nx[m]] < rank[m]
  BY DEF Descends
<1>2. /\ ReachIn(nx, Null) = {}
      /\ ReachIn(nx, n) = {n} \cup ReachIn(nx, nx[n])
  BY <1>1, ReachUnfolds
<1> DEFINE C == Having(nx, ky, k, n)
<1>3. CASE ky[n] = k
  <2>1. n \in C
    BY <1>2, <1>3 DEF Having
  <2>2. \A l \in C : rank[l] <= rank[n]
    BY ReachDown DEF Having
  <2>3. ASSUME NEW m \in C, \A l \in C : rank[l] <= rank[m] PROVE m = n
    <3> SUFFICES ASSUME m # n PROVE FALSE
      OBVIOUS
    <3>1. m \in ReachIn(nx, nx[n]) /\ nx[n] # Null
      BY <1>2 DEF Having
    <3>2. nx[n] \in Nodes /\ rank[nx[n]] < rank[n]
      BY <1>1, <3>1
    <3>3. rank[m] <= rank[nx[n]] /\ m \in Nodes
      BY <3>1, <3>2, ReachDown
    <3>4. rank[n] <= rank[m]
      BY <2>1, <2>3
    <3>5. rank[n] \in Nat /\ rank[m] \in Nat /\ rank[nx[n]] \in Nat
      BY <1>1, <3>2, <3>3
    <3> QED
      BY <3>2, <3>3, <3>4, <3>5
  <2> HIDE DEF C
  <2>4. (CHOOSE m \in C : \A l \in C : rank[l] <= rank[m]) = n
    <3> DEFINE top == CHOOSE m \in C : \A l \in C : rank[l] <= rank[m]
    <3>1. top \in C /\ \A l \in C : rank[l] <= rank[top]
      BY <2>1, <2>2, Zenon
    <3> HIDE DEF top
    <3>2. top = n
      BY <2>3, <3>1
    <3> QED
      BY <3>2 DEF top
  <2> QED
    BY <1>3, <2>1, <2>4 DEF Highest, C
<1>4. CASE ky[n] # k
  <2>1. C = Having(nx, ky, k, nx[n])
    BY <1>2, <1>4 DEF Having
  <2> QED
    BY <1>4, <2>1 DEF Highest
<1> QED
  BY <1>3, <1>4

FindsAlong(nx, ky, k) ==
  /\ FindIn(nx, ky, k, Null) = Null
  /\ \A n \in Nodes : FindIn(nx, ky, k, n) = IF ky[n] = k THEN n ELSE FindIn(nx, ky, k, nx[n])

LEMMA FindUnfolds ==
  ASSUME NEW nx, NEW rank, Descends(nx, rank), NEW ky, NEW k
  PROVE  FindsAlong(nx, ky, k)
<1> DEFINE D == Nodes \cup {Null}
           find[n \in D] == IF n = Null \/ ky[n] = k THEN n ELSE find[nx[n]]
           g == [n \in D |-> Highest(nx, rank, ky, k, n)]
<1>0. Null \notin Nodes /\ nx \in [Nodes -> Nodes \cup {Null}]
  BY DEF Descends
<1>1. g = [n \in D |-> IF n = Null \/ ky[n] = k THEN n ELSE g[nx[n]]]
  <2>1. ASSUME NEW n \in D
        PROVE  Highest(nx, rank, ky, k, n) = IF n = Null \/ ky[n] = k THEN n ELSE g[nx[n]]
    <3>1. CASE n = Null
      <4>1. ReachIn(nx, Null) = {}
        BY <1>0, ReachUnfolds
      <4>2. Having(nx, ky, k, Null) = {}
        BY <4>1 DEF Having
      <4> QED
        BY <3>1, <4>2 DEF Highest
    <3>2. CASE n # Null
      <4>1. n \in Nodes /\ nx[n] \in D
        BY <1>0, <3>2
      <4>2. Highest(nx, rank, ky, k, n) = IF ky[n] = k THEN n ELSE Highest(nx, rank, ky, k, nx[n])
        BY <4>1, HighestUnfolds
      <4> QED
        BY <3>2, <4>1, <4>2
    <3> QED
      BY <3>1, <3>2
  <2> QED
    BY <2>1
<1> HIDE DEF g
<1>2. find = [n \in D |-> IF n = Null \/ ky[n] = k THEN n ELSE find[nx[n]]]
  BY <1>1, Zenon
<1>3. \A n \in D : FindIn(nx, ky, k, n) = find[n]
  BY DEF FindIn
<1> HIDE DEF find
<1>4. \A n \in D : find[n] = IF n = Null \/ ky[n] = k THEN n ELSE find[nx[n]]
  BY <1>2
<1>5. \A n \in Nodes : n \in D /\ nx[n] \in D /\ n # Null
  BY <1>0
<1> QED
  BY <1>3, <1>4, <1>5 DEF FindsAlong

(* The first node of the chain with the key, if there is one.              *)
LEMMA FindFinds ==
  ASSUME NEW nx, NEW rank, Descends(nx, rank), NEW ky, NEW k, NEW first \in Nodes \cup {Null}
  PROVE  \/ FindIn(nx, ky, k, first) = Null /\ \A m \in ReachIn(nx, first) : ky[m] # k
         \/ FindIn(nx, ky, k, first) \in ReachIn(nx, first) /\ ky[FindIn(nx, ky, k, first)] = k
<1>1. /\ Null \notin Nodes /\ nx \in [Nodes -> Nodes \cup {Null}] /\ rank \in [Nodes -> Nat]
      /\ \A m \in Nodes : nx[m] # Null => rank[nx[m]] < rank[m]
  BY DEF Descends
<1>2. /\ ReachIn(nx, Null) = {}
      /\ \A n \in Nodes : ReachIn(nx, n) = {n} \cup ReachIn(nx, nx[n])
  BY <1>1, ReachUnfolds
<1>3. /\ FindIn(nx, ky, k, Null) = Null
      /\ \A n \in Nodes : FindIn(nx, ky, k, n) = IF ky[n] = k THEN n ELSE FindIn(nx, ky, k, nx[n])
  BY FindUnfolds DEF FindsAlong
<1> DEFINE Good(n) ==
             \/ FindIn(nx, ky, k, n) = Null /\ \A m \in ReachIn(nx, n) : ky[m] # k
             \/ FindIn(nx, ky, k, n) \in ReachIn(nx, n) /\ ky[FindIn(nx, ky, k, n)] = k
<1>4. Good(Null)
  BY <1>2, <1>3
<1>5. ASSUME NEW n \in Nodes, Good(nx[n]) PROVE Good(n)
  <2>1. CASE ky[n] = k
    BY <1>2, <1>3, <2>1
  <2>2. CASE ky[n] # k
    <3>1. FindIn(nx, ky, k, n) = FindIn(nx, ky, k, nx[n])
      BY <1>3, <2>2
    <3> QED
      BY <1>2, <1>5, <2>2, <3>1
  <2> QED
    BY <2>1, <2>2
<1> HIDE DEF Good
<1> DEFINE Bad == {n \in Nodes : ~Good(n)}
           T == {rank[n] : n \in Bad}
<1>6. Bad = {}
  <2> SUFFICES ASSUME Bad # {} PROVE FALSE
    OBVIOUS
  <2>1. T \in SUBSET Nat /\ T # {}
    BY <1>1
  <2> HIDE DEF T
  <2>2. PICK x \in T : \A y \in T : x <= y
    BY <2>1, LeastOf
  <2> USE DEF T
  <2>3. PICK n \in Bad : x = rank[n]
    BY <2>2
  <2>4. n \in Nodes /\ ~Good(nx[n])
    BY <1>5, <2>3
  <2>5. nx[n] # Null /\ nx[n] \in Bad
    BY <1>1, <1>4, <2>4
  <2>6. rank[nx[n]] < rank[n] /\ rank[n] \in Nat /\ rank[nx[n]] \in Nat
    BY <1>1, <2>4, <2>5
  <2>7. rank[n] <= rank[nx[n]]
    BY <2>2, <2>3, <2>5
  <2> QED
    BY <2>6, <2>7
<1>7. Good(first)
  BY <1>4, <1>6
<1> QED
  BY <1>7 DEF Good

-----------------------------------------------------------------------------
(* The map's state functions in terms of the links and the buckets.        *)
NodesIn(nx, bk, t) == UNION {ReachIn(nx, bk[t][j]) : j \in DOMAIN bk[t]}

LEMMA Views ==
  ASSUME NEW t
  PROVE  RM!NodesOf(t) = NodesIn(next, buckets, t) /\ RM!NodesOf(t)' = NodesIn(next', buckets', t)
<1>1. RM!NodesOf(t) = NodesIn(next, buckets, t)
  BY DEF RM!NodesOf, RM!Reach, NodesIn, ReachIn
<1>2. RM!NodesOf(t)' = NodesIn(next', buckets', t)
  BY DEF RM!NodesOf, RM!Reach, NodesIn, ReachIn
<1> QED
  BY <1>1, <1>2

LEMMA SameNodes ==
  ASSUME next' = next, buckets' = buckets
  PROVE  \A t \in RM!Tables : RM!NodesOf(t)' = RM!NodesOf(t)
<1> SUFFICES ASSUME NEW t \in RM!Tables PROVE RM!NodesOf(t)' = RM!NodesOf(t)
  OBVIOUS
<1>1. RM!NodesOf(t) = NodesIn(next, buckets, t) /\ RM!NodesOf(t)' = NodesIn(next', buckets', t)
  BY Views
<1> QED
  BY <1>1

(* ChainsInv of any links, buckets, contents and hash function.            *)
ChainsHold(nx, bk, ky, va, hash) ==
  /\ \E rank \in [Nodes -> Nat] : \A n \in Nodes : nx[n] # Null => rank[nx[n]] < rank[n]
  /\ \A t \in RM!Tables : \A j \in DOMAIN bk[t] : \A n \in ReachIn(nx, bk[t][j]) :
       ky[n] \in Keys /\ va[n] \in Values /\ hash[ky[n]] % RM!SizeOf(t) = j
  /\ \A t \in RM!Tables : \A m, n \in NodesIn(nx, bk, t) : ky[m] = ky[n] => m = n

LEMMA ChainsView ==
  /\ RM!ChainsInv <=> ChainsHold(next, buckets, key, value, hash_fn_)
  /\ RM!ChainsInv' <=> ChainsHold(next', buckets', key', value', hash_fn_')
<1>1. /\ \A t : RM!NodesOf(t) = NodesIn(next, buckets, t)
      /\ \A t : RM!NodesOf(t)' = NodesIn(next', buckets', t)
  BY Views
<1>2. \A t, j : RM!Reach(buckets[t][j]) = ReachIn(next, buckets[t][j])
  BY DEF RM!Reach, ReachIn
<1>3. \A t, j : RM!Reach(buckets[t][j])' = ReachIn(next', buckets'[t][j])
  BY DEF RM!Reach, ReachIn
<1>4. RM!ChainsInv <=> ChainsHold(next, buckets, key, value, hash_fn_)
  <2>1. (\A t \in RM!Tables : \A j \in DOMAIN buckets[t] : \A n \in RM!Reach(buckets[t][j]) :
           key[n] \in Keys /\ value[n] \in Values /\ RM!Bucket(key[n], t) = j)
        <=> \A t \in RM!Tables : \A j \in DOMAIN buckets[t] : \A n \in ReachIn(next, buckets[t][j]) :
           key[n] \in Keys /\ value[n] \in Values /\ hash_fn_[key[n]] % RM!SizeOf(t) = j
    BY <1>2 DEF RM!Bucket
  <2>2. (\A t \in RM!Tables : \A m, n \in RM!NodesOf(t) : key[m] = key[n] => m = n)
        <=> \A t \in RM!Tables : \A m, n \in NodesIn(next, buckets, t) : key[m] = key[n] => m = n
    BY <1>1
  <2> QED
    BY <2>1, <2>2, Zenon DEF RM!ChainsInv, ChainsHold
<1>5. RM!ChainsInv' <=> ChainsHold(next', buckets', key', value', hash_fn_')
  <2>1. (\A t \in RM!Tables : \A j \in DOMAIN buckets[t] : \A n \in RM!Reach(buckets[t][j]) :
           key[n] \in Keys /\ value[n] \in Values /\ RM!Bucket(key[n], t) = j)'
        <=> \A t \in RM!Tables : \A j \in DOMAIN buckets'[t] : \A n \in ReachIn(next', buckets'[t][j]) :
           key'[n] \in Keys /\ value'[n] \in Values /\ hash_fn_'[key'[n]] % RM!SizeOf(t) = j
    BY <1>3 DEF RM!Bucket, RM!Tables, RM!SizeOf
  <2>2. (\A t \in RM!Tables : \A m, n \in RM!NodesOf(t) : key[m] = key[n] => m = n)'
        <=> \A t \in RM!Tables : \A m, n \in NodesIn(next', buckets', t) : key'[m] = key'[n] => m = n
    BY <1>1 DEF RM!Tables
  <2> QED
    BY <2>1, <2>2, Zenon DEF RM!ChainsInv, ChainsHold
<1> QED
  BY <1>4, <1>5

LEMMA SameChains ==
  ASSUME UNCHANGED <<hash_fn_, buckets, key, value, next>>, RM!ChainsInv
  PROVE  RM!ChainsInv'
<1>1. ChainsHold(next, buckets, key, value, hash_fn_)
  BY ChainsView
<1>2. ChainsHold(next', buckets', key', value', hash_fn_')
  BY <1>1
<1> QED
  BY <1>2, ChainsView

LEMMA SamePlaces ==
  ASSUME UNCHANGED <<table_, buckets, next, allocated, retired, unlinked>>, RM!PlacesInv
  PROVE  RM!PlacesInv'
<1>1. \A t \in RM!Tables : RM!NodesOf(t)' = RM!NodesOf(t)
  BY SameNodes
<1> QED
  BY <1>1 DEF RM!PlacesInv, RM!RetiredNode, RM!NoTable, RM!Tables

LEMMA SameProtection ==
  ASSUME UNCHANGED <<table_, buckets, next, retired, unlinked>>,
         (wpc' = "retireTable") <=> (wpc = "retireTable")
  PROVE  /\ \A a \in Readers, t \in RM!Tables : RM!TableFor(a, t)' <=> RM!TableFor(a, t)
         /\ \A a \in Readers, n \in Nodes : RM!NodeFor(a, n)' <=> RM!NodeFor(a, n)
         /\ \A t \in RM!Tables : (RM!Dead(t)' <=> RM!Dead(t)) /\ (RM!Stands(t)' <=> RM!Stands(t))
<1>1. \A t \in RM!Tables : RM!NodesOf(t)' = RM!NodesOf(t)
  BY SameNodes
<1>2. \A t \in RM!Tables : (RM!Dead(t)' <=> RM!Dead(t)) /\ (RM!Stands(t)' <=> RM!Stands(t))
  BY DEF RM!Dead, RM!Stands
<1>3. \A a \in Readers, t \in RM!Tables : RM!TableFor(a, t)' <=> RM!TableFor(a, t)
  BY DEF RM!Stands, RM!TableFor
<1>4. \A a \in Readers, n \in Nodes : RM!NodeFor(a, n)' <=> RM!NodeFor(a, n)
  BY <1>1, <1>3 DEF RM!NodeFor, RM!Tables
<1> QED
  BY <1>2, <1>3, <1>4

-----------------------------------------------------------------------------
(* What the invariant says of the chains.                                  *)
Constants == RM!TablesHaveBuckets /\ RM!ConstantsApart

LEMMA ChainRanks ==
  ASSUME Constants, RM!TypeOK, RM!ChainsInv
  PROVE  \E rank \in [Nodes -> Nat] : Descends(next, rank)
<1>1. Null \notin Nodes /\ next \in [Nodes -> Nodes \cup {Null}]
  BY DEF Constants, RM!ConstantsApart, RM!TypeOK
<1> QED
  BY <1>1 DEF RM!ChainsInv, Descends

LEMMA TableNodes ==
  ASSUME Constants, RM!TypeOK, RM!ChainsInv, NEW t \in RM!Tables
  PROVE  /\ RM!NodesOf(t) \in SUBSET Nodes
         /\ ClosedIn(next, RM!NodesOf(t))
         /\ \A j \in DOMAIN buckets[t] : buckets[t][j] # Null => buckets[t][j] \in RM!NodesOf(t)
<1>1. PICK rank \in [Nodes -> Nat] : Descends(next, rank)
  BY ChainRanks
<1>2. \A j \in DOMAIN buckets[t] : buckets[t][j] \in Nodes \cup {Null}
  BY DEF RM!TypeOK
<1>3. RM!NodesOf(t) = NodesIn(next, buckets, t)
  BY Views
<1>4. ASSUME NEW j \in DOMAIN buckets[t]
      PROVE  /\ ReachIn(next, buckets[t][j]) \in SUBSET Nodes
             /\ ClosedIn(next, ReachIn(next, buckets[t][j]))
             /\ buckets[t][j] # Null => buckets[t][j] \in ReachIn(next, buckets[t][j])
  <2>1. CASE buckets[t][j] = Null
    <3>1. ReachIn(next, Null) = {}
      BY <1>1, ReachUnfolds DEF Descends
    <3> QED
      BY <2>1, <3>1 DEF ClosedIn
  <2>2. CASE buckets[t][j] # Null
    <3>1. buckets[t][j] \in Nodes
      BY <1>2, <2>2
    <3> QED
      BY <1>1, <3>1, ReachClosed
  <2> QED
    BY <2>1, <2>2
<1>5. NodesIn(next, buckets, t) \in SUBSET Nodes
  BY <1>4 DEF NodesIn
<1>6. ClosedIn(next, NodesIn(next, buckets, t))
  BY <1>4 DEF NodesIn, ClosedIn
<1>7. \A j \in DOMAIN buckets[t] : buckets[t][j] # Null => buckets[t][j] \in NodesIn(next, buckets, t)
  BY <1>4 DEF NodesIn
<1> QED
  BY <1>3, <1>5, <1>6, <1>7

LEMMA BucketInTable ==
  ASSUME Constants, RM!TypeOK, NEW k \in Keys, NEW t \in RM!Tables
  PROVE  RM!Bucket(k, t) \in 0 .. RM!SizeOf(t) - 1 /\ RM!Bucket(k, t) \in DOMAIN buckets[t]
<1>1. RM!SizeOf(t) \in Nat \ {0} /\ hash_fn_[k] \in Nat
  BY DEF Constants, RM!TablesHaveBuckets, RM!TypeOK
<1> HIDE DEF RM!SizeOf
<1>2. hash_fn_[k] % RM!SizeOf(t) \in 0 .. RM!SizeOf(t) - 1
  BY <1>1
<1>3. DOMAIN buckets[t] = 0 .. RM!SizeOf(t) - 1
  BY DEF RM!TypeOK
<1> QED
  BY <1>2, <1>3 DEF RM!Bucket

(* Where a reader may go, it may go on.                                    *)
LEMMA ProtectionCloses ==
  ASSUME Constants, RM!StructureInv, NEW rd \in RM!InCriticalSection, NEW n \in Nodes,
         RM!NodeFor(rd, n), next[n] # Null
  PROVE  next[n] \in Nodes /\ RM!NodeFor(rd, next[n])
<1> USE DEF RM!StructureInv
<1>1. next[n] \in Nodes
  BY DEF RM!TypeOK
<1>2. table_ # RM!NoTable
  BY DEF RM!WriterInv
<1>3. CASE n = unlinked
  <2>1. unlinked # Null
    BY <1>3 DEF Constants, RM!ConstantsApart
  <2>2. next[n] \in RM!NodesOf(table_)
    BY <1>3, <2>1 DEF RM!WriterInv
  <2>3. table_ \in RM!Tables
    BY <1>2 DEF RM!TypeOK
  <2>4. RM!TableFor(rd, table_)
    BY DEF RM!TableFor, RM!Stands
  <2> QED
    BY <1>1, <2>2, <2>3, <2>4 DEF RM!NodeFor
<1>4. CASE \E x \in retired : x[1] = n /\ rd \in x[2]
  <2>1. PICK x \in retired : x[1] = n /\ rd \in x[2]
    BY <1>4
  <2> QED
    BY <1>1, <2>1 DEF RM!ProtectedInv
<1>5. CASE \E t \in RM!Tables : RM!TableFor(rd, t) /\ n \in RM!NodesOf(t)
  <2>1. PICK t \in RM!Tables : RM!TableFor(rd, t) /\ n \in RM!NodesOf(t)
    BY <1>5
  <2>2. ClosedIn(next, RM!NodesOf(t))
    BY TableNodes
  <2>3. next[n] \in RM!NodesOf(t)
    BY <2>1, <2>2 DEF ClosedIn
  <2> QED
    BY <1>1, <2>1, <2>3 DEF RM!NodeFor
<1> QED
  BY <1>3, <1>4, <1>5 DEF RM!NodeFor

(* Only readers in their critical sections are waited for.                 *)
LEMMA RetiredTyped ==
  ASSUME RM!TypeOK, NEW x \in retired
  PROVE  /\ x = <<x[1], x[2]>> /\ x[1] \in Nodes \cup RM!Tables
         /\ x[2] \subseteq pinned /\ x[2] \subseteq RM!InCriticalSection /\ x[2] \subseteq Readers
<1>1. x \in (Nodes \cup RM!Tables) \X SUBSET pinned /\ pinned \subseteq RM!InCriticalSection
  BY DEF RM!TypeOK
<1>2. RM!InCriticalSection \subseteq Readers
  BY DEF RM!InCriticalSection
<1> QED
  BY <1>1, <1>2

(* The table that readers load is one.                                     *)
LEMMA VisibleIsTable ==
  ASSUME Constants, RM!VisibleInv, table_ \in RM!Tables
  PROVE  visible \in RM!Tables /\ visible # RM!NoTable
  BY DEF Constants, RM!TablesHaveBuckets, RM!VisibleInv, RM!Tables, RM!NoTable

(* A step of a reader that leaves the map as it is.                        *)
LEMMA ReadersWalk ==
  ASSUME Constants, RM!StructureInv, RM!VisibleInv, UNCHANGED hash_fn_, NEW rd \in Readers,
         RM!LoadTable(rd) \/ RM!LoadBucket(rd) \/ RM!Visit(rd) \/ (\E k \in Keys : RM!Get(rd, k))
  PROVE  RM!StructureInv'
<1> USE DEF RM!StructureInv
<1>1. UNCHANGED <<hash_fn_, table_, buckets, key, value, next, allocated, count_, retired,
                  visible, pinned, wpc, wkey, wvalue, unlinked>>
  BY DEF RM!LoadTable, RM!LoadBucket, RM!Visit, RM!Get, RM!nodes, RM!writer, RM!periods
<1>2. /\ \A a \in Readers, t \in RM!Tables : RM!TableFor(a, t)' <=> RM!TableFor(a, t)
      /\ \A a \in Readers, n \in Nodes : RM!NodeFor(a, n)' <=> RM!NodeFor(a, n)
      /\ \A t \in RM!Tables : (RM!Dead(t)' <=> RM!Dead(t)) /\ (RM!Stands(t)' <=> RM!Stands(t))
  BY <1>1, SameProtection
<1>3. \A t \in RM!Tables : RM!NodesOf(t)' = RM!NodesOf(t)
  BY <1>1, SameNodes
<1>4. RM!ChainsInv'
  BY <1>1, SameChains
<1>5. RM!PlacesInv'
  BY <1>1, SamePlaces
<1>6. /\ rpc \in [Readers -> {"idle", "table", "bucket", "node", "leave"}]
      /\ rkey \in [Readers -> Keys \cup {None}]
      /\ rtable \in [Readers -> RM!Tables \cup {RM!NoTable}]
      /\ current \in [Readers -> Nodes \cup {Null}]
      /\ table_ \in RM!Tables \cup {RM!NoTable}
  BY DEF RM!TypeOK
<1>7. /\ \A a \in Readers \ {rd} : /\ rpc'[a] = rpc[a] /\ rkey'[a] = rkey[a]
                                   /\ rtable'[a] = rtable[a] /\ current'[a] = current[a]
      /\ rpc' \in [Readers -> {"idle", "table", "bucket", "node", "leave"}]
  BY <1>6 DEF RM!LoadTable, RM!LoadBucket, RM!Visit, RM!Get, RM!Finish
<1>8. table_ # RM!NoTable /\ table_ \in RM!Tables
  <2>1. CASE \E k \in Keys : RM!Get(rd, k)
    BY <1>6, <2>1 DEF RM!Get
  <2>2. CASE RM!LoadTable(rd) \/ RM!LoadBucket(rd) \/ RM!Visit(rd)
    <3>1. rd \in RM!InCriticalSection
      BY <2>2 DEF RM!InCriticalSection, RM!LoadTable, RM!LoadBucket, RM!Visit
    <3> QED
      BY <1>6, <3>1 DEF RM!WriterInv
  <2> QED
    BY <2>1, <2>2
<1>9. RM!InCriticalSection \subseteq RM!InCriticalSection'
  <2>1. rpc'[rd] # "idle"
    BY <1>6 DEF RM!LoadTable, RM!LoadBucket, RM!Visit, RM!Get, RM!Finish
  <2> QED
    BY <1>7, <2>1 DEF RM!InCriticalSection
<1> DEFINE ReaderOK(pc, ky, tb, at) ==
             /\ ky \in Keys \cup {None} /\ tb \in RM!Tables \cup {RM!NoTable} /\ at \in Nodes \cup {Null}
             /\ pc \in {"idle", "table", "leave"} => tb = RM!NoTable /\ at = Null
             /\ pc \in {"bucket", "node"} => tb # RM!NoTable
             /\ pc \in {"table", "bucket", "node"} => ky \in Keys
             /\ tb # RM!NoTable => RM!TableFor(rd, tb)
             /\ at # Null => RM!NodeFor(rd, at)
<1>10. ReaderOK(rpc[rd], rkey[rd], rtable[rd], current[rd])
  BY <1>6 DEF RM!ProtectedInv
<1>11. ReaderOK(rpc'[rd], rkey'[rd], rtable'[rd], current'[rd])
  <2>1. CASE \E k \in Keys : RM!Get(rd, k)
    BY <1>6, <1>10, <2>1 DEF RM!Get
  <2>2. CASE RM!LoadTable(rd)
    <3>1. RM!TableFor(rd, visible)
      BY <2>2 DEF RM!LoadTable
    <3>2. visible \in RM!Tables /\ visible # RM!NoTable
      BY <1>8, VisibleIsTable
    <3> QED
      BY <1>6, <1>10, <2>2, <3>1, <3>2 DEF RM!LoadTable
  <2>3. CASE RM!LoadBucket(rd)
    <3> DEFINE t == rtable[rd]
               n == buckets[t][RM!Bucket(rkey[rd], t)]
    <3>1. t \in RM!Tables /\ rkey[rd] \in Keys /\ RM!TableFor(rd, t)
      BY <1>10, <2>3 DEF RM!LoadBucket
    <3>2. RM!Bucket(rkey[rd], t) \in 0 .. RM!SizeOf(t) - 1 /\ RM!Bucket(rkey[rd], t) \in DOMAIN buckets[t]
      BY <3>1, BucketInTable
    <3>3. n \in Nodes \cup {Null}
      BY <3>1, <3>2 DEF RM!TypeOK
    <3>4. n # Null => n \in RM!NodesOf(t)
      BY <3>1, <3>2, TableNodes
    <3>5. n # Null => RM!NodeFor(rd, n)
      BY <3>1, <3>4 DEF RM!NodeFor
    <3>6. rpc'[rd] = "node" /\ rkey'[rd] = rkey[rd] /\ rtable'[rd] = t /\ current'[rd] = n
      BY <1>6, <2>3 DEF RM!LoadBucket
    <3> HIDE DEF n
    <3>7. rkey'[rd] \in Keys
      BY <3>1, <3>6
    <3>8. rtable'[rd] # RM!NoTable
      BY <1>10, <2>3, <3>6 DEF RM!LoadBucket
    <3> QED
      BY <3>1, <3>3, <3>5, <3>6, <3>7, <3>8
  <2>4. CASE RM!Visit(rd)
    <3>1. CASE current[rd] # Null /\ key[current[rd]] # rkey[rd]
      <4>1. current'[rd] = next[current[rd]] /\ rpc'[rd] = rpc[rd] /\ rkey'[rd] = rkey[rd] /\ rtable'[rd] = rtable[rd]
        BY <1>6, <2>4, <3>1 DEF RM!Visit
      <4>2. rd \in RM!InCriticalSection
        BY <2>4 DEF RM!Visit, RM!InCriticalSection
      <4>3. current[rd] \in Nodes /\ RM!NodeFor(rd, current[rd]) /\ next[current[rd]] \in Nodes \cup {Null}
        BY <1>10, <3>1 DEF RM!TypeOK
      <4>4. next[current[rd]] # Null => RM!NodeFor(rd, next[current[rd]])
        BY <4>2, <4>3, ProtectionCloses
      <4>5. rpc[rd] = "node"
        BY <2>4 DEF RM!Visit
      <4> QED
        BY <1>10, <4>1, <4>3, <4>4, <4>5
    <3>2. CASE ~(current[rd] # Null /\ key[current[rd]] # rkey[rd])
      <4>1. rpc'[rd] = "leave" /\ rkey'[rd] = None /\ current'[rd] = Null /\ rtable'[rd] = RM!NoTable
        BY <1>6, <2>4, <3>2 DEF RM!Visit, RM!Finish
      <4> QED
        BY <1>10, <4>1
    <3> QED
      BY <3>1, <3>2
  <2> QED
    BY <2>1, <2>2, <2>3, <2>4
<1>12. /\ rkey' \in [Readers -> Keys \cup {None}]
       /\ rtable' \in [Readers -> RM!Tables \cup {RM!NoTable}]
       /\ current' \in [Readers -> Nodes \cup {Null}]
  <2>1. rkey' \in [Readers -> Keys \cup {None}]
    BY <1>6 DEF RM!LoadTable, RM!LoadBucket, RM!Visit, RM!Get, RM!Finish
  <2>2. rtable' \in [Readers -> RM!Tables \cup {RM!NoTable}]
    BY <1>6, <1>8, VisibleIsTable DEF RM!LoadTable, RM!LoadBucket, RM!Visit, RM!Get, RM!Finish
  <2>3. current' = [current EXCEPT ![rd] = current'[rd]]
    BY <1>6, <1>7 DEF RM!LoadTable, RM!LoadBucket, RM!Visit, RM!Get, RM!Finish
  <2>4. current'[rd] \in Nodes \cup {Null}
    BY <1>11
  <2> QED
    BY <1>6, <2>1, <2>2, <2>3, <2>4
<1>13. RM!TypeOK'
  <2>1. retired' \subseteq ((Nodes \cup RM!Tables) \X SUBSET pinned)'
    <3>1. retired \subseteq (Nodes \cup RM!Tables) \X SUBSET pinned
      BY DEF RM!TypeOK
    <3> QED
      BY <1>1, <3>1 DEF RM!Tables
  <2>2. pinned' \subseteq RM!InCriticalSection'
    BY <1>1, <1>9 DEF RM!TypeOK
  <2> QED
    BY <1>1, <1>7, <1>12, <2>1, <2>2 DEF RM!TypeOK, RM!Tables, RM!SizeOf, RM!NoTable
<1>14. RM!WriterInv'
  <2>1. RM!NoTable' = RM!NoTable /\ RM!Tables' = RM!Tables
    BY DEF RM!NoTable, RM!Tables
  <2>2. table_' # RM!NoTable'
    BY <1>1, <1>8, <2>1
  <2>3. RM!NodesOf(table_)' = RM!NodesOf(table_)
    <3>1. RM!NodesOf(table_)' = NodesIn(next', buckets', table_')
      BY DEF RM!NodesOf, RM!Reach, NodesIn, ReachIn
    <3>2. RM!NodesOf(table_) = NodesIn(next, buckets, table_)
      BY Views
    <3> QED
      BY <1>1, <3>1, <3>2
  <2>4. (unlinked # Null => next[unlinked] \in RM!NodesOf(table_) \cup {Null})'
    BY <1>1, <2>3 DEF RM!WriterInv
  <2>5. (\A x \in retired : x[1] \in RM!Tables /\ table_ # RM!NoTable => x[1] < table_ /\ ~RM!Stands(x[1]))'
    BY <1>1, <1>2, <2>1 DEF RM!WriterInv
  <2>6. (\A t \in RM!Tables : RM!Dead(t) => \A j \in DOMAIN buckets[t] : buckets[t][j] = Null)'
    BY <1>1, <1>2, <2>1 DEF RM!WriterInv
  <2>7. (wpc = "retireTable" => table_ # 0)' /\ ((unlinked # Null) <=> (wpc \in {"uncount", "retire"}))'
    BY <1>1 DEF RM!WriterInv
  <2> QED
    BY <2>2, <2>4, <2>5, <2>6, <2>7 DEF RM!WriterInv
<1>15. RM!ProtectedInv'
  <2>1. ASSUME NEW a \in Readers
        PROVE  (/\ rpc[a] \in {"idle", "table", "leave"} => rtable[a] = RM!NoTable /\ current[a] = Null
                /\ rpc[a] \in {"bucket", "node"} => rtable[a] # RM!NoTable
                /\ rpc[a] \in {"table", "bucket", "node"} => rkey[a] \in Keys)'
    <3>1. CASE a = rd
      BY <1>11, <3>1 DEF RM!NoTable
    <3>2. CASE a # rd
      BY <1>7, <3>2 DEF RM!ProtectedInv, RM!NoTable
    <3> QED
      BY <3>1, <3>2
  <2>2. ASSUME NEW a \in Readers, rtable'[a] # RM!NoTable PROVE RM!TableFor(a, rtable[a])'
    <3>1. rtable'[a] \in RM!Tables
      BY <1>12, <2>2
    <3>2. RM!TableFor(a, rtable'[a])
      <4>1. CASE a = rd
        BY <1>11, <2>2, <4>1
      <4>2. CASE a # rd
        BY <1>7, <2>2, <4>2 DEF RM!ProtectedInv
      <4> QED
        BY <4>1, <4>2
    <3> QED
      BY <1>1, <3>2 DEF RM!TableFor, RM!Stands
  <2>3. ASSUME NEW a \in Readers, current'[a] # Null PROVE RM!NodeFor(a, current[a])'
    <3>1. current'[a] \in Nodes
      BY <1>12, <2>3
    <3>2. RM!NodeFor(a, current'[a])
      <4>1. CASE a = rd
        BY <1>11, <2>3, <4>1
      <4>2. CASE a # rd
        BY <1>7, <2>3, <4>2 DEF RM!ProtectedInv
      <4> QED
        BY <4>1, <4>2
    <3> QED
      BY <1>1, <1>2, <1>3, <3>2 DEF RM!NodeFor, RM!Tables
  <2>4. ASSUME NEW x \in retired', x[1] \in Nodes, next'[x[1]] # Null, NEW a \in x[2]
        PROVE  RM!NodeFor(a, next[x[1]])'
    <3>1. x \in retired /\ next[x[1]] # Null /\ RM!NodeFor(a, next[x[1]])
      BY <1>1, <2>4 DEF RM!ProtectedInv
    <3>2. a \in Readers /\ next[x[1]] \in Nodes
      BY <2>4, <3>1, RetiredTyped DEF RM!TypeOK
    <3> QED
      BY <1>1, <1>2, <1>3, <3>1, <3>2 DEF RM!NodeFor, RM!Tables
  <2> QED
    BY <2>1, <2>2, <2>3, <2>4 DEF RM!ProtectedInv, RM!NoTable
<1> QED
  BY <1>4, <1>5, <1>13, <1>14, <1>15

-----------------------------------------------------------------------------
(* A reader that leaves, or has lost its protection, is waited for no       *)
(* longer.                                                                 *)
LEMMA ReaderLeaves ==
  ASSUME Constants, RM!StructureInv, UNCHANGED hash_fn_, NEW rd \in Readers,
         RM!Leave(rd) \/ RM!LoadRetired(rd)
  PROVE  RM!StructureInv'
<1> USE DEF RM!StructureInv
<1>1. UNCHANGED <<hash_fn_, table_, buckets, key, value, next, allocated, count_,
                  visible, wpc, wkey, wvalue, unlinked>>
  BY DEF RM!Leave, RM!LoadRetired, RM!nodes, RM!writer
<1>2. retired' = {<<x[1], x[2] \ {rd}>> : x \in retired} /\ pinned' = pinned \ {rd}
  BY DEF RM!Leave, RM!LoadRetired, RM!G!Leave
<1>3. ASSUME NEW y \in retired'
      PROVE  \E x \in retired : y[1] = x[1] /\ y[2] = x[2] \ {rd} /\ y = <<x[1], x[2] \ {rd}>>
  BY <1>2
<1>4. ASSUME NEW x \in retired
      PROVE  \E y \in retired' : y[1] = x[1] /\ y[2] = x[2] \ {rd}
  <2>1. <<x[1], x[2] \ {rd}>> \in retired'
    BY <1>2
  <2> QED
    BY <2>1
<1>5. /\ rpc \in [Readers -> {"idle", "table", "bucket", "node", "leave"}]
      /\ rkey \in [Readers -> Keys \cup {None}]
      /\ rtable \in [Readers -> RM!Tables \cup {RM!NoTable}]
      /\ current \in [Readers -> Nodes \cup {Null}]
      /\ table_ \in RM!Tables \cup {RM!NoTable}
  BY DEF RM!TypeOK
<1>6. /\ \A a \in Readers \ {rd} : /\ rpc'[a] = rpc[a] /\ rkey'[a] = rkey[a]
                                   /\ rtable'[a] = rtable[a] /\ current'[a] = current[a]
      /\ rpc'[rd] = "idle" /\ rtable'[rd] = RM!NoTable /\ current'[rd] = Null
      /\ rpc' \in [Readers -> {"idle", "table", "bucket", "node", "leave"}]
      /\ rkey' \in [Readers -> Keys \cup {None}]
      /\ rtable' \in [Readers -> RM!Tables \cup {RM!NoTable}]
      /\ current' \in [Readers -> Nodes \cup {Null}]
  <2>1. CASE RM!Leave(rd)
    BY <1>5, <2>1 DEF RM!Leave, RM!ProtectedInv
  <2>2. CASE RM!LoadRetired(rd)
    BY <1>5, <2>2 DEF RM!LoadRetired, RM!Abandon
  <2> QED
    BY <2>1, <2>2
<1>7. RM!InCriticalSection' = RM!InCriticalSection \ {rd}
  BY <1>6 DEF RM!InCriticalSection
<1>8. \A t \in RM!Tables : RM!NodesOf(t)' = RM!NodesOf(t)
  BY <1>1, SameNodes
<1>9. {x[1] : x \in retired'} = {x[1] : x \in retired}
  BY <1>3, <1>4
<1>10. /\ \A t \in RM!Tables : (RM!Dead(t)' <=> RM!Dead(t)) /\ (RM!Stands(t)' <=> RM!Stands(t))
       /\ \A n : RM!RetiredNode(n)' <=> RM!RetiredNode(n)
  <2>1. \A n : RM!RetiredNode(n)' <=> RM!RetiredNode(n)
    BY <1>3, <1>4 DEF RM!RetiredNode
  <2>2. \A t \in RM!Tables : RM!Dead(t)' <=> RM!Dead(t)
    BY <1>1, <1>9 DEF RM!Dead
  <2>3. \A t \in RM!Tables : RM!Stands(t)' <=> RM!Stands(t)
    BY <1>1 DEF RM!Stands
  <2> QED
    BY <2>1, <2>2, <2>3
<1>11. \A a \in Readers \ {rd}, t \in RM!Tables : RM!TableFor(a, t) => RM!TableFor(a, t)'
  <2> SUFFICES ASSUME NEW a \in Readers \ {rd}, NEW t \in RM!Tables, RM!TableFor(a, t)
               PROVE  RM!TableFor(a, t)'
    OBVIOUS
  <2>1. CASE RM!Stands(t)
    BY <1>10, <2>1 DEF RM!TableFor
  <2>2. CASE \E x \in retired : x[1] = t /\ a \in x[2]
    <3>1. \E x \in retired' : x[1] = t /\ a \in x[2]
      BY <1>4, <2>2
    <3> QED
      BY <3>1 DEF RM!TableFor
  <2> QED
    BY <2>1, <2>2 DEF RM!TableFor
<1>12. \A a \in Readers \ {rd}, n \in Nodes : RM!NodeFor(a, n) => RM!NodeFor(a, n)'
  <2> SUFFICES ASSUME NEW a \in Readers \ {rd}, NEW n \in Nodes, RM!NodeFor(a, n)
               PROVE  RM!NodeFor(a, n)'
    OBVIOUS
  <2>1. CASE n = unlinked
    BY <1>1, <2>1 DEF RM!NodeFor
  <2>2. CASE \E x \in retired : x[1] = n /\ a \in x[2]
    <3>1. \E x \in retired' : x[1] = n /\ a \in x[2]
      BY <1>4, <2>2
    <3> QED
      BY <3>1 DEF RM!NodeFor
  <2>3. CASE \E t \in RM!Tables : RM!TableFor(a, t) /\ n \in RM!NodesOf(t)
    <3>1. PICK t \in RM!Tables : RM!TableFor(a, t) /\ n \in RM!NodesOf(t)
      BY <2>3
    <3>2. RM!TableFor(a, t)' /\ n \in RM!NodesOf(t)'
      BY <1>8, <1>11, <3>1
    <3> QED
      BY <3>2 DEF RM!NodeFor, RM!Tables
  <2> QED
    BY <2>1, <2>2, <2>3 DEF RM!NodeFor
<1>13. RM!Tables' = RM!Tables /\ RM!NoTable' = RM!NoTable
  BY DEF RM!Tables, RM!NoTable
<1>14. RM!TypeOK'
  <2>1. retired' \subseteq ((Nodes \cup RM!Tables) \X SUBSET pinned)'
    <3> SUFFICES ASSUME NEW y \in retired'
                 PROVE  y \in (Nodes \cup RM!Tables) \X SUBSET (pinned \ {rd})
      BY <1>2, <1>13
    <3>1. PICK x \in retired : y = <<x[1], x[2] \ {rd}>>
      BY <1>3
    <3>2. x[1] \in Nodes \cup RM!Tables /\ x[2] \subseteq pinned
      BY RetiredTyped
    <3> QED
      BY <3>1, <3>2
  <2>2. pinned' \subseteq RM!InCriticalSection'
    BY <1>2, <1>7 DEF RM!TypeOK
  <2> QED
    BY <1>1, <1>6, <2>1, <2>2 DEF RM!TypeOK, RM!Tables, RM!SizeOf, RM!NoTable
<1>15. RM!WriterInv'
  <2>1. RM!NodesOf(table_)' = RM!NodesOf(table_)
    <3>1. RM!NodesOf(table_)' = NodesIn(next', buckets', table_')
      BY DEF RM!NodesOf, RM!Reach, NodesIn, ReachIn
    <3>2. RM!NodesOf(table_) = NodesIn(next, buckets, table_)
      BY Views
    <3> QED
      BY <1>1, <3>1, <3>2
  <2>2. (unlinked # Null => next[unlinked] \in RM!NodesOf(table_) \cup {Null})'
    BY <1>1, <2>1 DEF RM!WriterInv
  <2>3. (\A x \in retired : x[1] \in RM!Tables /\ table_ # RM!NoTable => x[1] < table_ /\ ~RM!Stands(x[1]))'
    <3> SUFFICES ASSUME NEW y \in retired', y[1] \in RM!Tables, table_ # RM!NoTable
                 PROVE  y[1] < table_ /\ ~RM!Stands(y[1])'
      BY <1>1, <1>13
    <3>1. PICK x \in retired : y[1] = x[1]
      BY <1>3
    <3>2. x[1] < table_ /\ ~RM!Stands(x[1])
      BY <3>1 DEF RM!WriterInv
    <3> QED
      BY <1>10, <3>1, <3>2
  <2>4. (\A t \in RM!Tables : RM!Dead(t) => \A j \in DOMAIN buckets[t] : buckets[t][j] = Null)'
    BY <1>1, <1>10, <1>13 DEF RM!WriterInv
  <2>5. (wpc = "retireTable" => table_ # 0)' /\ ((unlinked # Null) <=> (wpc \in {"uncount", "retire"}))'
    BY <1>1 DEF RM!WriterInv
  <2>6. (table_ = RM!NoTable => wpc = "idle" /\ RM!InCriticalSection = {})'
    BY <1>1, <1>7, <1>13 DEF RM!WriterInv
  <2> QED
    BY <2>2, <2>3, <2>4, <2>5, <2>6 DEF RM!WriterInv
<1>16. RM!ChainsInv'
  BY <1>1, SameChains
<1>17. RM!PlacesInv'
  <2>1. ASSUME NEW x \in retired', NEW y \in retired', x[1] = y[1] PROVE x = y
    <3>1. PICK u \in retired : x = <<u[1], u[2] \ {rd}>>
      BY <1>3
    <3>2. PICK v \in retired : y = <<v[1], v[2] \ {rd}>>
      BY <1>3
    <3>3. u = v
      BY <2>1, <3>1, <3>2 DEF RM!PlacesInv
    <3> QED
      BY <3>1, <3>2, <3>3
  <2> QED
    BY <1>1, <1>8, <1>10, <1>13, <2>1 DEF RM!PlacesInv
<1>18. RM!ProtectedInv'
  <2>1. ASSUME NEW a \in Readers
        PROVE  (/\ rpc[a] \in {"idle", "table", "leave"} => rtable[a] = RM!NoTable /\ current[a] = Null
                /\ rpc[a] \in {"bucket", "node"} => rtable[a] # RM!NoTable
                /\ rpc[a] \in {"table", "bucket", "node"} => rkey[a] \in Keys)'
    <3>1. CASE a = rd
      BY <1>6, <1>13, <3>1
    <3>2. CASE a # rd
      BY <1>1, <1>6, <1>13, <3>2 DEF RM!ProtectedInv
    <3> QED
      BY <3>1, <3>2
  <2>2. ASSUME NEW a \in Readers, rtable'[a] # RM!NoTable PROVE RM!TableFor(a, rtable[a])'
    <3>1. a # rd /\ rtable'[a] = rtable[a] /\ rtable[a] \in RM!Tables
      BY <1>5, <1>6, <2>2
    <3>2. RM!TableFor(a, rtable[a])
      BY <2>2, <3>1 DEF RM!ProtectedInv
    <3>3. PICK t \in RM!Tables : t = rtable[a] /\ t = rtable'[a]
      BY <3>1
    <3>4. RM!TableFor(a, t)'
      BY <1>11, <3>1, <3>2, <3>3
    <3> QED
      BY <3>3, <3>4 DEF RM!TableFor, RM!Stands
  <2>3. ASSUME NEW a \in Readers, current'[a] # Null PROVE RM!NodeFor(a, current[a])'
    <3>1. PICK n \in Nodes : n = current[a] /\ n = current'[a] /\ a # rd /\ n # Null
      BY <1>5, <1>6, <2>3
    <3>2. RM!NodeFor(a, n)
      BY <3>1 DEF RM!ProtectedInv
    <3>3. RM!NodeFor(a, n)'
      BY <1>12, <3>1, <3>2
    <3> QED
      BY <3>1, <3>3 DEF RM!NodeFor
  <2>4. ASSUME NEW y \in retired', y[1] \in Nodes, next'[y[1]] # Null, NEW a \in y[2]
        PROVE  RM!NodeFor(a, next[y[1]])'
    <3>1. PICK x \in retired : y[1] = x[1] /\ y[2] = x[2] \ {rd}
      BY <1>3
    <3>2. PICK n \in Nodes : n = next[x[1]] /\ n # Null
      BY <1>1, <2>4, <3>1 DEF RM!TypeOK
    <3>3. RM!NodeFor(a, n) /\ a \in Readers \ {rd}
      BY <2>4, <3>1, <3>2, RetiredTyped DEF RM!ProtectedInv
    <3>4. RM!NodeFor(a, n)'
      BY <1>12, <3>3
    <3>5. n = next'[y[1]]
      BY <1>1, <3>1, <3>2
    <3> QED
      BY <3>4, <3>5 DEF RM!NodeFor
  <2> QED
    BY <1>13, <2>1, <2>2, <2>3, <2>4 DEF RM!ProtectedInv
<1> QED
  BY <1>14, <1>15, <1>16, <1>17, <1>18

-----------------------------------------------------------------------------
(* What the writer does to the readers in their critical sections: nothing *)
(* that they may touch goes.                                               *)
ProtectionGrows ==
  /\ \A a \in RM!InCriticalSection, t \in RM!Tables : RM!TableFor(a, t) => RM!TableFor(a, t)'
  /\ \A a \in RM!InCriticalSection, n \in Nodes : RM!NodeFor(a, n) => RM!NodeFor(a, n)'
  /\ \A x \in retired' : x[1] \in Nodes /\ next'[x[1]] # Null =>
       \/ x \in retired /\ next'[x[1]] = next[x[1]]
       \/ \A a \in x[2] : RM!NodeFor(a, next[x[1]])'

LEMMA ProtectionKept ==
  ASSUME RM!TypeOK, RM!TypeOK', RM!ProtectedInv, UNCHANGED <<rpc, rkey, rtable, current>>,
         ProtectionGrows
  PROVE  RM!ProtectedInv'
<1>1. RM!Tables' = RM!Tables /\ RM!NoTable' = RM!NoTable
  BY DEF RM!Tables, RM!NoTable
<1>2. /\ rtable \in [Readers -> RM!Tables \cup {RM!NoTable}]
      /\ current \in [Readers -> Nodes \cup {Null}]
  BY DEF RM!TypeOK
<1>3. ASSUME NEW a \in Readers
      PROVE  (/\ rpc[a] \in {"idle", "table", "leave"} => rtable[a] = RM!NoTable /\ current[a] = Null
              /\ rpc[a] \in {"bucket", "node"} => rtable[a] # RM!NoTable
              /\ rpc[a] \in {"table", "bucket", "node"} => rkey[a] \in Keys)'
  BY <1>1 DEF RM!ProtectedInv
<1>4. ASSUME NEW a \in Readers, rtable'[a] # RM!NoTable PROVE RM!TableFor(a, rtable[a])'
  <2>1. PICK t \in RM!Tables : t = rtable[a] /\ t = rtable'[a]
    BY <1>2, <1>4
  <2>2. RM!TableFor(a, t) /\ a \in RM!InCriticalSection
    BY <1>4, <2>1 DEF RM!ProtectedInv, RM!InCriticalSection
  <2>3. RM!TableFor(a, t)'
    BY <2>2 DEF ProtectionGrows
  <2> QED
    BY <2>1, <2>3 DEF RM!TableFor, RM!Stands
<1>5. ASSUME NEW a \in Readers, current'[a] # Null PROVE RM!NodeFor(a, current[a])'
  <2>1. PICK n \in Nodes : n = current[a] /\ n = current'[a]
    BY <1>2, <1>5
  <2>2. RM!NodeFor(a, n) /\ a \in RM!InCriticalSection
    BY <1>5, <2>1 DEF RM!ProtectedInv, RM!InCriticalSection
  <2>3. RM!NodeFor(a, n)'
    BY <2>2 DEF ProtectionGrows
  <2> QED
    BY <2>1, <2>3 DEF RM!NodeFor
<1>6. ASSUME NEW x \in retired', x[1] \in Nodes, next'[x[1]] # Null, NEW a \in x[2]
      PROVE  RM!NodeFor(a, next[x[1]])'
  <2>1. CASE \A b \in x[2] : RM!NodeFor(b, next[x[1]])'
    BY <2>1
  <2>2. CASE x \in retired /\ next'[x[1]] = next[x[1]]
    <3>1. PICK n \in Nodes : n = next[x[1]] /\ n = next'[x[1]]
      BY <1>6, <2>2 DEF RM!TypeOK
    <3>2. RM!NodeFor(a, n) /\ a \in RM!InCriticalSection
      BY <1>6, <2>2, <3>1, RetiredTyped DEF RM!ProtectedInv
    <3>3. RM!NodeFor(a, n)'
      BY <3>2 DEF ProtectionGrows
    <3> QED
      BY <3>1, <3>3 DEF RM!NodeFor
  <2> QED
    BY <1>6, <2>1, <2>2 DEF ProtectionGrows
<1> QED
  BY <1>1, <1>3, <1>4, <1>5, <1>6 DEF RM!ProtectedInv

(* The Gets that a retirement leaves without protection are gone, none of  *)
(* which was pinned.                                                       *)
Stays(a) == rpc'[a] = rpc[a] /\ rkey'[a] = rkey[a] /\ rtable'[a] = rtable[a] /\ current'[a] = current[a]
Gone(a) == rpc'[a] = "idle" /\ rkey'[a] = None /\ rtable'[a] = RM!NoTable /\ current'[a] = Null

LEMMA Abandoned ==
  ASSUME RM!TypeOK, NEW S \in SUBSET (Readers \ pinned), RM!Abandon(S)
  PROVE  /\ \A a \in S : Gone(a)
         /\ \A a \in Readers \ S : Stays(a)
         /\ rpc' \in [Readers -> {"idle", "table", "bucket", "node", "leave"}]
         /\ rkey' \in [Readers -> Keys \cup {None}]
         /\ rtable' \in [Readers -> RM!Tables \cup {RM!NoTable}]
         /\ current' \in [Readers -> Nodes \cup {Null}]
         /\ pinned \subseteq RM!InCriticalSection'
<1>1. /\ rpc \in [Readers -> {"idle", "table", "bucket", "node", "leave"}]
      /\ rkey \in [Readers -> Keys \cup {None}]
      /\ rtable \in [Readers -> RM!Tables \cup {RM!NoTable}]
      /\ current \in [Readers -> Nodes \cup {Null}]
      /\ pinned \subseteq RM!InCriticalSection
  BY DEF RM!TypeOK
<1>2. \A a \in S : Gone(a)
  BY DEF RM!Abandon, Gone
<1>3. \A a \in Readers \ S : Stays(a)
  BY DEF RM!Abandon, Stays
<1>4. rpc' \in [Readers -> {"idle", "table", "bucket", "node", "leave"}]
  BY <1>1 DEF RM!Abandon
<1>5. rkey' \in [Readers -> Keys \cup {None}]
  BY <1>1 DEF RM!Abandon
<1>6. rtable' \in [Readers -> RM!Tables \cup {RM!NoTable}]
  BY <1>1 DEF RM!Abandon
<1>7. current' \in [Readers -> Nodes \cup {Null}]
  BY <1>1 DEF RM!Abandon
<1>8. pinned \subseteq RM!InCriticalSection'
  BY <1>1, <1>3 DEF RM!InCriticalSection, Stays
<1> QED
  BY <1>2, <1>3, <1>4, <1>5, <1>6, <1>7, <1>8

LEMMA AbandonProtects ==
  ASSUME RM!TypeOK, RM!TypeOK', RM!ProtectedInv, NEW S \in SUBSET (Readers \ pinned),
         \A a \in S : Gone(a), \A a \in Readers \ S : Stays(a),
         \A a \in Readers \ S, t \in RM!Tables : rtable[a] = t => RM!TableFor(a, t)',
         \A a \in Readers \ S, n \in Nodes : current[a] = n => RM!NodeFor(a, n)',
         \A a \in pinned, n \in Nodes : RM!NodeFor(a, n) => RM!NodeFor(a, n)',
         \A x \in retired' : x[1] \in Nodes /\ next'[x[1]] # Null =>
            \/ x \in retired /\ next'[x[1]] = next[x[1]]
            \/ \A a \in x[2] : RM!NodeFor(a, next[x[1]])'
  PROVE  RM!ProtectedInv'
<1>1. RM!Tables' = RM!Tables /\ RM!NoTable' = RM!NoTable
  BY DEF RM!Tables, RM!NoTable
<1>2. /\ rtable \in [Readers -> RM!Tables \cup {RM!NoTable}]
      /\ current \in [Readers -> Nodes \cup {Null}]
  BY DEF RM!TypeOK
<1>3. ASSUME NEW a \in Readers
      PROVE  (/\ rpc[a] \in {"idle", "table", "leave"} => rtable[a] = RM!NoTable /\ current[a] = Null
              /\ rpc[a] \in {"bucket", "node"} => rtable[a] # RM!NoTable
              /\ rpc[a] \in {"table", "bucket", "node"} => rkey[a] \in Keys)'
  BY <1>1 DEF RM!ProtectedInv, Stays, Gone
<1>4. ASSUME NEW a \in Readers, rtable'[a] # RM!NoTable PROVE RM!TableFor(a, rtable[a])'
  <2>1. a \in Readers \ S /\ rtable'[a] = rtable[a]
    BY <1>4 DEF Stays, Gone
  <2>2. PICK t \in RM!Tables : t = rtable[a] /\ t = rtable'[a]
    BY <1>2, <1>4, <2>1
  <2>3. RM!TableFor(a, t)'
    BY <2>1, <2>2
  <2> QED
    BY <2>2, <2>3 DEF RM!TableFor, RM!Stands
<1>5. ASSUME NEW a \in Readers, current'[a] # Null PROVE RM!NodeFor(a, current[a])'
  <2>1. a \in Readers \ S /\ current'[a] = current[a]
    BY <1>5 DEF Stays, Gone
  <2>2. PICK n \in Nodes : n = current[a] /\ n = current'[a]
    BY <1>2, <1>5, <2>1
  <2>3. RM!NodeFor(a, n)'
    BY <2>1, <2>2
  <2> QED
    BY <2>2, <2>3 DEF RM!NodeFor
<1>6. ASSUME NEW x \in retired', x[1] \in Nodes, next'[x[1]] # Null, NEW a \in x[2]
      PROVE  RM!NodeFor(a, next[x[1]])'
  <2>1. CASE \A b \in x[2] : RM!NodeFor(b, next[x[1]])'
    BY <2>1
  <2>2. CASE x \in retired /\ next'[x[1]] = next[x[1]]
    <3>1. PICK n \in Nodes : n = next[x[1]] /\ n = next'[x[1]]
      BY <1>6, <2>2 DEF RM!TypeOK
    <3>2. RM!NodeFor(a, n) /\ a \in pinned
      BY <1>6, <2>2, <3>1, RetiredTyped DEF RM!ProtectedInv
    <3>3. RM!NodeFor(a, n)'
      BY <3>2
    <3> QED
      BY <3>1, <3>3 DEF RM!NodeFor
  <2> QED
    BY <1>6, <2>1, <2>2
<1> QED
  BY <1>1, <1>3, <1>4, <1>5, <1>6 DEF RM!ProtectedInv

LEMMA SameTableNodes ==
  ASSUME UNCHANGED <<table_, buckets, next>>
  PROVE  RM!NodesOf(table_)' = RM!NodesOf(table_)
<1>1. RM!NodesOf(table_)' = NodesIn(next', buckets', table_')
  BY DEF RM!NodesOf, RM!Reach, NodesIn, ReachIn
<1>2. RM!NodesOf(table_) = NodesIn(next, buckets, table_)
  BY Views
<1> QED
  BY <1>1, <1>2

LEMMA WriterCounts ==
  ASSUME Constants, RM!StructureInv, UNCHANGED hash_fn_, RM!Count \/ RM!Uncount
  PROVE  RM!StructureInv'
<1> USE DEF RM!StructureInv
<1>1. /\ UNCHANGED <<hash_fn_, table_, buckets, key, value, next, allocated, retired,
                     visible, pinned, wkey, wvalue, unlinked, rpc, rkey, rtable, current>>
      /\ (wpc = "count" /\ wpc' = "idle") \/ (wpc = "uncount" /\ wpc' = "retire")
      /\ count_' = count_ + 1 \/ count_' = count_ - 1
  BY DEF RM!Count, RM!Uncount, RM!nodes, RM!readers, RM!periods
<1>2. RM!Tables' = RM!Tables /\ RM!NoTable' = RM!NoTable /\ RM!InCriticalSection' = RM!InCriticalSection
  BY <1>1 DEF RM!Tables, RM!NoTable, RM!InCriticalSection
<1>3. /\ \A a \in Readers, t \in RM!Tables : RM!TableFor(a, t)' <=> RM!TableFor(a, t)
      /\ \A a \in Readers, n \in Nodes : RM!NodeFor(a, n)' <=> RM!NodeFor(a, n)
      /\ \A t \in RM!Tables : (RM!Dead(t)' <=> RM!Dead(t)) /\ (RM!Stands(t)' <=> RM!Stands(t))
  BY <1>1, SameProtection
<1>4. RM!TypeOK'
  <2>1. count_' \in Int
    BY <1>1 DEF RM!TypeOK
  <2> QED
    BY <1>1, <1>2, <2>1 DEF RM!TypeOK, RM!Tables, RM!SizeOf, RM!NoTable
<1>5. RM!WriterInv'
  <2>1. RM!NodesOf(table_)' = RM!NodesOf(table_)
    BY <1>1, SameTableNodes
  <2>2. (unlinked # Null => next[unlinked] \in RM!NodesOf(table_) \cup {Null})'
    BY <1>1, <2>1 DEF RM!WriterInv
  <2>3. (\A x \in retired : x[1] \in RM!Tables /\ table_ # RM!NoTable => x[1] < table_ /\ ~RM!Stands(x[1]))'
    BY <1>1, <1>2, <1>3 DEF RM!WriterInv
  <2>4. (\A t \in RM!Tables : RM!Dead(t) => \A j \in DOMAIN buckets[t] : buckets[t][j] = Null)'
    BY <1>1, <1>2, <1>3 DEF RM!WriterInv
  <2>5. (table_ # RM!NoTable)' /\ (wpc = "retireTable" => table_ # 0)'
        /\ ((unlinked # Null) <=> (wpc \in {"uncount", "retire"}))'
    BY <1>1, <1>2 DEF RM!WriterInv
  <2> QED
    BY <2>2, <2>3, <2>4, <2>5 DEF RM!WriterInv
<1>6. ProtectionGrows
  BY <1>1, <1>3 DEF ProtectionGrows, RM!InCriticalSection
<1>7. RM!ProtectedInv'
  BY <1>1, <1>4, <1>6, ProtectionKept
<1>8. RM!ChainsInv' /\ RM!PlacesInv'
  BY <1>1, SameChains, SamePlaces
<1> QED
  BY <1>4, <1>5, <1>7, <1>8

(* A pin, or the new table, becomes visible.                               *)
LEMMA BecomesVisible ==
  ASSUME Constants, RM!StructureInv, RM!VisibleInv, UNCHANGED hash_fn_,
         RM!Publish \/ (\E a \in Readers : RM!Pin(a))
  PROVE  RM!StructureInv'
<1> USE DEF RM!StructureInv
<1>1. /\ UNCHANGED <<hash_fn_, table_, buckets, key, value, next, allocated, retired, count_,
                     wpc, wkey, wvalue, unlinked, rpc, rkey, rtable, current>>
      /\ visible' \in {visible, table_}
      /\ pinned \subseteq pinned' /\ pinned' \subseteq RM!InCriticalSection
  BY DEF RM!Publish, RM!Pin, RM!nodes, RM!readers, RM!writer, RM!periods, RM!G!Enter,
         RM!TypeOK, RM!InCriticalSection
<1>2. RM!Tables' = RM!Tables /\ RM!NoTable' = RM!NoTable /\ RM!InCriticalSection' = RM!InCriticalSection
  BY <1>1 DEF RM!Tables, RM!NoTable, RM!InCriticalSection
<1>3. /\ \A a \in Readers, t \in RM!Tables : RM!TableFor(a, t)' <=> RM!TableFor(a, t)
      /\ \A a \in Readers, n \in Nodes : RM!NodeFor(a, n)' <=> RM!NodeFor(a, n)
      /\ \A t \in RM!Tables : (RM!Dead(t)' <=> RM!Dead(t)) /\ (RM!Stands(t)' <=> RM!Stands(t))
  BY <1>1, SameProtection
<1>4. RM!TypeOK'
  <2>1. (visible \in RM!Tables \cup {RM!NoTable})'
    BY <1>1, <1>2 DEF RM!TypeOK
  <2>2. (retired \subseteq (Nodes \cup RM!Tables) \X SUBSET pinned)'
    <3>1. \A x \in retired' : x \in (Nodes \cup RM!Tables) \X SUBSET pinned'
      BY <1>1, RetiredTyped
    <3> QED
      BY <1>2, <3>1
  <2> QED
    BY <1>1, <1>2, <2>1, <2>2 DEF RM!TypeOK, RM!Tables, RM!SizeOf, RM!NoTable
<1>5. RM!WriterInv'
  <2>1. RM!NodesOf(table_)' = RM!NodesOf(table_)
    BY <1>1, SameTableNodes
  <2>2. (unlinked # Null => next[unlinked] \in RM!NodesOf(table_) \cup {Null})'
    BY <1>1, <2>1 DEF RM!WriterInv
  <2>3. (\A x \in retired : x[1] \in RM!Tables /\ table_ # RM!NoTable => x[1] < table_ /\ ~RM!Stands(x[1]))'
    BY <1>1, <1>2, <1>3 DEF RM!WriterInv
  <2>4. (\A t \in RM!Tables : RM!Dead(t) => \A j \in DOMAIN buckets[t] : buckets[t][j] = Null)'
    BY <1>1, <1>2, <1>3 DEF RM!WriterInv
  <2>5. (/\ table_ = RM!NoTable => wpc = "idle" /\ RM!InCriticalSection = {}
         /\ wpc = "retireTable" => table_ # 0
         /\ (unlinked # Null) <=> (wpc \in {"uncount", "retire"}))'
    BY <1>1, <1>2 DEF RM!WriterInv
  <2> QED
    BY <2>2, <2>3, <2>4, <2>5 DEF RM!WriterInv
<1>6. ProtectionGrows
  BY <1>1, <1>3 DEF ProtectionGrows, RM!InCriticalSection
<1>7. RM!ProtectedInv'
  BY <1>1, <1>4, <1>6, ProtectionKept
<1>8. RM!ChainsInv' /\ RM!PlacesInv'
  BY <1>1, SameChains, SamePlaces
<1> QED
  BY <1>4, <1>5, <1>7, <1>8

LEMMA WriterRetiresTable ==
  ASSUME Constants, RM!StructureInv, UNCHANGED hash_fn_, RM!RetireTable
  PROVE  RM!StructureInv'
<1> USE DEF RM!StructureInv
<1> DEFINE gone == table_ - 1
           new == <<gone, pinned>>
           S == {a \in Readers \ pinned : RM!UsesTable(a, gone)}
<1>1. /\ UNCHANGED <<hash_fn_, table_, buckets, key, value, next, allocated, count_,
                     visible, pinned, wkey, wvalue, unlinked>>
      /\ wpc = "retireTable" /\ wpc' = "splice" /\ retired' = retired \cup {new}
      /\ S \in SUBSET (Readers \ pinned) /\ RM!Abandon(S)
  BY DEF RM!RetireTable, RM!nodes, RM!G!Retire
<1>20. /\ \A a \in S : Gone(a)
       /\ \A a \in Readers \ S : Stays(a)
       /\ rpc' \in [Readers -> {"idle", "table", "bucket", "node", "leave"}]
       /\ rkey' \in [Readers -> Keys \cup {None}]
       /\ rtable' \in [Readers -> RM!Tables \cup {RM!NoTable}]
       /\ current' \in [Readers -> Nodes \cup {Null}]
       /\ pinned \subseteq RM!InCriticalSection'
  BY <1>1, Abandoned
<1>2. RM!Tables' = RM!Tables /\ RM!NoTable' = RM!NoTable
  BY <1>1 DEF RM!Tables, RM!NoTable
<1>3. table_ \in RM!Tables /\ gone \in RM!Tables /\ gone < table_ /\ table_ # RM!NoTable
  <2>1. table_ # RM!NoTable /\ table_ # 0 /\ table_ \in RM!Tables \cup {RM!NoTable}
    BY <1>1 DEF RM!WriterInv, RM!TypeOK
  <2>2. Doublings \in Nat
    BY DEF Constants, RM!TablesHaveBuckets
  <2> QED
    BY <2>1, <2>2 DEF RM!Tables
<1>4. /\ new[1] = gone /\ new[2] = pinned /\ new \in retired'
      /\ \A x \in retired' : x \in retired \/ x = new
      /\ \A x \in retired : x \in retired'
      /\ new \in (Nodes \cup RM!Tables) \X SUBSET pinned
  BY <1>1, <1>3
<1> HIDE DEF new
<1>5. \A x \in retired : x[1] # gone
  BY <1>1, <1>3 DEF RM!WriterInv, RM!Stands
<1>6. \A t \in RM!Tables : RM!NodesOf(t)' = RM!NodesOf(t)
  BY <1>1, SameNodes
<1>7. \A t \in RM!Tables : RM!Stands(t)' <=> t = table_
  BY <1>1 DEF RM!Stands
<1>8. \A t \in RM!Tables : RM!Dead(t)' => RM!Dead(t)
  <2> SUFFICES ASSUME NEW t \in RM!Tables, RM!Dead(t)' PROVE RM!Dead(t)
    OBVIOUS
  <2>1. t # table_ /\ \A x \in retired' : x[1] # t
    BY <1>1 DEF RM!Dead
  <2> QED
    BY <1>4, <2>1 DEF RM!Dead
<1>9. gone \notin Nodes /\ gone # unlinked /\ unlinked = Null
  BY <1>1, <1>3 DEF Constants, RM!ConstantsApart, RM!WriterInv
<1>10. \A n \in Nodes \cup {Null} : RM!RetiredNode(n)' <=> RM!RetiredNode(n)
  BY <1>4, <1>9 DEF RM!RetiredNode
<1>11. \A a \in pinned, t \in RM!Tables : RM!TableFor(a, t) => RM!TableFor(a, t)'
  <2> SUFFICES ASSUME NEW a \in pinned, NEW t \in RM!Tables, RM!TableFor(a, t)
               PROVE  RM!TableFor(a, t)'
    OBVIOUS
  <2>1. CASE t = table_
    BY <1>7, <2>1 DEF RM!TableFor
  <2>2. CASE t = gone
    BY <1>4, <2>2 DEF RM!TableFor
  <2>3. CASE \E x \in retired : x[1] = t /\ a \in x[2]
    BY <1>4, <2>3 DEF RM!TableFor
  <2> QED
    BY <2>1, <2>2, <2>3 DEF RM!TableFor, RM!Stands
<1>12. \A a \in pinned, n \in Nodes : RM!NodeFor(a, n) => RM!NodeFor(a, n)'
  <2> SUFFICES ASSUME NEW a \in pinned, NEW n \in Nodes, RM!NodeFor(a, n)
               PROVE  RM!NodeFor(a, n)'
    OBVIOUS
  <2>1. CASE n = unlinked
    BY <1>1, <2>1 DEF RM!NodeFor
  <2>2. CASE \E x \in retired : x[1] = n /\ a \in x[2]
    BY <1>4, <2>2 DEF RM!NodeFor
  <2>3. CASE \E t \in RM!Tables : RM!TableFor(a, t) /\ n \in RM!NodesOf(t)
    <3>1. PICK t \in RM!Tables : RM!TableFor(a, t) /\ n \in RM!NodesOf(t)
      BY <2>3
    <3>2. RM!TableFor(a, t)' /\ n \in RM!NodesOf(t)'
      BY <1>6, <1>11, <3>1
    <3> QED
      BY <1>2, <3>2 DEF RM!NodeFor
  <2> QED
    BY <2>1, <2>2, <2>3 DEF RM!NodeFor
<1>13. RM!TypeOK'
  <2>1. retired' \subseteq ((Nodes \cup RM!Tables) \X SUBSET pinned)'
    BY <1>1, <1>2, <1>4 DEF RM!TypeOK
  <2> QED
    BY <1>1, <1>20, <2>1 DEF RM!TypeOK, RM!Tables, RM!SizeOf, RM!NoTable
<1>14. RM!WriterInv'
  <2>1. RM!NodesOf(table_)' = RM!NodesOf(table_)
    BY <1>1, SameTableNodes
  <2>2. (unlinked # Null => next[unlinked] \in RM!NodesOf(table_) \cup {Null})'
    BY <1>1, <2>1 DEF RM!WriterInv
  <2>3. (\A x \in retired : x[1] \in RM!Tables /\ table_ # RM!NoTable => x[1] < table_ /\ ~RM!Stands(x[1]))'
    <3> SUFFICES ASSUME NEW x \in retired', x[1] \in RM!Tables PROVE x[1] < table_ /\ ~RM!Stands(x[1])'
      BY <1>1, <1>2
    <3>1. CASE x \in retired
      <4>1. x[1] < table_ /\ ~RM!Stands(x[1])
        BY <1>3, <3>1 DEF RM!WriterInv
      <4> QED
        BY <1>7, <4>1 DEF RM!Stands
    <3>2. CASE x = new
      <4>1. gone # table_
        BY <1>3 DEF RM!Tables
      <4> QED
        BY <1>3, <1>4, <1>7, <3>2, <4>1
    <3> QED
      BY <1>4, <3>1, <3>2
  <2>4. (\A t \in RM!Tables : RM!Dead(t) => \A j \in DOMAIN buckets[t] : buckets[t][j] = Null)'
    BY <1>1, <1>2, <1>8 DEF RM!WriterInv
  <2>5. (table_ # RM!NoTable)' /\ (wpc = "retireTable" => table_ # 0)'
        /\ ((unlinked # Null) <=> (wpc \in {"uncount", "retire"}))'
    BY <1>1, <1>2, <1>3 DEF RM!WriterInv
  <2> QED
    BY <2>2, <2>3, <2>4, <2>5 DEF RM!WriterInv
<1>15. RM!ChainsInv'
  BY <1>1, SameChains
<1>16. RM!PlacesInv'
  <2>1. ASSUME NEW x \in retired', NEW y \in retired', x[1] = y[1] PROVE x = y
    BY <1>4, <1>5, <2>1 DEF RM!PlacesInv
  <2>2. ~RM!RetiredNode(unlinked)'
    <3>1. ~RM!RetiredNode(Null)
      BY <1>9 DEF RM!PlacesInv
    <3> QED
      BY <1>1, <1>4, <1>9, <3>1 DEF RM!RetiredNode
  <2> QED
    BY <1>1, <1>2, <1>6, <1>10, <2>1, <2>2 DEF RM!PlacesInv
<1>17. \A x \in retired' : x[1] \in Nodes /\ next'[x[1]] # Null => x \in retired /\ next'[x[1]] = next[x[1]]
  BY <1>1, <1>4, <1>9
<1>19. ASSUME NEW a \in Readers \ S, NEW t \in RM!Tables, RM!TableFor(a, t), t # gone \/ a \in pinned
       PROVE  RM!TableFor(a, t)'
  <2>1. CASE a \in pinned
    BY <1>11, <1>19, <2>1
  <2>2. CASE a \notin pinned
    <3>1. t = table_
      BY <1>19, <2>2, RetiredTyped DEF RM!TableFor, RM!Stands
    <3> QED
      BY <1>7, <3>1 DEF RM!TableFor
  <2> QED
    BY <2>1, <2>2
<1>21. ASSUME NEW a \in Readers \ S, NEW t \in RM!Tables, rtable[a] = t
       PROVE  RM!TableFor(a, t)'
  <2>1. t # RM!NoTable /\ RM!TableFor(a, t)
    BY <1>21 DEF RM!ProtectedInv, Constants, RM!TablesHaveBuckets, RM!Tables, RM!NoTable
  <2>2. t # gone \/ a \in pinned
    BY <1>21 DEF RM!UsesTable
  <2> QED
    BY <1>19, <2>1, <2>2
<1>22. ASSUME NEW a \in Readers \ S, NEW n \in Nodes, current[a] = n
       PROVE  RM!NodeFor(a, n)'
  <2>1. n # Null /\ RM!NodeFor(a, n)
    BY <1>22 DEF RM!ProtectedInv, Constants, RM!ConstantsApart
  <2>2. CASE a \in pinned
    BY <1>12, <2>1, <2>2
  <2>3. CASE a \notin pinned
    <3>1. \E t \in RM!Tables : RM!TableFor(a, t) /\ n \in RM!NodesOf(t)
      BY <1>9, <2>1, <2>3, RetiredTyped DEF RM!NodeFor
    <3>2. PICK t \in RM!Tables : RM!TableFor(a, t) /\ n \in RM!NodesOf(t)
      BY <3>1
    <3>3. t # gone
      BY <1>22, <2>3, <3>2 DEF RM!UsesTable
    <3>4. RM!TableFor(a, t)' /\ n \in RM!NodesOf(t)'
      BY <1>6, <1>19, <3>2, <3>3
    <3> QED
      BY <1>2, <3>4 DEF RM!NodeFor
  <2> QED
    BY <2>2, <2>3
<1>18. RM!ProtectedInv'
  BY <1>1, <1>12, <1>13, <1>17, <1>20, <1>21, <1>22, AbandonProtects
<1> QED
  BY <1>13, <1>14, <1>15, <1>16, <1>18

LEMMA WriterRetiresNode ==
  ASSUME Constants, RM!StructureInv, UNCHANGED hash_fn_, RM!Retire
  PROVE  RM!StructureInv'
<1> USE DEF RM!StructureInv
<1> DEFINE new == <<unlinked, pinned>>
           S == {a \in Readers \ pinned : current[a] = unlinked}
<1>1. /\ UNCHANGED <<hash_fn_, table_, buckets, key, value, next, allocated, count_,
                     visible, pinned, wkey, wvalue>>
      /\ wpc = "retire" /\ wpc' = "idle" /\ unlinked' = Null /\ retired' = retired \cup {new}
      /\ S \in SUBSET (Readers \ pinned) /\ RM!Abandon(S)
  BY DEF RM!Retire, RM!nodes, RM!G!Retire
<1>20. /\ \A a \in S : Gone(a)
       /\ \A a \in Readers \ S : Stays(a)
       /\ rpc' \in [Readers -> {"idle", "table", "bucket", "node", "leave"}]
       /\ rkey' \in [Readers -> Keys \cup {None}]
       /\ rtable' \in [Readers -> RM!Tables \cup {RM!NoTable}]
       /\ current' \in [Readers -> Nodes \cup {Null}]
       /\ pinned \subseteq RM!InCriticalSection'
  BY <1>1, Abandoned
<1>2. RM!Tables' = RM!Tables /\ RM!NoTable' = RM!NoTable
  BY <1>1 DEF RM!Tables, RM!NoTable
<1>3. /\ unlinked # Null /\ unlinked \in Nodes /\ unlinked \notin RM!Tables
      /\ table_ \in RM!Tables /\ table_ # RM!NoTable
      /\ next[unlinked] \in RM!NodesOf(table_) \cup {Null}
      /\ Null \notin Nodes \cup RM!Tables
  BY <1>1 DEF RM!WriterInv, RM!TypeOK, Constants, RM!ConstantsApart
<1>4. /\ new[1] = unlinked /\ new[2] = pinned /\ new \in retired'
      /\ \A x \in retired' : x \in retired \/ x = new
      /\ \A x \in retired : x \in retired'
      /\ new \in (Nodes \cup RM!Tables) \X SUBSET pinned
  BY <1>1, <1>3
<1> HIDE DEF new
<1>5. \A x \in retired : x[1] # unlinked
  BY DEF RM!PlacesInv, RM!RetiredNode
<1>6. \A t \in RM!Tables : RM!NodesOf(t)' = RM!NodesOf(t)
  BY <1>1, SameNodes
<1>7. \A t \in RM!Tables : RM!Stands(t)' <=> RM!Stands(t)
  BY <1>1 DEF RM!Stands
<1>8. \A t \in RM!Tables : RM!Dead(t)' => RM!Dead(t)
  <2> SUFFICES ASSUME NEW t \in RM!Tables, RM!Dead(t)' PROVE RM!Dead(t)
    OBVIOUS
  <2>1. t # table_ /\ \A x \in retired' : x[1] # t
    BY <1>1 DEF RM!Dead
  <2> QED
    BY <1>1, <1>4, <2>1 DEF RM!Dead
<1>9. \A n \in Nodes : RM!RetiredNode(n)' <=> RM!RetiredNode(n) \/ n = unlinked
  BY <1>4 DEF RM!RetiredNode
<1>10. ~RM!RetiredNode(unlinked)'
  <2>1. \A x \in retired : x[1] # Null
    BY <1>3, RetiredTyped
  <2> QED
    BY <1>1, <1>3, <1>4, <2>1 DEF RM!RetiredNode
<1>11. \A a \in Readers, t \in RM!Tables : RM!TableFor(a, t) => RM!TableFor(a, t)'
  BY <1>4, <1>7 DEF RM!TableFor
<1>12. \A a \in pinned, n \in Nodes : RM!NodeFor(a, n) => RM!NodeFor(a, n)'
  <2> SUFFICES ASSUME NEW a \in pinned, NEW n \in Nodes, RM!NodeFor(a, n)
               PROVE  RM!NodeFor(a, n)'
    OBVIOUS
  <2>1. CASE n = unlinked
    BY <1>4, <2>1 DEF RM!NodeFor
  <2>2. CASE \E x \in retired : x[1] = n /\ a \in x[2]
    BY <1>4, <2>2 DEF RM!NodeFor
  <2>3. CASE \E t \in RM!Tables : RM!TableFor(a, t) /\ n \in RM!NodesOf(t)
    <3>1. PICK t \in RM!Tables : RM!TableFor(a, t) /\ n \in RM!NodesOf(t)
      BY <2>3
    <3>2. RM!TableFor(a, t)' /\ n \in RM!NodesOf(t)'
      BY <1>6, <1>11, <3>1 DEF RM!TypeOK, RM!InCriticalSection
    <3> QED
      BY <1>2, <3>2 DEF RM!NodeFor
  <2> QED
    BY <2>1, <2>2, <2>3 DEF RM!NodeFor
<1>13. RM!TypeOK'
  <2>1. retired' \subseteq ((Nodes \cup RM!Tables) \X SUBSET pinned)'
    BY <1>1, <1>2, <1>4 DEF RM!TypeOK
  <2> QED
    BY <1>1, <1>20, <2>1 DEF RM!TypeOK, RM!Tables, RM!SizeOf, RM!NoTable
<1>14. RM!WriterInv'
  <2>3. (\A x \in retired : x[1] \in RM!Tables /\ table_ # RM!NoTable => x[1] < table_ /\ ~RM!Stands(x[1]))'
    <3> SUFFICES ASSUME NEW x \in retired', x[1] \in RM!Tables PROVE x[1] < table_ /\ ~RM!Stands(x[1])'
      BY <1>1, <1>2
    <3>1. x \in retired
      BY <1>3, <1>4
    <3> QED
      BY <1>3, <1>7, <3>1 DEF RM!WriterInv
  <2>4. (\A t \in RM!Tables : RM!Dead(t) => \A j \in DOMAIN buckets[t] : buckets[t][j] = Null)'
    BY <1>1, <1>2, <1>8 DEF RM!WriterInv
  <2>5. (table_ # RM!NoTable)' /\ (wpc = "retireTable" => table_ # 0)' /\ (unlinked = Null)'
        /\ (wpc = "idle")'
    BY <1>1, <1>2, <1>3
  <2> QED
    BY <2>3, <2>4, <2>5 DEF RM!WriterInv
<1>15. RM!ChainsInv'
  BY <1>1, SameChains
<1>16. RM!PlacesInv'
  <2>1. ASSUME NEW x \in retired', NEW y \in retired', x[1] = y[1] PROVE x = y
    BY <1>4, <1>5, <2>1 DEF RM!PlacesInv
  <2>2. \A n \in Nodes : n # unlinked'
    BY <1>1, <1>3
  <2> QED
    BY <1>1, <1>2, <1>6, <1>9, <1>10, <2>1, <2>2 DEF RM!PlacesInv
<1>17. \A x \in retired' : x[1] \in Nodes /\ next'[x[1]] # Null =>
          \/ x \in retired /\ next'[x[1]] = next[x[1]]
          \/ \A a \in x[2] : RM!NodeFor(a, next[x[1]])'
  <2>1. ASSUME NEW x \in retired', x[1] \in Nodes, next'[x[1]] # Null
        PROVE  \/ x \in retired /\ next'[x[1]] = next[x[1]]
               \/ \A a \in x[2] : RM!NodeFor(a, next[x[1]])'
    <3>1. CASE x \in retired
      BY <1>1, <3>1
    <3>2. CASE x = new
      <4> SUFFICES ASSUME NEW a \in x[2] PROVE RM!NodeFor(a, next[x[1]])'
        OBVIOUS
      <4>1. next'[x[1]] \in RM!NodesOf(table_)
        BY <1>1, <1>3, <1>4, <2>1, <3>2
      <4>2. RM!TableFor(a, table_)' /\ table_' = table_
        BY <1>1 DEF RM!TableFor, RM!Stands
      <4>3. PICK t \in RM!Tables : t = table_
        BY <1>3
      <4>4. RM!TableFor(a, t)' /\ next'[x[1]] \in RM!NodesOf(t)'
        BY <1>1, <1>6, <4>1, <4>3 DEF RM!TableFor, RM!Stands
      <4> QED
        BY <1>2, <4>4 DEF RM!NodeFor
    <3> QED
      BY <1>4, <3>1, <3>2
  <2> QED
    BY <2>1
<1>21. ASSUME NEW a \in Readers \ S, NEW t \in RM!Tables, rtable[a] = t
       PROVE  RM!TableFor(a, t)'
  <2>1. t # RM!NoTable /\ RM!TableFor(a, t)
    BY <1>21 DEF RM!ProtectedInv, Constants, RM!TablesHaveBuckets, RM!Tables, RM!NoTable
  <2> QED
    BY <1>11, <2>1
<1>22. ASSUME NEW a \in Readers \ S, NEW n \in Nodes, current[a] = n
       PROVE  RM!NodeFor(a, n)'
  <2>1. n # Null /\ RM!NodeFor(a, n)
    BY <1>22 DEF RM!ProtectedInv, Constants, RM!ConstantsApart
  <2>2. CASE a \in pinned
    BY <1>12, <2>1, <2>2
  <2>3. CASE a \notin pinned
    <3>1. n # unlinked
      BY <1>22, <2>3
    <3>2. \E t \in RM!Tables : RM!TableFor(a, t) /\ n \in RM!NodesOf(t)
      BY <2>1, <2>3, <3>1, RetiredTyped DEF RM!NodeFor
    <3>3. PICK t \in RM!Tables : RM!TableFor(a, t) /\ n \in RM!NodesOf(t)
      BY <3>2
    <3>4. RM!TableFor(a, t)' /\ n \in RM!NodesOf(t)'
      BY <1>6, <1>11, <3>3
    <3> QED
      BY <1>2, <3>4 DEF RM!NodeFor
  <2> QED
    BY <2>2, <2>3
<1>18. RM!ProtectedInv'
  BY <1>1, <1>12, <1>13, <1>17, <1>20, <1>21, <1>22, AbandonProtects
<1> QED
  BY <1>13, <1>14, <1>15, <1>16, <1>18

-----------------------------------------------------------------------------
(* What Insert, Replace and Remove have in common: in k's chain the nodes  *)
(* of Old make way for those of New.                                       *)
Splice(k, Old, New) ==
  LET b == RM!Bucket(k, table_)
      chain == ReachIn(next, buckets[table_][b]) IN
  /\ k \in Keys /\ table_ \in RM!Tables
  /\ wpc \in {"idle", "splice"} /\ wpc' \in {"retire", "count", "uncount"}
  /\ UNCHANGED <<hash_fn_, table_, visible, pinned, retired, rpc, rkey, rtable, current, count_>>
  /\ wkey' \in Keys \cup {None} /\ wvalue' \in Values \cup {None}
  /\ Old \in SUBSET chain /\ New \in SUBSET (Nodes \ allocated)
  /\ \A m, n \in New : m = n
  /\ \A n \in chain \ Old : key[n] # k
  /\ next' \in [Nodes -> Nodes \cup {Null}] /\ \E rank \in [Nodes -> Nat] : Descends(next', rank)
  /\ \A n \in Nodes : next'[n] = next[n] \/ n \in (chain \ Old) \cup New
  /\ DOMAIN buckets' = RM!Tables
  /\ \A t \in RM!Tables : buckets'[t] \in [0 .. RM!SizeOf(t) - 1 -> Nodes \cup {Null}]
  /\ \A t \in RM!Tables : \A j \in DOMAIN buckets[t] :
       t # table_ \/ j # b => buckets'[t][j] = buckets[t][j]
  /\ ReachIn(next', buckets'[table_][b]) = (chain \ Old) \cup New
  /\ allocated' = allocated \cup New
  /\ key' \in [Nodes -> Keys \cup {None}] /\ value' \in [Nodes -> Values \cup {None}]
  /\ \A n \in Nodes \ New : key'[n] = key[n] /\ value'[n] = value[n]
  /\ \A n \in New : key'[n] = k /\ value'[n] \in Values
  /\ unlinked' \in Nodes \cup {Null} /\ Old = {unlinked'} \ {Null}
  /\ (unlinked' # Null) <=> (wpc' \in {"uncount", "retire"})

LEMMA TableChain ==
  ASSUME NEW nx, NEW bk, NEW t, NEW j \in DOMAIN bk[t]
  PROVE  ReachIn(nx, bk[t][j]) \subseteq NodesIn(nx, bk, t)
BY DEF NodesIn

LEMMA SpliceChains ==
  ASSUME Constants, RM!StructureInv, NEW k, NEW Old, NEW New, Splice(k, Old, New)
  PROVE  /\ \A t \in RM!Tables : \A j \in DOMAIN buckets[t] :
              t # table_ \/ j # RM!Bucket(k, table_) =>
                ReachIn(next', buckets'[t][j]) = ReachIn(next, buckets[t][j])
         /\ \A t \in RM!Tables : t # table_ => RM!NodesOf(t)' = RM!NodesOf(t)
         /\ \A t \in RM!Tables : t = table_ => RM!NodesOf(t)' = (RM!NodesOf(t) \ Old) \cup New
         /\ Old \in SUBSET RM!NodesOf(table_) /\ table_ \in RM!Tables
         /\ \A t \in RM!Tables : DOMAIN buckets'[t] = DOMAIN buckets[t]
<1> USE DEF RM!StructureInv
<1> DEFINE b == RM!Bucket(k, table_)
           chain == ReachIn(next, buckets[table_][b])
<1>1. /\ k \in Keys /\ table_ \in RM!Tables
      /\ Old \in SUBSET chain /\ New \in SUBSET (Nodes \ allocated)
      /\ \A n \in Nodes : next'[n] = next[n] \/ n \in (chain \ Old) \cup New
      /\ \A t \in RM!Tables : \A j \in DOMAIN buckets[t] :
           t # table_ \/ j # b => buckets'[t][j] = buckets[t][j]
      /\ ReachIn(next', buckets'[table_][b]) = (chain \ Old) \cup New
  BY DEF Splice
<1>2. \A t \in RM!Tables : DOMAIN buckets'[t] = DOMAIN buckets[t]
  <2>1. \A t \in RM!Tables : DOMAIN buckets'[t] = 0 .. RM!SizeOf(t) - 1
    BY DEF Splice
  <2>2. \A t \in RM!Tables : DOMAIN buckets[t] = 0 .. RM!SizeOf(t) - 1
    BY DEF RM!TypeOK
  <2> QED
    BY <2>1, <2>2
<1>3. b \in DOMAIN buckets[table_]
  BY <1>1, BucketInTable
<1>4. PICK rank \in [Nodes -> Nat] : Descends(next, rank)
  BY ChainRanks
<1>5. PICK rank2 \in [Nodes -> Nat] : Descends(next', rank2)
  BY DEF Splice
<1>6. ChainsHold(next, buckets, key, value, hash_fn_)
  BY ChainsView
<1>7. ASSUME NEW t \in RM!Tables, NEW j \in DOMAIN buckets[t], NEW n \in ReachIn(next, buckets[t][j])
      PROVE  n \in Nodes /\ n \in RM!NodesOf(t) /\ n \in allocated /\ hash_fn_[key[n]] % RM!SizeOf(t) = j
  <2>1. RM!NodesOf(t) = NodesIn(next, buckets, t)
    BY Views
  <2>2. ReachIn(next, buckets[t][j]) \subseteq NodesIn(next, buckets, t)
    BY TableChain
  <2>3. n \in RM!NodesOf(t)
    BY <1>7, <2>1, <2>2
  <2>4. n \in Nodes
    BY <2>3, TableNodes
  <2>5. n \in allocated
    BY <2>3, <2>4 DEF RM!PlacesInv
  <2>6. hash_fn_[key[n]] % RM!SizeOf(t) = j
    BY <1>6, <1>7 DEF ChainsHold
  <2> QED
    BY <2>3, <2>4, <2>5, <2>6
<1>8. ASSUME NEW t \in RM!Tables, NEW j \in DOMAIN buckets[t], t # table_ \/ j # b,
             NEW n \in ReachIn(next, buckets[t][j])
      PROVE  n \notin chain /\ n \notin New
  <2>1. n \in Nodes /\ n \in RM!NodesOf(t) /\ n \in allocated /\ hash_fn_[key[n]] % RM!SizeOf(t) = j
    BY <1>7
  <2>2. n \notin New
    BY <1>1, <2>1
  <2>3. SUFFICES ASSUME n \in chain PROVE FALSE
    BY <2>2
  <2>4. n \in RM!NodesOf(table_) /\ hash_fn_[key[n]] % RM!SizeOf(table_) = b
    BY <1>1, <1>3, <1>7, <2>3
  <2>5. CASE t # table_
    BY <1>1, <2>1, <2>4, <2>5 DEF RM!PlacesInv
  <2>6. CASE t = table_
    BY <1>8, <2>1, <2>4, <2>6
  <2> QED
    BY <2>5, <2>6
<1>9. ASSUME NEW t \in RM!Tables, NEW j \in DOMAIN buckets[t], t # table_ \/ j # b
      PROVE  ReachIn(next', buckets'[t][j]) = ReachIn(next, buckets[t][j])
  <2>1. buckets'[t][j] = buckets[t][j] /\ buckets[t][j] \in Nodes \cup {Null}
    BY <1>1, <1>9 DEF RM!TypeOK
  <2>2. \A n \in ReachIn(next, buckets[t][j]) : next'[n] = next[n]
    BY <1>1, <1>7, <1>8, <1>9
  <2>3. ReachIn(next', buckets[t][j]) = ReachIn(next, buckets[t][j])
    BY <1>4, <1>5, <2>1, <2>2, ReachSame
  <2> QED
    BY <2>1, <2>3
<1>10. ASSUME NEW t \in RM!Tables, t # table_ PROVE RM!NodesOf(t)' = RM!NodesOf(t)
  <2>1. RM!NodesOf(t) = NodesIn(next, buckets, t) /\ RM!NodesOf(t)' = NodesIn(next', buckets', t)
    BY Views
  <2>2. NodesIn(next', buckets', t) = NodesIn(next, buckets, t)
    BY <1>2, <1>9, <1>10 DEF NodesIn
  <2> QED
    BY <2>1, <2>2
<1>11. ASSUME NEW t \in RM!Tables, t = table_ PROVE RM!NodesOf(t)' = (RM!NodesOf(t) \ Old) \cup New
  <2>1. RM!NodesOf(t) = NodesIn(next, buckets, t) /\ RM!NodesOf(t)' = NodesIn(next', buckets', t)
    BY Views
  <2> DEFINE D == DOMAIN buckets[t]
             ch == [j \in D |-> ReachIn(next, buckets[t][j])]
             ch2 == [j \in D |-> ReachIn(next', buckets'[t][j])]
  <2>2. /\ NodesIn(next, buckets, t) = UNION {ch[j] : j \in D}
        /\ NodesIn(next', buckets', t) = UNION {ch2[j] : j \in D}
    BY <1>2 DEF NodesIn
  <2>3. /\ \A j \in D : j # b => ch2[j] = ch[j]
        /\ ch2[b] = (ch[b] \ Old) \cup New
        /\ b \in D
    BY <1>1, <1>3, <1>9, <1>11
  <2>4. /\ Old \subseteq ch[b]
        /\ \A j \in D : j # b => \A n \in ch[j] : n \notin Old
    BY <1>1, <1>3, <1>8, <1>11
  <2> HIDE DEF ch, ch2, D, b
  <2>5. UNION {ch2[j] : j \in D} = ((UNION {ch[j] : j \in D}) \ Old) \cup New
    <3>1. ASSUME NEW n \in UNION {ch2[j] : j \in D}
          PROVE  n \in ((UNION {ch[j] : j \in D}) \ Old) \cup New
      <4>1. PICK j \in D : n \in ch2[j]
        OBVIOUS
      <4> QED
        BY <2>3, <2>4, <4>1
    <3>2. ASSUME NEW n \in ((UNION {ch[j] : j \in D}) \ Old) \cup New
          PROVE  n \in UNION {ch2[j] : j \in D}
      <4>1. CASE n \in New
        BY <2>3, <4>1
      <4>2. CASE n \notin New
        <5>1. PICK j \in D : n \in ch[j] /\ n \notin Old
          BY <4>2
        <5>2. n \in ch2[j]
          BY <2>3, <5>1
        <5> QED
          BY <5>2
      <4> QED
        BY <4>1, <4>2
    <3> QED
      BY <3>1, <3>2
  <2> QED
    BY <2>1, <2>2, <2>5
<1>12. Old \in SUBSET RM!NodesOf(table_)
  <2>1. PICK t \in RM!Tables : t = table_
    BY <1>1
  <2>2. PICK j \in DOMAIN buckets[t] : j = b
    BY <1>3, <2>1
  <2>3. \A n \in ReachIn(next, buckets[t][j]) : n \in RM!NodesOf(t)
    BY <1>7
  <2> QED
    BY <1>1, <2>1, <2>2, <2>3
<1> QED
  BY <1>1, <1>2, <1>9, <1>10, <1>11, <1>12

LEMMA SpliceKeeps ==
  ASSUME Constants, RM!StructureInv, NEW k, NEW Old, NEW New, Splice(k, Old, New)
  PROVE  RM!StructureInv'
<1> USE DEF RM!StructureInv
<1> DEFINE b == RM!Bucket(k, table_)
           chain == ReachIn(next, buckets[table_][b])
<1>1. /\ k \in Keys /\ table_ \in RM!Tables
      /\ wpc \in {"idle", "splice"} /\ wpc' \in {"retire", "count", "uncount"}
      /\ UNCHANGED <<hash_fn_, table_, visible, pinned, retired, rpc, rkey, rtable, current, count_>>
      /\ wkey' \in Keys \cup {None} /\ wvalue' \in Values \cup {None}
  BY DEF Splice
<1>2. /\ Old \in SUBSET chain /\ New \in SUBSET (Nodes \ allocated)
      /\ \A m, n \in New : m = n
      /\ \A n \in chain \ Old : key[n] # k
  BY DEF Splice
<1>3. /\ next' \in [Nodes -> Nodes \cup {Null}]
      /\ \A n \in Nodes : next'[n] = next[n] \/ n \in (chain \ Old) \cup New
  BY DEF Splice
<1>4. /\ DOMAIN buckets' = RM!Tables
      /\ \A t \in RM!Tables : buckets'[t] \in [0 .. RM!SizeOf(t) - 1 -> Nodes \cup {Null}]
      /\ \A t \in RM!Tables : \A j \in DOMAIN buckets[t] :
           t # table_ \/ j # b => buckets'[t][j] = buckets[t][j]
      /\ ReachIn(next', buckets'[table_][b]) = (chain \ Old) \cup New
  BY DEF Splice
<1>5. /\ allocated' = allocated \cup New
      /\ key' \in [Nodes -> Keys \cup {None}] /\ value' \in [Nodes -> Values \cup {None}]
      /\ \A n \in Nodes \ New : key'[n] = key[n] /\ value'[n] = value[n]
      /\ \A n \in New : key'[n] = k /\ value'[n] \in Values
  BY DEF Splice
<1>6. /\ unlinked' \in Nodes \cup {Null} /\ Old = {unlinked'} \ {Null}
      /\ (unlinked' # Null) <=> (wpc' \in {"uncount", "retire"})
  BY DEF Splice
<1>7. PICK rank2 \in [Nodes -> Nat] : Descends(next', rank2)
  BY DEF Splice
<1>8. PICK rank \in [Nodes -> Nat] : Descends(next, rank)
  BY ChainRanks
<1>9. /\ \A t \in RM!Tables : \A j \in DOMAIN buckets[t] :
           t # table_ \/ j # b => ReachIn(next', buckets'[t][j]) = ReachIn(next, buckets[t][j])
      /\ \A t \in RM!Tables : t # table_ => RM!NodesOf(t)' = RM!NodesOf(t)
      /\ \A t \in RM!Tables : t = table_ => RM!NodesOf(t)' = (RM!NodesOf(t) \ Old) \cup New
      /\ Old \in SUBSET RM!NodesOf(table_)
      /\ \A t \in RM!Tables : DOMAIN buckets'[t] = DOMAIN buckets[t]
  BY SpliceChains
<1>10. RM!Tables' = RM!Tables /\ RM!NoTable' = RM!NoTable /\ RM!InCriticalSection' = RM!InCriticalSection
  BY <1>1 DEF RM!Tables, RM!NoTable, RM!InCriticalSection
<1>11. b \in DOMAIN buckets[table_]
  BY <1>1, BucketInTable
<1>12. PICK t0 \in RM!Tables : t0 = table_
  BY <1>1
<1>13. chain \subseteq RM!NodesOf(t0)
  <2>1. RM!NodesOf(t0) = NodesIn(next, buckets, t0)
    BY Views
  <2>2. ReachIn(next, buckets[t0][b]) \subseteq NodesIn(next, buckets, t0)
    BY <1>11, <1>12, TableChain
  <2> QED
    BY <1>12, <2>1, <2>2
<1>14. \A t \in RM!Tables : RM!NodesOf(t) \in SUBSET Nodes /\ RM!NodesOf(t) \in SUBSET allocated
  <2>1. \A t \in RM!Tables : RM!NodesOf(t) \in SUBSET Nodes
    BY TableNodes
  <2> QED
    BY <2>1 DEF RM!PlacesInv
<1>15. table_ # RM!NoTable /\ unlinked = Null /\ Null \notin Nodes \cup RM!Tables
  <2>1. Doublings \in Nat
    BY DEF Constants, RM!TablesHaveBuckets
  <2>2. table_ # RM!NoTable
    BY <1>1, <2>1 DEF RM!Tables, RM!NoTable
  <2> QED
    BY <1>1, <2>2 DEF RM!WriterInv, Constants, RM!ConstantsApart
<1>16. /\ \A t \in RM!Tables : (RM!Stands(t)' <=> t = table_) /\ (RM!Stands(t) <=> t = table_)
       /\ \A t \in RM!Tables : RM!Dead(t)' <=> RM!Dead(t)
       /\ \A n : RM!RetiredNode(n)' <=> RM!RetiredNode(n)
       /\ \A a, t : RM!TableFor(a, t)' <=> RM!TableFor(a, t)
  BY <1>1 DEF RM!Stands, RM!Dead, RM!RetiredNode, RM!TableFor
<1>17. \A n \in New : n \in Nodes /\ n \notin allocated
                      /\ (\A t \in RM!Tables : n \notin RM!NodesOf(t)) /\ ~RM!RetiredNode(n)
  <2>1. \A n \in New : n \in Nodes /\ n \notin allocated
    BY <1>2
  <2> QED
    BY <2>1 DEF RM!PlacesInv
<1>18. \A n \in Old : n = unlinked' /\ n \in Nodes /\ n \in RM!NodesOf(t0) /\ n \in allocated /\ ~RM!RetiredNode(n)
                      /\ \A t \in RM!Tables : t # t0 => n \notin RM!NodesOf(t)
  <2>1. \A n \in Old : n = unlinked' /\ n \in Nodes /\ n \in RM!NodesOf(t0) /\ n \in allocated
    BY <1>6, <1>9, <1>12, <1>14
  <2> QED
    BY <2>1 DEF RM!PlacesInv
<1>19. RM!TypeOK'
  <2>1. allocated' \subseteq Nodes
    BY <1>2, <1>5 DEF RM!TypeOK
  <2>2. wpc' \in {"idle", "retireTable", "splice", "count", "uncount", "retire"}
    BY <1>1
  <2>3. retired' \subseteq ((Nodes \cup RM!Tables) \X SUBSET RM!InCriticalSection)'
    BY <1>1, <1>10 DEF RM!TypeOK
  <2> QED
    BY <1>1, <1>3, <1>4, <1>5, <1>6, <1>10, <2>1, <2>2, <2>3 DEF RM!TypeOK, RM!SizeOf
<1>20. ChainsHold(next, buckets, key, value, hash_fn_)
  BY ChainsView
<1>21. ChainsHold(next', buckets', key', value', hash_fn_')
  <2>1. \A n \in Nodes : next'[n] # Null => rank2[next'[n]] < rank2[n]
    BY <1>7 DEF Descends
  <2>2. ASSUME NEW t \in RM!Tables, NEW j \in DOMAIN buckets'[t], NEW n \in ReachIn(next', buckets'[t][j])
        PROVE  key'[n] \in Keys /\ value'[n] \in Values /\ hash_fn_'[key'[n]] % RM!SizeOf(t) = j
    <3>1. CASE n \in New
      <4>1. t = table_ /\ j = b
        <5> SUFFICES ASSUME t # table_ \/ j # b PROVE FALSE
          OBVIOUS
        <5>1. j \in DOMAIN buckets[t]
          BY <1>9
        <5>2. n \in ReachIn(next, buckets[t][j])
          BY <1>9, <5>1
        <5>3. ReachIn(next, buckets[t][j]) \subseteq NodesIn(next, buckets, t)
          BY <5>1, TableChain
        <5>4. n \in RM!NodesOf(t)
          BY <5>2, <5>3, Views
        <5> QED
          BY <1>17, <3>1, <5>4
      <4> QED
        BY <1>1, <1>5, <3>1, <4>1 DEF RM!Bucket
    <3>2. CASE n \notin New
      <4>1. j \in DOMAIN buckets[t] /\ n \in ReachIn(next, buckets[t][j])
        <5>1. CASE t = table_ /\ j = b
          BY <1>4, <1>9, <3>2, <5>1
        <5>2. CASE t # table_ \/ j # b
          BY <1>9, <5>2
        <5> QED
          BY <5>1, <5>2
      <4>2. key[n] \in Keys /\ value[n] \in Values /\ hash_fn_[key[n]] % RM!SizeOf(t) = j
        BY <1>20, <4>1 DEF ChainsHold
      <4>3. n \in Nodes
        <5>1. ReachIn(next, buckets[t][j]) \subseteq NodesIn(next, buckets, t)
          BY <4>1, TableChain
        <5>2. n \in RM!NodesOf(t)
          BY <4>1, <5>1, Views
        <5> QED
          BY <1>14, <5>2
      <4>4. key'[n] = key[n] /\ value'[n] = value[n]
        BY <1>5, <3>2, <4>3
      <4> QED
        BY <1>1, <4>2, <4>4
    <3> QED
      BY <3>1, <3>2
  <2>3. ASSUME NEW n \in RM!NodesOf(t0), n \notin Old PROVE key[n] # k
    <3>1. RM!NodesOf(t0) = NodesIn(next, buckets, t0)
      BY Views
    <3>2. PICK j \in DOMAIN buckets[t0] : n \in ReachIn(next, buckets[t0][j])
      BY <2>3, <3>1 DEF NodesIn
    <3>3. hash_fn_[key[n]] % RM!SizeOf(t0) = j
      BY <1>20, <3>2 DEF ChainsHold
    <3>4. key[n] = k => j = b
      BY <1>12, <3>3 DEF RM!Bucket
    <3> QED
      BY <1>2, <1>12, <2>3, <3>2, <3>4
  <2>4. ASSUME NEW t \in RM!Tables, NEW m \in RM!NodesOf(t)', NEW n \in RM!NodesOf(t)', key'[m] = key'[n]
        PROVE  m = n
    <3>1. /\ m \in New \/ (m \in RM!NodesOf(t) /\ (t = t0 => m \notin Old))
          /\ n \in New \/ (n \in RM!NodesOf(t) /\ (t = t0 => n \notin Old))
          /\ t # t0 => m \notin New /\ n \notin New
      BY <1>9, <1>12, <1>17
    <3>2. CASE m \in New /\ n \in New
      BY <1>2, <3>2
    <3>3. CASE m \in New /\ n \notin New
      <4>1. t = t0 /\ n \in RM!NodesOf(t0) /\ n \notin Old /\ n \in Nodes
        BY <1>14, <3>1, <3>3
      <4>2. key[n] # k /\ key'[n] = key[n] /\ key'[m] = k
        BY <1>5, <2>3, <3>3, <4>1
      <4> QED
        BY <2>4, <4>2
    <3>4. CASE m \notin New /\ n \in New
      <4>1. t = t0 /\ m \in RM!NodesOf(t0) /\ m \notin Old /\ m \in Nodes
        BY <1>14, <3>1, <3>4
      <4>2. key[m] # k /\ key'[m] = key[m] /\ key'[n] = k
        BY <1>5, <2>3, <3>4, <4>1
      <4> QED
        BY <2>4, <4>2
    <3>5. CASE m \notin New /\ n \notin New
      <4>1. m \in RM!NodesOf(t) /\ n \in RM!NodesOf(t) /\ m \in Nodes /\ n \in Nodes
        BY <1>14, <3>1, <3>5
      <4>2. key[m] = key[n]
        BY <1>5, <2>4, <3>5, <4>1
      <4> QED
        BY <4>1, <4>2 DEF RM!ChainsInv
    <3> QED
      BY <3>2, <3>3, <3>4, <3>5
  <2>5. \A t \in RM!Tables : \A m, n \in NodesIn(next', buckets', t) : key'[m] = key'[n] => m = n
    <3>1. \A t \in RM!Tables : RM!NodesOf(t)' = NodesIn(next', buckets', t)
      BY Views
    <3> QED
      BY <2>4, <3>1
  <2> QED
    BY <2>1, <2>2, <2>5 DEF ChainsHold
<1>22. RM!ChainsInv'
  BY <1>21, ChainsView
<1>23. \A t \in RM!Tables : RM!NodesOf(t)' \subseteq allocated' /\ RM!NodesOf(t)' \subseteq Nodes
  <2> SUFFICES ASSUME NEW t \in RM!Tables
               PROVE  RM!NodesOf(t)' \subseteq allocated' /\ RM!NodesOf(t)' \subseteq Nodes
    OBVIOUS
  <2>1. CASE t = table_
    <3>1. RM!NodesOf(t)' = (RM!NodesOf(t) \ Old) \cup New
      BY <1>9, <2>1
    <3> QED
      BY <1>2, <1>5, <1>14, <3>1
  <2>2. CASE t # table_
    <3>1. RM!NodesOf(t)' = RM!NodesOf(t)
      BY <1>9, <2>2
    <3> QED
      BY <1>5, <1>14, <3>1
  <2> QED
    BY <2>1, <2>2
<1>24. ASSUME NEW n \in Nodes, next'[n] # Null PROVE n \in allocated' /\ next'[n] \in allocated'
  <2>1. CASE next'[n] = next[n]
    BY <1>5, <1>15, <1>24, <2>1 DEF RM!PlacesInv
  <2>2. CASE n \in (chain \ Old) \cup New
    <3> DEFINE head == buckets'[table_][b]
    <3>1. head \in Nodes \cup {Null}
      BY <1>1, <1>4, BucketInTable
    <3>2. n \in ReachIn(next', head)
      BY <1>4, <2>2
    <3>3. head # Null
      <4>1. ReachIn(next', Null) = {}
        BY <1>3, <1>15, ReachUnfolds
      <4> QED
        BY <3>2, <4>1
    <3>4. ClosedIn(next', ReachIn(next', head))
      BY <1>7, <3>1, <3>3, ReachClosed
    <3>5. next'[n] \in ReachIn(next', head)
      BY <1>24, <3>2, <3>4 DEF ClosedIn
    <3>6. n \in (chain \ Old) \cup New /\ next'[n] \in (chain \ Old) \cup New
      BY <1>4, <2>2, <3>5
    <3>7. chain \subseteq allocated
      BY <1>13, <1>14
    <3> QED
      BY <1>5, <3>6, <3>7
  <2> QED
    BY <1>3, <2>1, <2>2
<1>25. RM!WriterInv'
  <2>1. (unlinked # Null => next[unlinked] \in RM!NodesOf(table_) \cup {Null})'
    <3> SUFFICES ASSUME unlinked' # Null, next'[unlinked'] # Null
                 PROVE  next'[unlinked'] \in RM!NodesOf(table_)'
      OBVIOUS
    <3>1. PICK u \in Nodes : u = unlinked' /\ u \in Old
      BY <1>6
    <3>2. u \notin New /\ u \in RM!NodesOf(t0)
      BY <1>17, <1>18, <3>1
    <3>3. next'[u] = next[u] /\ next[u] # Null /\ next[u] \in Nodes
      BY <1>3, <3>1, <3>2
    <3>4. next[u] \in RM!NodesOf(t0)
      BY <3>2, <3>3, TableNodes DEF ClosedIn
    <3>5. rank[next[u]] < rank[u] /\ rank[next[u]] \in Nat
      BY <1>8, <3>3 DEF Descends
    <3>6. next[u] # u
      BY <3>5
    <3>7. next[u] \notin Old
      BY <1>6, <3>1, <3>6
    <3>8. next'[u] \in RM!NodesOf(t0)'
      BY <1>9, <1>12, <3>3, <3>4, <3>7
    <3>9. RM!NodesOf(table_)' = RM!NodesOf(t0)'
      BY <1>1, <1>12 DEF RM!NodesOf, RM!Reach
    <3> QED
      BY <3>1, <3>8, <3>9
  <2>2. (\A x \in retired : x[1] \in RM!Tables /\ table_ # RM!NoTable => x[1] < table_ /\ ~RM!Stands(x[1]))'
    BY <1>1, <1>10, <1>16 DEF RM!WriterInv
  <2>3. (\A t \in RM!Tables : RM!Dead(t) => \A j \in DOMAIN buckets[t] : buckets[t][j] = Null)'
    <3> SUFFICES ASSUME NEW t \in RM!Tables, RM!Dead(t)', NEW j \in DOMAIN buckets'[t]
                 PROVE  buckets'[t][j] = Null
      BY <1>10
    <3>1. RM!Dead(t) /\ t # table_
      BY <1>16 DEF RM!Dead
    <3>2. j \in DOMAIN buckets[t]
      BY <1>9
    <3> QED
      BY <1>4, <3>1, <3>2 DEF RM!WriterInv
  <2>4. (table_ # RM!NoTable)' /\ (wpc = "retireTable" => table_ # 0)'
        /\ ((unlinked # Null) <=> (wpc \in {"uncount", "retire"}))'
    BY <1>1, <1>6, <1>10, <1>15
  <2> QED
    BY <2>1, <2>2, <2>3, <2>4 DEF RM!WriterInv
<1>26. RM!PlacesInv'
  <2>1. (\A x, y \in retired : x[1] = y[1] => x = y)'
    BY <1>1 DEF RM!PlacesInv
  <2>2. (\A s, t \in RM!Tables : s # t => RM!NodesOf(s) \cap RM!NodesOf(t) = {})'
    <3> SUFFICES ASSUME NEW s \in RM!Tables, NEW t \in RM!Tables, s # t,
                        NEW n \in RM!NodesOf(s)', n \in RM!NodesOf(t)'
                 PROVE  FALSE
      BY <1>10
    <3>1. CASE n \in New
      BY <1>9, <1>17, <3>1
    <3>2. CASE n \notin New
      <4>1. n \in RM!NodesOf(s) /\ n \in RM!NodesOf(t)
        BY <1>9, <3>2
      <4> QED
        BY <4>1 DEF RM!PlacesInv
    <3> QED
      BY <3>1, <3>2
  <2>3. (\A n \in Nodes : RM!RetiredNode(n) \/ n = unlinked => \A t \in RM!Tables : n \notin RM!NodesOf(t))'
    <3> SUFFICES ASSUME NEW n \in Nodes, RM!RetiredNode(n) \/ n = unlinked',
                        NEW t \in RM!Tables, n \in RM!NodesOf(t)'
                 PROVE  FALSE
      BY <1>10, <1>16
    <3>1. CASE RM!RetiredNode(n)
      <4>1. n \notin New /\ n \notin RM!NodesOf(t)
        BY <1>17, <3>1 DEF RM!PlacesInv
      <4> QED
        BY <1>9, <4>1
    <3>2. CASE n = unlinked'
      <4>1. n \in Old
        BY <1>6, <1>15, <3>2
      <4>2. n \notin New
        BY <1>17, <1>18, <4>1
      <4> QED
        BY <1>9, <1>12, <1>18, <4>1, <4>2
    <3> QED
      BY <3>1, <3>2
  <2>4. (~RM!RetiredNode(unlinked))'
    <3>1. ~RM!RetiredNode(unlinked')
      <4>1. CASE unlinked' = Null
        <5>1. \A x \in retired : x[1] # Null
          BY <1>15, RetiredTyped
        <5> QED
          BY <4>1, <5>1 DEF RM!RetiredNode
      <4>2. CASE unlinked' # Null
        BY <1>6, <1>18, <4>2
      <4> QED
        BY <4>1, <4>2
    <3> QED
      BY <1>1, <3>1 DEF RM!RetiredNode
  <2>5. ASSUME NEW n \in Nodes, n \in allocated'
        PROVE  RM!RetiredNode(n) \/ n = unlinked' \/ \E t \in RM!Tables : n \in RM!NodesOf(t)'
    <3>1. CASE n \in New
      BY <1>9, <1>12, <3>1
    <3>2. CASE n \in Old
      BY <1>18, <3>2
    <3>3. CASE n \notin New /\ n \notin Old
      <4>1. RM!RetiredNode(n) \/ \E t \in RM!Tables : n \in RM!NodesOf(t)
        BY <1>5, <1>15, <2>5, <3>3 DEF RM!PlacesInv
      <4> QED
        BY <1>9, <3>3, <4>1
    <3> QED
      BY <3>1, <3>2, <3>3
  <2>6. ASSUME NEW n \in Nodes,
               RM!RetiredNode(n) \/ n = unlinked' \/ \E t \in RM!Tables : n \in RM!NodesOf(t)'
        PROVE  n \in allocated'
    <3>1. CASE RM!RetiredNode(n)
      BY <1>5, <3>1 DEF RM!PlacesInv
    <3>2. CASE n = unlinked'
      BY <1>5, <1>6, <1>15, <1>18, <3>2
    <3>3. CASE \E t \in RM!Tables : n \in RM!NodesOf(t)'
      BY <1>23, <3>3
    <3> QED
      BY <2>6, <3>1, <3>2, <3>3
  <2>7. (\A n \in Nodes :
          n \in allocated <=> RM!RetiredNode(n) \/ n = unlinked \/ \E t \in RM!Tables : n \in RM!NodesOf(t))'
    BY <1>10, <1>16, <2>5, <2>6
  <2>8. (\A n \in Nodes : next[n] # Null => n \in allocated /\ (table_ # RM!NoTable => next[n] \in allocated))'
    BY <1>24
  <2> QED
    BY <2>1, <2>2, <2>3, <2>4, <2>7, <2>8 DEF RM!PlacesInv
<1>27. ProtectionGrows
  <2>1. ASSUME NEW a \in RM!InCriticalSection, NEW n \in Nodes, RM!NodeFor(a, n) PROVE RM!NodeFor(a, n)'
    <3>1. n # unlinked
      BY <1>15
    <3>2. CASE \E x \in retired : x[1] = n /\ a \in x[2]
      BY <1>1, <3>2 DEF RM!NodeFor
    <3>3. CASE \E t \in RM!Tables : RM!TableFor(a, t) /\ n \in RM!NodesOf(t)
      <4>1. PICK t \in RM!Tables : RM!TableFor(a, t) /\ n \in RM!NodesOf(t)
        BY <3>3
      <4>2. CASE n \in Old
        BY <1>18, <4>2 DEF RM!NodeFor
      <4>3. CASE n \notin Old
        <5>1. n \in RM!NodesOf(t)' /\ RM!TableFor(a, t)'
          BY <1>9, <1>16, <4>1, <4>3
        <5> QED
          BY <1>10, <5>1 DEF RM!NodeFor
      <4> QED
        BY <4>2, <4>3
    <3> QED
      BY <2>1, <3>1, <3>2, <3>3 DEF RM!NodeFor
  <2>2. ASSUME NEW x \in retired', x[1] \in Nodes, next'[x[1]] # Null
        PROVE  x \in retired /\ next'[x[1]] = next[x[1]]
    <3>1. x \in retired /\ RM!RetiredNode(x[1])
      BY <1>1, <2>2 DEF RM!RetiredNode
    <3>2. x[1] \notin New /\ x[1] \notin RM!NodesOf(t0)
      BY <1>17, <2>2, <3>1 DEF RM!PlacesInv
    <3> QED
      BY <1>3, <1>13, <2>2, <3>1, <3>2
  <2> QED
    BY <1>16, <2>1, <2>2 DEF ProtectionGrows
<1>28. RM!ProtectedInv'
  BY <1>1, <1>19, <1>27, ProtectionKept
<1> QED
  BY <1>19, <1>22, <1>25, <1>26, <1>28

-----------------------------------------------------------------------------
(* What the writer finds, and where it puts a new node.                    *)
LEMMA FoundNode ==
  ASSUME Constants, RM!StructureInv, NEW k \in Keys, table_ \in RM!Tables,
         NEW b, b = RM!Bucket(k, table_), NEW chain, chain = ReachIn(next, buckets[table_][b])
  PROVE  /\ buckets[table_][b] \in Nodes \cup {Null} /\ b \in DOMAIN buckets[table_]
         /\ chain \in SUBSET Nodes /\ chain \in SUBSET allocated /\ chain \in SUBSET RM!NodesOf(table_)
         /\ buckets[table_][b] = Null => chain = {}
         /\ RM!NodeOf(k) = Null => \A m \in chain : key[m] # k
         /\ RM!NodeOf(k) # Null => /\ RM!NodeOf(k) \in chain /\ key[RM!NodeOf(k)] = k
                                   /\ \A m \in chain \ {RM!NodeOf(k)} : key[m] # k
<1> USE DEF RM!StructureInv
<1>1. b \in 0 .. RM!SizeOf(table_) - 1 /\ b \in DOMAIN buckets[table_]
  BY BucketInTable
<1>2. buckets[table_][b] \in Nodes \cup {Null}
  BY <1>1 DEF RM!TypeOK
<1>3. PICK t \in RM!Tables : t = table_
  OBVIOUS
<1>4. chain \in SUBSET RM!NodesOf(t)
  <2>1. ReachIn(next, buckets[t][b]) \subseteq NodesIn(next, buckets, t)
    BY <1>1, <1>3, TableChain
  <2>2. RM!NodesOf(t) = NodesIn(next, buckets, t)
    BY Views
  <2> QED
    BY <1>3, <2>1, <2>2
<1>5. RM!NodesOf(t) \in SUBSET Nodes
  BY TableNodes
<1>6. RM!NodesOf(t) \in SUBSET allocated
  BY <1>5 DEF RM!PlacesInv
<1>7. PICK rank \in [Nodes -> Nat] : Descends(next, rank)
  BY ChainRanks
<1>8. buckets[table_][b] = Null => chain = {}
  BY <1>7, ReachUnfolds DEF Descends
<1> DEFINE f == FindIn(next, key, k, buckets[table_][b])
<1>9. RM!NodeOf(k) = f
  BY DEF RM!NodeOf, RM!Find, FindIn
<1>10. \/ f = Null /\ \A m \in ReachIn(next, buckets[table_][b]) : key[m] # k
       \/ f \in ReachIn(next, buckets[table_][b]) /\ key[f] = k
  BY <1>2, <1>7, FindFinds
<1> HIDE DEF f
<1>11. Null \notin Nodes
  BY DEF Constants, RM!ConstantsApart
<1>12. \A m, n \in RM!NodesOf(t) : key[m] = key[n] => m = n
  BY DEF RM!ChainsInv
<1>13. f = Null => \A m \in chain : key[m] # k
  BY <1>4, <1>5, <1>10, <1>11
<1>14. f # Null => f \in chain /\ key[f] = k /\ \A m \in chain \ {f} : key[m] # k
  BY <1>4, <1>10, <1>12
<1> QED
  BY <1>1, <1>2, <1>3, <1>4, <1>5, <1>6, <1>8, <1>9, <1>13, <1>14

LEMMA FreshIsFree ==
  ASSUME RM!TypeOK, allocated # Nodes
  PROVE  RM!Fresh \in Nodes \ allocated
<1>1. \E n : n \in Nodes \ allocated
  BY DEF RM!TypeOK
<1> QED
  BY <1>1, Zenon DEF RM!Fresh

LEMMA SpliceStarts ==
  ASSUME RM!StructureInv, NEW k, NEW v, RM!Splices(k, v)
  PROVE  wpc \in {"idle", "splice"} /\ table_ \in RM!Tables
<1> USE DEF RM!StructureInv
<1>1. wpc \in {"idle", "splice"} /\ table_ # RM!NoTable
  BY DEF RM!Splices, RM!WriterInv
<1> QED
  BY <1>1 DEF RM!TypeOK

LEMMA FreeIsUnlinked ==
  ASSUME Constants, RM!StructureInv, table_ \in RM!Tables, NEW n \in Nodes, n \notin allocated
  PROVE  next[n] = Null /\ \A m \in Nodes : next[m] # n
<1> USE DEF RM!StructureInv
<1>1. Doublings \in Nat /\ Null \notin Nodes
  BY DEF Constants, RM!TablesHaveBuckets, RM!ConstantsApart
<1>2. table_ # RM!NoTable
  BY <1>1 DEF RM!Tables, RM!NoTable
<1> QED
  BY <1>1, <1>2 DEF RM!PlacesInv

LEMMA BucketsTyped ==
  ASSUME RM!TypeOK, NEW t \in RM!Tables, NEW b \in DOMAIN buckets[t], NEW n \in Nodes \cup {Null},
         buckets' = [buckets EXCEPT ![t][b] = n]
  PROVE  /\ DOMAIN buckets' = RM!Tables
         /\ \A u \in RM!Tables : buckets'[u] \in [0 .. RM!SizeOf(u) - 1 -> Nodes \cup {Null}]
         /\ \A u \in RM!Tables : \A j \in DOMAIN buckets[u] :
              u # t \/ j # b => buckets'[u][j] = buckets[u][j]
         /\ buckets'[t][b] = n
<1> DEFINE row == [buckets[t] EXCEPT ![b] = n]
<1>1. DOMAIN buckets = RM!Tables
      /\ \A u \in RM!Tables : buckets[u] \in [0 .. RM!SizeOf(u) - 1 -> Nodes \cup {Null}]
  BY DEF RM!TypeOK
<1>2. buckets' = [buckets EXCEPT ![t] = row]
  OBVIOUS
<1>3. /\ row \in [0 .. RM!SizeOf(t) - 1 -> Nodes \cup {Null}] /\ row[b] = n
      /\ \A j \in DOMAIN buckets[t] : j # b => row[j] = buckets[t][j]
  BY <1>1
<1> HIDE DEF row
<1>4. DOMAIN buckets' = RM!Tables /\ buckets'[t] = row
      /\ \A u \in RM!Tables : u # t => buckets'[u] = buckets[u]
  BY <1>1, <1>2
<1> QED
  BY <1>1, <1>3, <1>4

LEMMA InsertSplices ==
  ASSUME Constants, RM!StructureInv, UNCHANGED hash_fn_, NEW k \in Keys, NEW v \in Values, RM!Insert(k, v)
  PROVE  Splice(k, {}, {RM!Fresh})
<1> USE DEF RM!StructureInv
<1> DEFINE b == RM!Bucket(k, table_)
           first == buckets[table_][b]
           chain == ReachIn(next, first)
           new == RM!Fresh
<1>1. wpc \in {"idle", "splice"} /\ table_ \in RM!Tables
  BY SpliceStarts DEF RM!Insert
<1>2. /\ first \in Nodes \cup {Null} /\ b \in DOMAIN buckets[table_]
      /\ chain \in SUBSET Nodes /\ chain \in SUBSET allocated
      /\ first = Null => chain = {}
      /\ RM!NodeOf(k) = Null => \A m \in chain : key[m] # k
  BY <1>1, FoundNode
<1>3. new \in Nodes /\ new \notin allocated
  BY FreshIsFree DEF RM!Insert
<1>4. next[new] = Null /\ \A m \in Nodes : next[m] # new
  BY <1>1, <1>3, FreeIsUnlinked
<1>5. /\ allocated' = allocated \cup {new}
      /\ key' = [key EXCEPT ![new] = k] /\ value' = [value EXCEPT ![new] = v]
      /\ next' = [next EXCEPT ![new] = first]
      /\ buckets' = [buckets EXCEPT ![table_][b] = new]
      /\ wpc' = "count" /\ wkey' = None /\ wvalue' = None
      /\ UNCHANGED <<table_, visible, pinned, count_, retired, unlinked, rpc, rkey, rtable, current>>
      /\ RM!NodeOf(k) = Null
  BY DEF RM!Insert, RM!Allocate, RM!readers, RM!periods
<1> HIDE DEF new, b
<1>6. /\ key \in [Nodes -> Keys \cup {None}] /\ value \in [Nodes -> Values \cup {None}]
      /\ next \in [Nodes -> Nodes \cup {Null}]
  BY DEF RM!TypeOK
<1>7. /\ key' \in [Nodes -> Keys \cup {None}] /\ value' \in [Nodes -> Values \cup {None}]
      /\ next' \in [Nodes -> Nodes \cup {Null}]
      /\ \A n \in Nodes \ {new} : key'[n] = key[n] /\ value'[n] = value[n] /\ next'[n] = next[n]
      /\ key'[new] = k /\ value'[new] = v /\ next'[new] = first
  BY <1>2, <1>3, <1>5, <1>6
<1>8. /\ DOMAIN buckets' = RM!Tables
      /\ \A t \in RM!Tables : buckets'[t] \in [0 .. RM!SizeOf(t) - 1 -> Nodes \cup {Null}]
      /\ \A t \in RM!Tables : \A j \in DOMAIN buckets[t] :
           t # table_ \/ j # b => buckets'[t][j] = buckets[t][j]
      /\ buckets'[table_][b] = new
  BY <1>1, <1>2, <1>3, <1>5, BucketsTyped
<1>9. PICK rank \in [Nodes -> Nat] : Descends(next, rank)
  BY ChainRanks
<1> HIDE DEF first
<1> DEFINE rank2 == [rank EXCEPT ![new] = IF first = Null THEN 0 ELSE rank[first] + 1]
<1>10. rank2 \in [Nodes -> Nat] /\ \A n \in Nodes \ {new} : rank2[n] = rank[n]
       /\ rank2[new] = IF first = Null THEN 0 ELSE rank[first] + 1
  BY <1>2, <1>3
<1> HIDE DEF rank2
<1>11. Null \notin Nodes /\ \A n \in Nodes : next[n] # Null => rank[next[n]] < rank[n]
  BY <1>9 DEF Descends
<1>12. first # new
  <2>1. CASE first = Null
    BY <1>3, <1>11, <2>1
  <2>2. CASE first # Null
    <3>1. first \in Nodes
      BY <1>2, <2>2
    <3>2. first \in chain
      BY <1>9, <3>1, ReachClosed
    <3> QED
      BY <1>2, <1>3, <3>2
  <2> QED
    BY <2>1, <2>2
<1>13. ASSUME NEW n \in Nodes, next'[n] # Null PROVE rank2[next'[n]] < rank2[n]
  <2>1. CASE n = new
    <3>1. next'[n] = first /\ first \in Nodes /\ rank2[first] = rank[first] /\ rank2[n] = rank[first] + 1
      BY <1>2, <1>7, <1>10, <1>12, <1>13, <2>1
    <3>2. rank[first] \in Nat
      BY <3>1
    <3> QED
      BY <3>1, <3>2
  <2>2. CASE n # new
    <3>1. next'[n] = next[n] /\ next[n] # new /\ next[n] \in Nodes
      BY <1>4, <1>6, <1>7, <1>13, <2>2
    <3>2. rank2[n] = rank[n] /\ rank2[next[n]] = rank[next[n]]
      BY <1>10, <2>2, <3>1
    <3> QED
      BY <1>11, <1>13, <3>1, <3>2
  <2> QED
    BY <2>1, <2>2
<1>14. Descends(next', rank2)
  BY <1>7, <1>10, <1>11, <1>13 DEF Descends
<1>15. ReachIn(next', first) = chain
  <2>1. \A n \in ReachIn(next, first) : next'[n] = next[n]
    BY <1>2, <1>3, <1>7
  <2> QED
    BY <1>2, <1>9, <1>14, <2>1, ReachSame
<1>16. ReachIn(next', new) = {new} \cup chain
  <2>1. ReachIn(next', new) = {new} \cup ReachIn(next', next'[new])
    BY <1>3, <1>7, <1>11, ReachUnfolds
  <2> QED
    BY <1>7, <1>15, <2>1
<1>17. unlinked' = Null
  BY <1>1, <1>5 DEF RM!WriterInv
<1>18. /\ {} \in SUBSET chain /\ {new} \in SUBSET (Nodes \ allocated)
       /\ \A m, n \in {new} : m = n
       /\ \A n \in chain \ {} : key[n] # k
  BY <1>2, <1>3, <1>5
<1>19. /\ \A n \in Nodes : next'[n] = next[n] \/ n \in (chain \ {}) \cup {new}
       /\ ReachIn(next', buckets'[table_][b]) = (chain \ {}) \cup {new}
       /\ \E rk \in [Nodes -> Nat] : Descends(next', rk)
  BY <1>7, <1>8, <1>10, <1>14, <1>16
<1>20. /\ wkey' \in Keys \cup {None} /\ wvalue' \in Values \cup {None}
       /\ \A n \in {new} : key'[n] = k /\ value'[n] \in Values
       /\ unlinked' \in Nodes \cup {Null} /\ {} = {unlinked'} \ {Null}
       /\ (unlinked' # Null) <=> (wpc' \in {"uncount", "retire"})
  BY <1>5, <1>7, <1>17
<1> QED
  BY <1>1, <1>5, <1>7, <1>8, <1>18, <1>19, <1>20 DEF Splice, new, first, b

LEMMA Relinked ==
  ASSUME NEW old, NEW to, NEW links, NEW k, key[old] = k, RM!Relink(old, to, links),
         NEW b, b = RM!Bucket(k, table_), NEW first, first = buckets[table_][b]
  PROVE  /\ buckets' = IF BeforeIn(next, first, old) # {} THEN buckets
                       ELSE [buckets EXCEPT ![table_][b] = to]
         /\ next' = [m \in Nodes |-> IF m \in BeforeIn(next, first, old) THEN to ELSE links[m]]
<1>1. RM!Before(old, k) = BeforeIn(next, first, old)
  BY DEF RM!Before, BeforeIn, RM!Reach, ReachIn
<1>2. /\ buckets' = IF RM!Before(old, k) # {} THEN buckets
                    ELSE [buckets EXCEPT ![table_][b] = to]
      /\ next' = [m \in Nodes |-> IF m \in RM!Before(old, k) THEN to ELSE links[m]]
  BY DEF RM!Relink
<1> QED
  BY <1>1, <1>2

(* The buckets after a Relink.                                             *)
LEMMA RelinkedBuckets ==
  ASSUME RM!TypeOK, table_ \in RM!Tables, NEW b \in DOMAIN buckets[table_], NEW to \in Nodes \cup {Null},
         NEW B, B # {} => buckets' = buckets, B = {} => buckets' = [buckets EXCEPT ![table_][b] = to]
  PROVE  /\ DOMAIN buckets' = RM!Tables
         /\ \A u \in RM!Tables : buckets'[u] \in [0 .. RM!SizeOf(u) - 1 -> Nodes \cup {Null}]
         /\ \A u \in RM!Tables : \A j \in DOMAIN buckets[u] :
              u # table_ \/ j # b => buckets'[u][j] = buckets[u][j]
         /\ buckets'[table_][b] = IF B # {} THEN buckets[table_][b] ELSE to
<1>1. CASE B # {}
  BY <1>1 DEF RM!TypeOK
<1>2. CASE B = {}
  <2>1. buckets' = [buckets EXCEPT ![table_][b] = to]
    BY <1>2
  <2>2. /\ DOMAIN buckets' = RM!Tables
        /\ \A u \in RM!Tables : buckets'[u] \in [0 .. RM!SizeOf(u) - 1 -> Nodes \cup {Null}]
        /\ \A u \in RM!Tables : \A j \in DOMAIN buckets[u] :
             u # table_ \/ j # b => buckets'[u][j] = buckets[u][j]
        /\ buckets'[table_][b] = to
    BY <2>1, BucketsTyped
  <2> QED
    BY <1>2, <2>2
<1> QED
  BY <1>1, <1>2

LEMMA ReplaceSplices ==
  ASSUME Constants, RM!StructureInv, UNCHANGED hash_fn_, NEW k \in Keys, NEW v \in Values, RM!Replace(k, v)
  PROVE  Splice(k, {RM!NodeOf(k)}, {RM!Fresh})
<1> USE DEF RM!StructureInv
<1> DEFINE b == RM!Bucket(k, table_)
           first == buckets[table_][b]
           chain == ReachIn(next, first)
           new == RM!Fresh
           old == RM!NodeOf(k)
           links == [next EXCEPT ![new] = next[old]]
           B == BeforeIn(next, first, old)
<1>1. wpc \in {"idle", "splice"} /\ table_ \in RM!Tables
  BY SpliceStarts DEF RM!Replace
<1>2. /\ first \in Nodes \cup {Null} /\ b \in DOMAIN buckets[table_]
      /\ chain \in SUBSET Nodes /\ chain \in SUBSET allocated
      /\ first = Null => chain = {}
      /\ old # Null => old \in chain /\ key[old] = k /\ \A m \in chain \ {old} : key[m] # k
  BY <1>1, FoundNode
<1>3. new \in Nodes /\ new \notin allocated
  BY FreshIsFree DEF RM!Replace
<1>4. next[new] = Null /\ \A m \in Nodes : next[m] # new
  BY <1>1, <1>3, FreeIsUnlinked
<1>5. /\ allocated' = allocated \cup {new}
      /\ key' = [key EXCEPT ![new] = k] /\ value' = [value EXCEPT ![new] = v]
      /\ RM!Relink(old, new, links)
      /\ unlinked' = old /\ old # Null
      /\ wpc' = "retire" /\ wkey' = None /\ wvalue' = None
      /\ UNCHANGED <<table_, visible, pinned, count_, retired, rpc, rkey, rtable, current>>
  BY DEF RM!Replace, RM!Allocate, RM!readers, RM!periods
<1>6. /\ old \in chain /\ key[old] = k /\ first \in Nodes
      /\ \A m \in chain \ {old} : key[m] # k
  BY <1>2, <1>5
<1> HIDE DEF new, old, b, links
<1>7. /\ buckets' = IF B # {} THEN buckets ELSE [buckets EXCEPT ![table_][b] = new]
      /\ next' = [m \in Nodes |-> IF m \in B THEN new ELSE links[m]]
  <2>1. b = RM!Bucket(k, table_)
    BY DEF b
  <2> QED
    BY <1>5, <1>6, <2>1, Relinked
<1> HIDE DEF first
<1>8. /\ key \in [Nodes -> Keys \cup {None}] /\ value \in [Nodes -> Values \cup {None}]
      /\ next \in [Nodes -> Nodes \cup {Null}]
  BY DEF RM!TypeOK
<1>9. old \in Nodes /\ old # new /\ next[old] \in Nodes \cup {Null} /\ next[old] # new
      /\ B \subseteq chain /\ \A m \in B : next[m] = old /\ m \in Nodes /\ m # new
  BY <1>2, <1>3, <1>4, <1>6, <1>8 DEF BeforeIn
<1>10. \A n \in Nodes : next'[n] = IF n \in B THEN new ELSE IF n = new THEN next[old] ELSE next[n]
  BY <1>3, <1>7, <1>8 DEF links
<1> HIDE DEF B
<1>11. /\ key' \in [Nodes -> Keys \cup {None}] /\ value' \in [Nodes -> Values \cup {None}]
       /\ next' \in [Nodes -> Nodes \cup {Null}]
       /\ \A n \in Nodes \ {new} : key'[n] = key[n] /\ value'[n] = value[n]
       /\ key'[new] = k /\ value'[new] = v
  <2>1. \A n \in Nodes : next'[n] \in Nodes \cup {Null}
    BY <1>3, <1>8, <1>9, <1>10
  <2>2. next' \in [Nodes -> Nodes \cup {Null}]
    BY <1>7, <2>1
  <2> QED
    BY <1>3, <1>5, <1>8, <2>2
<1>12. /\ DOMAIN buckets' = RM!Tables
       /\ \A t \in RM!Tables : buckets'[t] \in [0 .. RM!SizeOf(t) - 1 -> Nodes \cup {Null}]
       /\ \A t \in RM!Tables : \A j \in DOMAIN buckets[t] :
            t # table_ \/ j # b => buckets'[t][j] = buckets[t][j]
       /\ buckets'[table_][b] = IF B # {} THEN buckets[table_][b] ELSE new
  <2>1. new \in Nodes \cup {Null}
    BY <1>3
  <2> QED
    BY <1>1, <1>2, <1>7, <2>1, RelinkedBuckets
<1>13. PICK rank \in [Nodes -> Nat] : Descends(next, rank)
  BY ChainRanks
<1> DEFINE rank2 == [rank EXCEPT ![new] = rank[old]]
<1>14. rank2 \in [Nodes -> Nat] /\ rank2[new] = rank[old] /\ \A n \in Nodes \ {new} : rank2[n] = rank[n]
  BY <1>3, <1>9
<1> HIDE DEF rank2
<1>15. Null \notin Nodes /\ \A n \in Nodes : next[n] # Null => rank[next[n]] < rank[n]
  BY <1>13 DEF Descends
<1>16. ASSUME NEW n \in Nodes, next'[n] # Null PROVE rank2[next'[n]] < rank2[n]
  <2>1. CASE n \in B
    <3>1. next'[n] = new /\ rank2[n] = rank[n] /\ rank[old] < rank[n]
      BY <1>9, <1>10, <1>14, <1>15, <2>1
    <3> QED
      BY <1>14, <3>1
  <2>2. CASE n = new /\ n \notin B
    <3>1. next'[n] = next[old] /\ next[old] \in Nodes /\ rank[next[old]] < rank[old]
      BY <1>9, <1>10, <1>15, <1>16, <2>2
    <3>2. rank2[next[old]] = rank[next[old]]
      BY <1>9, <1>14, <3>1
    <3> QED
      BY <1>14, <2>2, <3>1, <3>2
  <2>3. CASE n # new /\ n \notin B
    <3>1. next'[n] = next[n] /\ next[n] # new /\ next[n] \in Nodes
      BY <1>4, <1>8, <1>10, <1>16, <2>3
    <3>2. rank2[n] = rank[n] /\ rank2[next[n]] = rank[next[n]]
      BY <1>14, <2>3, <3>1
    <3> QED
      BY <1>15, <1>16, <3>1, <3>2
  <2> QED
    BY <2>1, <2>2, <2>3
<1>17. Descends(next', rank2)
  BY <1>11, <1>14, <1>15, <1>16 DEF Descends
<1>18. ReachIn(next', buckets'[table_][b]) = (chain \ {old}) \cup {new}
  <2> DEFINE head == buckets'[table_][b]
  <2>1. head = IF BeforeIn(next, first, old) # {} THEN first ELSE new
    BY <1>12 DEF B, first
  <2>2. \A n \in Nodes : next'[n] = IF n \in BeforeIn(next, first, old) THEN new
                                    ELSE IF n = new THEN next[old] ELSE next[n]
    BY <1>10 DEF B
  <2>3. new \notin ReachIn(next, first) /\ old \in ReachIn(next, first)
    BY <1>2, <1>3, <1>6
  <2> HIDE DEF head
  <2>4. ReachIn(next', head) = (ReachIn(next, first) \ {old}) \cup {new}
    BY <1>3, <1>4, <1>6, <1>13, <1>17, <2>1, <2>2, <2>3, ReachReplaced
  <2> QED
    BY <2>4 DEF head
<1>19. \A n \in Nodes : next'[n] = next[n] \/ n \in (chain \ {old}) \cup {new}
  <2> SUFFICES ASSUME NEW n \in Nodes PROVE next'[n] = next[n] \/ n \in (chain \ {old}) \cup {new}
    OBVIOUS
  <2>1. CASE n \in B
    <3>1. rank[old] < rank[n] /\ rank[n] \in Nat
      BY <1>9, <1>15, <2>1
    <3>2. n # old
      BY <3>1
    <3> QED
      BY <1>9, <2>1, <3>2
  <2>2. CASE n \notin B
    BY <1>10, <2>2
  <2> QED
    BY <2>1, <2>2
<1>20. /\ {old} \in SUBSET chain /\ {new} \in SUBSET (Nodes \ allocated)
       /\ \A m, n \in {new} : m = n
       /\ \A n \in chain \ {old} : key[n] # k
       /\ \E rk \in [Nodes -> Nat] : Descends(next', rk)
  BY <1>3, <1>6, <1>14, <1>17
<1>21. /\ wkey' \in Keys \cup {None} /\ wvalue' \in Values \cup {None}
       /\ \A n \in {new} : key'[n] = k /\ value'[n] \in Values
       /\ unlinked' \in Nodes \cup {Null} /\ {old} = {unlinked'} \ {Null}
       /\ (unlinked' # Null) <=> (wpc' \in {"uncount", "retire"})
  BY <1>5, <1>9, <1>11
<1> QED
  BY <1>1, <1>5, <1>11, <1>12, <1>18, <1>19, <1>20, <1>21 DEF Splice, new, old, first, b

LEMMA RemoveSplices ==
  ASSUME Constants, RM!StructureInv, UNCHANGED hash_fn_, NEW k \in Keys, RM!Remove(k)
  PROVE  Splice(k, {RM!NodeOf(k)}, {})
<1> USE DEF RM!StructureInv
<1> DEFINE b == RM!Bucket(k, table_)
           first == buckets[table_][b]
           chain == ReachIn(next, first)
           old == RM!NodeOf(k)
           B == BeforeIn(next, first, old)
<1>1. wpc = "idle" /\ table_ \in RM!Tables
  BY DEF RM!Remove, RM!TypeOK
<1>2. /\ first \in Nodes \cup {Null} /\ b \in DOMAIN buckets[table_]
      /\ chain \in SUBSET Nodes /\ chain \in SUBSET allocated
      /\ first = Null => chain = {}
      /\ old # Null => old \in chain /\ key[old] = k /\ \A m \in chain \ {old} : key[m] # k
  BY <1>1, FoundNode
<1>5. /\ RM!Relink(old, next[old], next)
      /\ unlinked' = old /\ old # Null /\ wpc' = "uncount"
      /\ UNCHANGED <<table_, visible, pinned, key, value, allocated, count_, retired, wkey, wvalue,
                     rpc, rkey, rtable, current>>
  BY DEF RM!Remove, RM!readers, RM!periods
<1>6. /\ old \in chain /\ key[old] = k /\ first \in Nodes
      /\ \A m \in chain \ {old} : key[m] # k
  BY <1>2, <1>5
<1> HIDE DEF old, b
<1>7. /\ buckets' = IF B # {} THEN buckets ELSE [buckets EXCEPT ![table_][b] = next[old]]
      /\ next' = [m \in Nodes |-> IF m \in B THEN next[old] ELSE next[m]]
  <2>1. b = RM!Bucket(k, table_)
    BY DEF b
  <2> QED
    BY <1>5, <1>6, <2>1, Relinked
<1> HIDE DEF first
<1>8. /\ key \in [Nodes -> Keys \cup {None}] /\ value \in [Nodes -> Values \cup {None}]
      /\ next \in [Nodes -> Nodes \cup {Null}]
      /\ wkey \in Keys \cup {None} /\ wvalue \in Values \cup {None}
  BY DEF RM!TypeOK
<1>9. old \in Nodes /\ next[old] \in Nodes \cup {Null}
      /\ B \subseteq chain /\ \A m \in B : next[m] = old /\ m \in Nodes
  BY <1>2, <1>6, <1>8 DEF BeforeIn
<1>10. \A n \in Nodes : next'[n] = IF n \in B THEN next[old] ELSE next[n]
  BY <1>7
<1> HIDE DEF B
<1>11. next' \in [Nodes -> Nodes \cup {Null}]
  <2>1. \A n \in Nodes : next'[n] \in Nodes \cup {Null}
    BY <1>8, <1>9, <1>10
  <2> QED
    BY <1>7, <2>1
<1>12. /\ DOMAIN buckets' = RM!Tables
       /\ \A t \in RM!Tables : buckets'[t] \in [0 .. RM!SizeOf(t) - 1 -> Nodes \cup {Null}]
       /\ \A t \in RM!Tables : \A j \in DOMAIN buckets[t] :
            t # table_ \/ j # b => buckets'[t][j] = buckets[t][j]
       /\ buckets'[table_][b] = IF B # {} THEN buckets[table_][b] ELSE next[old]
  BY <1>1, <1>2, <1>7, <1>9, RelinkedBuckets
<1>13. PICK rank \in [Nodes -> Nat] : Descends(next, rank)
  BY ChainRanks
<1>15. Null \notin Nodes /\ \A n \in Nodes : next[n] # Null => rank[next[n]] < rank[n]
  BY <1>13 DEF Descends
<1>16. ASSUME NEW n \in Nodes, next'[n] # Null PROVE rank[next'[n]] < rank[n]
  <2>1. CASE n \in B
    <3>1. next'[n] = next[old] /\ rank[old] < rank[n] /\ rank[next[old]] < rank[old] /\ next[old] \in Nodes
      BY <1>9, <1>10, <1>15, <1>16, <2>1
    <3>2. rank[old] \in Nat /\ rank[n] \in Nat /\ rank[next[old]] \in Nat
      BY <1>9, <3>1
    <3> QED
      BY <3>1, <3>2
  <2>2. CASE n \notin B
    BY <1>10, <1>15, <1>16, <2>2
  <2> QED
    BY <2>1, <2>2
<1>17. Descends(next', rank)
  BY <1>11, <1>15, <1>16 DEF Descends
<1>18. ReachIn(next', buckets'[table_][b]) = (chain \ {old}) \cup {}
  <2> DEFINE head == buckets'[table_][b]
  <2>1. head = IF BeforeIn(next, first, old) # {} THEN first ELSE next[old]
    BY <1>12 DEF B, first
  <2>2. \A n \in Nodes : next'[n] = IF n \in BeforeIn(next, first, old) THEN next[old] ELSE next[n]
    BY <1>10 DEF B
  <2>3. old \in ReachIn(next, first)
    BY <1>6
  <2> HIDE DEF head
  <2>4. ReachIn(next', head) = ReachIn(next, first) \ {old}
    BY <1>6, <1>13, <1>17, <2>1, <2>2, <2>3, ReachRemoved
  <2> QED
    BY <2>4 DEF head
<1>19. \A n \in Nodes : next'[n] = next[n] \/ n \in (chain \ {old}) \cup {}
  <2> SUFFICES ASSUME NEW n \in Nodes PROVE next'[n] = next[n] \/ n \in chain \ {old}
    OBVIOUS
  <2>1. CASE n \in B
    <3>1. rank[old] < rank[n] /\ rank[n] \in Nat
      BY <1>9, <1>15, <2>1
    <3>2. n # old
      BY <3>1
    <3> QED
      BY <1>9, <2>1, <3>2
  <2>2. CASE n \notin B
    BY <1>10, <2>2
  <2> QED
    BY <2>1, <2>2
<1>20. /\ {old} \in SUBSET chain /\ {} \in SUBSET (Nodes \ allocated)
       /\ \A m, n \in {} : m = n
       /\ \A n \in chain \ {old} : key[n] # k
       /\ \E rk \in [Nodes -> Nat] : Descends(next', rk)
       /\ allocated' = allocated \cup {}
  BY <1>5, <1>6, <1>17
<1>21. /\ wkey' \in Keys \cup {None} /\ wvalue' \in Values \cup {None}
       /\ key' \in [Nodes -> Keys \cup {None}] /\ value' \in [Nodes -> Values \cup {None}]
       /\ \A n \in {} : key'[n] = k /\ value'[n] \in Values
       /\ \A n \in Nodes \ {} : key'[n] = key[n] /\ value'[n] = value[n]
       /\ unlinked' \in Nodes \cup {Null} /\ {old} = {unlinked'} \ {Null}
       /\ (unlinked' # Null) <=> (wpc' \in {"uncount", "retire"})
  BY <1>5, <1>8, <1>9
<1>22. wpc \in {"idle", "splice"} /\ wpc' \in {"retire", "count", "uncount"}
  BY <1>1, <1>5
<1> QED
  BY <1>1, <1>5, <1>11, <1>12, <1>18, <1>19, <1>20, <1>21, <1>22 DEF Splice, old, first, b

-----------------------------------------------------------------------------
(* What Delete takes: the nodes themselves, and those of the tables.       *)
Doomed(objects) == (objects \cap Nodes) \cup UNION {RM!NodesOf(t) : t \in objects \cap RM!Tables}

LEMMA DeleteChains ==
  ASSUME Constants, RM!StructureInv, UNCHANGED hash_fn_, NEW objects, RM!Delete(objects),
         \A n \in objects \cap Nodes : RM!RetiredNode(n)
  PROVE  /\ allocated' = allocated \ Doomed(objects) /\ Doomed(objects) \in SUBSET Nodes
         /\ \A n \in Nodes : next'[n] = IF n \in Doomed(objects) THEN Null ELSE next[n]
         /\ next' \in [Nodes -> Nodes \cup {Null}]
         /\ key' \in [Nodes -> Keys \cup {None}] /\ value' \in [Nodes -> Values \cup {None}]
         /\ DOMAIN buckets' = RM!Tables
         /\ \A t \in RM!Tables : buckets'[t] \in [0 .. RM!SizeOf(t) - 1 -> Nodes \cup {Null}]
         /\ \A t \in objects \cap RM!Tables :
              RM!NodesOf(t)' = {} /\ \A j \in DOMAIN buckets'[t] : buckets'[t][j] = Null
         /\ \A t \in RM!Tables \ objects :
              /\ RM!NodesOf(t)' = RM!NodesOf(t) /\ buckets'[t] = buckets[t]
              /\ RM!NodesOf(t) \cap Doomed(objects) = {}
         /\ RM!ChainsInv'
<1> USE DEF RM!StructureInv
<1> DEFINE dead == Doomed(objects)
<1>1. /\ allocated' = allocated \ dead
      /\ key' = [n \in Nodes |-> IF n \in dead THEN None ELSE key[n]]
      /\ value' = [n \in Nodes |-> IF n \in dead THEN None ELSE value[n]]
      /\ next' = [n \in Nodes |-> IF n \in dead THEN Null ELSE next[n]]
      /\ buckets' = [t \in RM!Tables |-> IF t \in objects \cap RM!Tables
                                         THEN [j \in DOMAIN buckets[t] |-> Null] ELSE buckets[t]]
  BY DEF RM!Delete, Doomed
<1>2. dead \in SUBSET Nodes
  <2>1. \A t \in RM!Tables : RM!NodesOf(t) \in SUBSET Nodes
    BY TableNodes
  <2> QED
    BY <2>1 DEF Doomed
<1>3. \A t \in RM!Tables \ objects : RM!NodesOf(t) \cap dead = {}
  <2> SUFFICES ASSUME NEW t \in RM!Tables, t \notin objects, NEW n \in RM!NodesOf(t), n \in dead
               PROVE  FALSE
    OBVIOUS
  <2>1. CASE n \in objects \cap Nodes
    BY <2>1 DEF RM!PlacesInv
  <2>2. CASE \E u \in objects \cap RM!Tables : n \in RM!NodesOf(u)
    <3>1. PICK u \in objects \cap RM!Tables : n \in RM!NodesOf(u)
      BY <2>2
    <3>2. u # t /\ u \in RM!Tables
      BY <3>1
    <3> QED
      BY <3>1, <3>2 DEF RM!PlacesInv
  <2> QED
    BY <2>1, <2>2 DEF Doomed
<1> HIDE DEF dead
<1>4. /\ key \in [Nodes -> Keys \cup {None}] /\ value \in [Nodes -> Values \cup {None}]
      /\ next \in [Nodes -> Nodes \cup {Null}] /\ DOMAIN buckets = RM!Tables
      /\ \A t \in RM!Tables : buckets[t] \in [0 .. RM!SizeOf(t) - 1 -> Nodes \cup {Null}]
  BY DEF RM!TypeOK
<1>5. /\ next' \in [Nodes -> Nodes \cup {Null}]
      /\ key' \in [Nodes -> Keys \cup {None}] /\ value' \in [Nodes -> Values \cup {None}]
      /\ \A n \in Nodes : next'[n] = IF n \in dead THEN Null ELSE next[n]
      /\ \A n \in Nodes \ dead : key'[n] = key[n] /\ value'[n] = value[n]
  BY <1>1, <1>4
<1>6. /\ DOMAIN buckets' = RM!Tables
      /\ \A t \in RM!Tables \ objects : buckets'[t] = buckets[t]
      /\ \A t \in objects \cap RM!Tables : buckets'[t] = [j \in DOMAIN buckets[t] |-> Null]
  BY <1>1
<1>7. /\ \A t \in RM!Tables : buckets'[t] \in [0 .. RM!SizeOf(t) - 1 -> Nodes \cup {Null}]
      /\ \A t \in objects \cap RM!Tables : \A j \in DOMAIN buckets'[t] : buckets'[t][j] = Null
  <2>1. ASSUME NEW t \in RM!Tables PROVE buckets'[t] \in [0 .. RM!SizeOf(t) - 1 -> Nodes \cup {Null}]
    <3>1. CASE t \in objects
      <4>1. buckets'[t] = [j \in DOMAIN buckets[t] |-> Null] /\ DOMAIN buckets[t] = 0 .. RM!SizeOf(t) - 1
        BY <1>4, <1>6, <3>1
      <4> QED
        BY <4>1
    <3>2. CASE t \notin objects
      BY <1>4, <1>6, <3>2
    <3> QED
      BY <3>1, <3>2
  <2>2. \A t \in objects \cap RM!Tables : \A j \in DOMAIN buckets'[t] : buckets'[t][j] = Null
    BY <1>6
  <2> QED
    BY <2>1, <2>2
<1>8. PICK rank \in [Nodes -> Nat] : Descends(next, rank)
  BY ChainRanks
<1>9. Null \notin Nodes /\ \A n \in Nodes : next[n] # Null => rank[next[n]] < rank[n]
  BY <1>8 DEF Descends
<1>10. \A n \in Nodes : next'[n] # Null => rank[next'[n]] < rank[n]
  BY <1>5, <1>9
<1>11. Descends(next', rank)
  BY <1>5, <1>9, <1>10 DEF Descends
<1>12. ReachIn(next', Null) = {}
  BY <1>5, <1>9, ReachUnfolds
<1>13. ASSUME NEW t \in RM!Tables, t \notin objects, NEW j \in DOMAIN buckets[t]
       PROVE  /\ ReachIn(next', buckets'[t][j]) = ReachIn(next, buckets[t][j])
              /\ \A n \in ReachIn(next, buckets[t][j]) : n \in Nodes /\ n \notin dead
  <2>1. buckets'[t][j] = buckets[t][j] /\ buckets[t][j] \in Nodes \cup {Null}
    BY <1>4, <1>6, <1>13
  <2>2. ReachIn(next, buckets[t][j]) \subseteq NodesIn(next, buckets, t)
    BY TableChain
  <2>3. RM!NodesOf(t) = NodesIn(next, buckets, t)
    BY Views
  <2>4. RM!NodesOf(t) \in SUBSET Nodes
    BY TableNodes
  <2>5. \A n \in ReachIn(next, buckets[t][j]) : n \in Nodes /\ n \notin dead
    BY <1>3, <1>13, <2>2, <2>3, <2>4
  <2>6. \A n \in ReachIn(next, buckets[t][j]) : next'[n] = next[n]
    BY <1>5, <2>5
  <2>7. ReachIn(next', buckets[t][j]) = ReachIn(next, buckets[t][j])
    BY <1>8, <1>11, <2>1, <2>6, ReachSame
  <2> QED
    BY <2>1, <2>5, <2>7
<1>14. ASSUME NEW t \in RM!Tables, t \notin objects
       PROVE  NodesIn(next', buckets', t) = NodesIn(next, buckets, t)
  <2>1. DOMAIN buckets'[t] = DOMAIN buckets[t]
    BY <1>6, <1>14
  <2> QED
    BY <1>13, <1>14, <2>1 DEF NodesIn
<1>15. ASSUME NEW t \in objects \cap RM!Tables PROVE NodesIn(next', buckets', t) = {}
  BY <1>7, <1>12 DEF NodesIn
<1>16. \A t \in RM!Tables : RM!NodesOf(t) = NodesIn(next, buckets, t) /\ RM!NodesOf(t)' = NodesIn(next', buckets', t)
  BY Views
<1>17. ChainsHold(next, buckets, key, value, hash_fn_)
  BY ChainsView
<1>18. ChainsHold(next', buckets', key', value', hash_fn_')
  <2>1. ASSUME NEW t \in RM!Tables, NEW j \in DOMAIN buckets'[t], NEW n \in ReachIn(next', buckets'[t][j])
        PROVE  key'[n] \in Keys /\ value'[n] \in Values /\ hash_fn_'[key'[n]] % RM!SizeOf(t) = j
    <3>1. t \notin objects
      BY <1>7, <1>12, <2>1
    <3>2. j \in DOMAIN buckets[t]
      BY <1>6, <3>1
    <3>3. n \in ReachIn(next, buckets[t][j]) /\ n \in Nodes /\ n \notin dead
      BY <1>13, <2>1, <3>1, <3>2
    <3>4. key[n] \in Keys /\ value[n] \in Values /\ hash_fn_[key[n]] % RM!SizeOf(t) = j
      BY <1>17, <3>2, <3>3 DEF ChainsHold
    <3>5. key'[n] = key[n] /\ value'[n] = value[n]
      BY <1>5, <3>3
    <3> QED
      BY <3>4, <3>5
  <2>2. ASSUME NEW t \in RM!Tables, NEW m \in NodesIn(next', buckets', t), NEW n \in NodesIn(next', buckets', t),
               key'[m] = key'[n]
        PROVE  m = n
    <3>1. t \notin objects
      BY <1>15, <2>2
    <3>2. m \in RM!NodesOf(t) /\ n \in RM!NodesOf(t)
      BY <1>14, <1>16, <2>2, <3>1
    <3>3. m \in Nodes \ dead /\ n \in Nodes \ dead
      BY <1>3, <3>1, <3>2, TableNodes
    <3>4. key[m] = key[n]
      BY <1>5, <2>2, <3>3
    <3> QED
      BY <3>2, <3>4 DEF RM!ChainsInv
  <2> QED
    BY <1>10, <2>1, <2>2 DEF ChainsHold
<1>19. RM!ChainsInv'
  BY <1>18, ChainsView
<1>20. \A t \in RM!Tables \ objects : RM!NodesOf(t)' = RM!NodesOf(t)
  BY <1>14, <1>16
<1>21. \A t \in objects \cap RM!Tables : RM!NodesOf(t)' = {}
  BY <1>15, <1>16
<1> QED
  BY <1>1, <1>2, <1>3, <1>5, <1>6, <1>7, <1>19, <1>20, <1>21 DEF dead

LEMMA DestroyKeeps ==
  ASSUME Constants, RM!StructureInv, UNCHANGED hash_fn_, RM!Destroy
  PROVE  RM!StructureInv'
<1> USE DEF RM!StructureInv
<1> DEFINE objects == {table_}
           dead == Doomed(objects)
<1>1. /\ table_ # RM!NoTable /\ wpc = "idle" /\ RM!InCriticalSection = {} /\ RM!Delete(objects)
      /\ table_' = RM!NoTable /\ visible' = RM!NoTable /\ count_' = 0
      /\ UNCHANGED <<hash_fn_, pinned, retired, wpc, wkey, wvalue, unlinked, rpc, rkey, rtable, current>>
  BY DEF RM!Destroy, RM!writer, RM!readers, RM!periods
<1>2. table_ \in RM!Tables /\ unlinked = Null
      /\ RM!Tables \cap Nodes = {} /\ Null \notin Nodes \cup RM!Tables
  BY <1>1 DEF RM!TypeOK, RM!WriterInv, Constants, RM!ConstantsApart
<1>3. /\ allocated' = allocated \ dead /\ dead \in SUBSET Nodes
      /\ \A n \in Nodes : next'[n] = IF n \in dead THEN Null ELSE next[n]
      /\ next' \in [Nodes -> Nodes \cup {Null}]
      /\ key' \in [Nodes -> Keys \cup {None}] /\ value' \in [Nodes -> Values \cup {None}]
      /\ DOMAIN buckets' = RM!Tables
      /\ \A t \in RM!Tables : buckets'[t] \in [0 .. RM!SizeOf(t) - 1 -> Nodes \cup {Null}]
      /\ \A t \in objects \cap RM!Tables :
           RM!NodesOf(t)' = {} /\ \A j \in DOMAIN buckets'[t] : buckets'[t][j] = Null
      /\ \A t \in RM!Tables \ objects :
           /\ RM!NodesOf(t)' = RM!NodesOf(t) /\ buckets'[t] = buckets[t]
           /\ RM!NodesOf(t) \cap dead = {}
      /\ RM!ChainsInv'
  <2>1. objects \cap Nodes = {}
    BY <1>2
  <2>2. \A n \in objects \cap Nodes : RM!RetiredNode(n)
    BY <2>1
  <2> QED
    BY <1>1, <2>2, DeleteChains
<1>4. dead = RM!NodesOf(table_)
  BY <1>2 DEF Doomed
<1> HIDE DEF dead
<1>5. RM!Tables' = RM!Tables /\ RM!NoTable' = RM!NoTable /\ RM!InCriticalSection' = {}
  BY <1>1 DEF RM!Tables, RM!NoTable, RM!InCriticalSection
<1>6. \A n : RM!RetiredNode(n)' <=> RM!RetiredNode(n)
  BY <1>1 DEF RM!RetiredNode
<1>7. RM!TypeOK'
  <2>1. allocated' \subseteq Nodes
    BY <1>3 DEF RM!TypeOK
  <2>2. retired' \subseteq ((Nodes \cup RM!Tables) \X SUBSET pinned)'
    BY <1>1, <1>5 DEF RM!TypeOK
  <2> QED
    BY <1>1, <1>3, <1>5, <2>1, <2>2 DEF RM!TypeOK, RM!SizeOf
<1>8. RM!WriterInv'
  <2>1. (\A t \in RM!Tables : RM!Dead(t) => \A j \in DOMAIN buckets[t] : buckets[t][j] = Null)'
    <3> SUFFICES ASSUME NEW t \in RM!Tables, RM!Dead(t)', NEW j \in DOMAIN buckets'[t]
                 PROVE  buckets'[t][j] = Null
      BY <1>5
    <3>1. CASE t = table_
      BY <1>3, <3>1
    <3>2. CASE t # table_
      <4>1. RM!Dead(t)
        BY <1>1, <3>2 DEF RM!Dead
      <4> QED
        BY <1>3, <3>2, <4>1 DEF RM!WriterInv
    <3> QED
      BY <3>1, <3>2
  <2>2. (table_ = RM!NoTable /\ wpc = "idle" /\ RM!InCriticalSection = {} /\ unlinked = Null)'
    BY <1>1, <1>2, <1>5
  <2> QED
    BY <2>1, <2>2 DEF RM!WriterInv
<1>9. RM!PlacesInv'
  <2>1. (\A x, y \in retired : x[1] = y[1] => x = y)'
    BY <1>1 DEF RM!PlacesInv
  <2>2. \A t \in RM!Tables : RM!NodesOf(t)' \subseteq RM!NodesOf(t)
    BY <1>3
  <2>3. (\A s, t \in RM!Tables : s # t => RM!NodesOf(s) \cap RM!NodesOf(t) = {})'
    BY <1>5, <2>2 DEF RM!PlacesInv
  <2>4. (\A n \in Nodes : RM!RetiredNode(n) \/ n = unlinked => \A t \in RM!Tables : n \notin RM!NodesOf(t))'
    BY <1>1, <1>5, <1>6, <2>2 DEF RM!PlacesInv
  <2>5. (~RM!RetiredNode(unlinked))'
    <3>1. ~RM!RetiredNode(unlinked)
      BY DEF RM!PlacesInv
    <3> QED
      BY <1>1, <3>1 DEF RM!RetiredNode
  <2>6. ASSUME NEW n \in Nodes, n \in allocated'
        PROVE  RM!RetiredNode(n) \/ \E t \in RM!Tables : n \in RM!NodesOf(t)'
    <3>1. n \in allocated /\ n \notin RM!NodesOf(table_)
      BY <1>3, <1>4, <2>6
    <3>2. RM!RetiredNode(n) \/ \E t \in RM!Tables : n \in RM!NodesOf(t)
      BY <1>2, <3>1 DEF RM!PlacesInv
    <3> QED
      BY <1>3, <3>1, <3>2
  <2>7. ASSUME NEW n \in Nodes, RM!RetiredNode(n) \/ \E t \in RM!Tables : n \in RM!NodesOf(t)'
        PROVE  n \in allocated'
    <3>1. CASE RM!RetiredNode(n)
      <4>1. n \in allocated /\ n \notin dead
        BY <1>2, <1>4, <3>1 DEF RM!PlacesInv
      <4> QED
        BY <1>3, <4>1
    <3>2. CASE \E t \in RM!Tables : n \in RM!NodesOf(t)'
      <4>1. PICK t \in RM!Tables : n \in RM!NodesOf(t)'
        BY <3>2
      <4>2. t \notin objects
        BY <1>3, <4>1
      <4>3. n \in RM!NodesOf(t) /\ n \notin dead
        BY <1>3, <4>1, <4>2
      <4>4. n \in allocated
        BY <4>3 DEF RM!PlacesInv
      <4> QED
        BY <1>3, <4>3, <4>4
    <3> QED
      BY <2>7, <3>1, <3>2
  <2>8. (\A n \in Nodes :
          n \in allocated <=> RM!RetiredNode(n) \/ n = unlinked \/ \E t \in RM!Tables : n \in RM!NodesOf(t))'
    BY <1>1, <1>2, <1>5, <1>6, <2>6, <2>7
  <2>9. (\A n \in Nodes : next[n] # Null => n \in allocated /\ (table_ # RM!NoTable => next[n] \in allocated))'
    <3> SUFFICES ASSUME NEW n \in Nodes, next'[n] # Null PROVE n \in allocated'
      BY <1>1, <1>5
    <3>1. n \notin dead /\ next[n] # Null
      BY <1>3
    <3> QED
      BY <1>3, <3>1 DEF RM!PlacesInv
  <2> QED
    BY <2>1, <2>3, <2>4, <2>5, <2>8, <2>9 DEF RM!PlacesInv
<1>10. ProtectionGrows
  <2>1. \A x \in retired' : x[2] = {}
    BY <1>1, RetiredTyped
  <2> QED
    BY <1>1, <2>1 DEF ProtectionGrows
<1>11. RM!ProtectedInv'
  BY <1>1, <1>7, <1>10, ProtectionKept
<1> QED
  BY <1>3, <1>7, <1>8, <1>9, <1>11

LEMMA GcKeeps ==
  ASSUME Constants, RM!StructureInv, UNCHANGED hash_fn_, RM!Gc
  PROVE  RM!StructureInv' /\ ProtectionGrows
<1> USE DEF RM!StructureInv
<1> DEFINE past == {x \in retired : x[2] = {}}
           objects == {x[1] : x \in past}
           dead == Doomed(objects)
<1>1. /\ RM!Delete(objects) /\ retired' = retired \ past
      /\ UNCHANGED <<hash_fn_, table_, visible, pinned, count_, wpc, wkey, wvalue, unlinked, rpc, rkey, rtable, current>>
  BY DEF RM!Gc, RM!writer, RM!readers, RM!G!Reclaim
<1>2. \A x, y \in retired : x[1] = y[1] => x = y
  BY DEF RM!PlacesInv
<1>3. /\ \A x \in retired' : x \in retired /\ x[2] # {} /\ x[1] \notin objects
      /\ \A x \in retired : x[2] # {} => x \in retired'
      /\ \A x \in retired : x \in retired' \/ x[1] \in objects
      /\ \A o \in objects : \E x \in retired : x[1] = o /\ x[2] = {}
  BY <1>1, <1>2
<1>4. /\ allocated' = allocated \ dead /\ dead \in SUBSET Nodes
      /\ \A n \in Nodes : next'[n] = IF n \in dead THEN Null ELSE next[n]
      /\ next' \in [Nodes -> Nodes \cup {Null}]
      /\ key' \in [Nodes -> Keys \cup {None}] /\ value' \in [Nodes -> Values \cup {None}]
      /\ DOMAIN buckets' = RM!Tables
      /\ \A t \in RM!Tables : buckets'[t] \in [0 .. RM!SizeOf(t) - 1 -> Nodes \cup {Null}]
      /\ \A t \in objects \cap RM!Tables :
           RM!NodesOf(t)' = {} /\ \A j \in DOMAIN buckets'[t] : buckets'[t][j] = Null
      /\ \A t \in RM!Tables \ objects :
           /\ RM!NodesOf(t)' = RM!NodesOf(t) /\ buckets'[t] = buckets[t]
           /\ RM!NodesOf(t) \cap dead = {}
      /\ RM!ChainsInv'
  <2>1. \A n \in objects \cap Nodes : RM!RetiredNode(n)
    BY <1>3 DEF RM!RetiredNode
  <2> HIDE DEF objects
  <2> QED
    BY <1>1, <2>1, DeleteChains
<1>5. \A n \in dead : n \in objects \/ \E t \in objects \cap RM!Tables : n \in RM!NodesOf(t)
  BY DEF Doomed
<1>6. \A n \in objects \cap Nodes : n \in dead
  BY DEF Doomed
<1>7. \A t \in objects \cap RM!Tables : RM!NodesOf(t) \subseteq dead
  BY DEF Doomed
<1> HIDE DEF dead, objects, past
<1>8. RM!Tables' = RM!Tables /\ RM!NoTable' = RM!NoTable /\ RM!InCriticalSection' = RM!InCriticalSection
  BY <1>1 DEF RM!Tables, RM!NoTable, RM!InCriticalSection
<1>9. Null \notin Nodes \cup RM!Tables
  BY DEF Constants, RM!ConstantsApart
<1>10. \A n : RM!RetiredNode(n)' => RM!RetiredNode(n) /\ n \notin objects
  BY <1>3 DEF RM!RetiredNode
<1>11. \A t \in RM!Tables : RM!Stands(t)' <=> RM!Stands(t)
  BY <1>1 DEF RM!Stands
<1>12. ASSUME NEW t \in RM!Tables, RM!Stands(t), table_ # RM!NoTable PROVE t \notin objects
  BY <1>3, <1>12 DEF RM!WriterInv
<1>13. ASSUME RM!InCriticalSection # {} PROVE table_ # RM!NoTable /\ table_ \in RM!Tables
  BY <1>13 DEF RM!WriterInv, RM!TypeOK
(* What a reader may touch is not destroyed. *)
<1>14. ASSUME NEW a \in RM!InCriticalSection, NEW t \in RM!Tables, RM!TableFor(a, t)
       PROVE  t \notin objects /\ RM!TableFor(a, t)'
  <2>1. CASE RM!Stands(t)
    BY <1>11, <1>12, <1>13, <2>1 DEF RM!TableFor
  <2>2. CASE \E x \in retired : x[1] = t /\ a \in x[2]
    <3>1. PICK x \in retired : x[1] = t /\ a \in x[2]
      BY <2>2
    <3>2. x \in retired'
      BY <1>3, <3>1
    <3> QED
      BY <1>3, <3>1, <3>2 DEF RM!TableFor
  <2> QED
    BY <1>14, <2>1, <2>2 DEF RM!TableFor
<1>15. ASSUME NEW n \in Nodes, n = unlinked PROVE n \notin dead /\ table_ \in RM!Tables /\ table_ # RM!NoTable
  <2>1. n \notin objects
    BY <1>3, <1>15 DEF RM!PlacesInv, RM!RetiredNode
  <2>2. \A t \in RM!Tables : n \notin RM!NodesOf(t)
    BY <1>15 DEF RM!PlacesInv
  <2>3. wpc # "idle"
    BY <1>9, <1>15 DEF RM!WriterInv
  <2> QED
    BY <1>5, <2>1, <2>2, <2>3 DEF RM!WriterInv, RM!TypeOK
<1>16. ASSUME NEW a \in RM!InCriticalSection, NEW n \in Nodes, RM!NodeFor(a, n)
       PROVE  n \notin dead /\ RM!NodeFor(a, n)'
  <2>1. CASE n = unlinked
    BY <1>1, <1>15, <2>1 DEF RM!NodeFor
  <2>2. CASE \E x \in retired : x[1] = n /\ a \in x[2]
    <3>1. PICK x \in retired : x[1] = n /\ a \in x[2]
      BY <2>2
    <3>2. x \in retired' /\ n \notin objects
      BY <1>3, <3>1
    <3>3. RM!NodeFor(a, n)'
      BY <3>1, <3>2 DEF RM!NodeFor
    <3>4. \A t \in RM!Tables : n \notin RM!NodesOf(t)
      BY <3>1 DEF RM!PlacesInv, RM!RetiredNode
    <3> QED
      BY <1>5, <3>2, <3>3, <3>4
  <2>3. CASE \E t \in RM!Tables : RM!TableFor(a, t) /\ n \in RM!NodesOf(t)
    <3>1. PICK t \in RM!Tables : RM!TableFor(a, t) /\ n \in RM!NodesOf(t)
      BY <2>3
    <3>2. t \notin objects /\ RM!TableFor(a, t)'
      BY <1>14, <3>1
    <3>3. RM!NodesOf(t)' = RM!NodesOf(t) /\ n \notin dead
      BY <1>4, <3>1, <3>2
    <3> QED
      BY <1>8, <3>1, <3>2, <3>3 DEF RM!NodeFor
  <2> QED
    BY <1>16, <2>1, <2>2, <2>3 DEF RM!NodeFor
<1>17. RM!TypeOK'
  <2>1. allocated' \subseteq Nodes
    BY <1>4 DEF RM!TypeOK
  <2>2. retired' \subseteq ((Nodes \cup RM!Tables) \X SUBSET pinned)'
    BY <1>1, <1>3, <1>8 DEF RM!TypeOK
  <2> QED
    BY <1>1, <1>4, <1>8, <2>1, <2>2 DEF RM!TypeOK, RM!SizeOf
<1>18. RM!WriterInv'
  <2>1. (unlinked # Null => next[unlinked] \in RM!NodesOf(table_) \cup {Null})'
    <3> SUFFICES ASSUME unlinked' # Null, next'[unlinked'] # Null
                 PROVE  next'[unlinked'] \in RM!NodesOf(table_)'
      OBVIOUS
    <3>1. PICK n \in Nodes : n = unlinked /\ n = unlinked'
      BY <1>1 DEF RM!TypeOK
    <3>2. n \notin dead /\ table_ \in RM!Tables /\ table_ # RM!NoTable
      BY <1>15, <3>1
    <3>3. next'[n] = next[n] /\ next[n] \in RM!NodesOf(table_)
      BY <1>4, <3>1, <3>2 DEF RM!WriterInv
    <3>4. PICK t \in RM!Tables : t = table_
      BY <3>2
    <3>5. t \notin objects
      BY <1>12, <3>2, <3>4 DEF RM!Stands
    <3>6. RM!NodesOf(t)' = RM!NodesOf(t)
      BY <1>4, <3>5
    <3>7. RM!NodesOf(table_)' = RM!NodesOf(t)'
      BY <1>1, <3>4 DEF RM!NodesOf, RM!Reach
    <3> QED
      BY <3>1, <3>3, <3>4, <3>6, <3>7
  <2>2. (\A x \in retired : x[1] \in RM!Tables /\ table_ # RM!NoTable => x[1] < table_ /\ ~RM!Stands(x[1]))'
    BY <1>1, <1>3, <1>8, <1>11 DEF RM!WriterInv
  <2>3. (\A t \in RM!Tables : RM!Dead(t) => \A j \in DOMAIN buckets[t] : buckets[t][j] = Null)'
    <3> SUFFICES ASSUME NEW t \in RM!Tables, RM!Dead(t)', NEW j \in DOMAIN buckets'[t]
                 PROVE  buckets'[t][j] = Null
      BY <1>8
    <3>1. CASE t \in objects
      BY <1>4, <3>1
    <3>2. CASE t \notin objects
      <4>1. \A x \in retired : x[1] # t
        BY <1>3, <3>2 DEF RM!Dead
      <4>2. RM!Dead(t)
        BY <1>1, <4>1 DEF RM!Dead
      <4> QED
        BY <1>4, <3>2, <4>2 DEF RM!WriterInv
    <3> QED
      BY <3>1, <3>2
  <2>4. (/\ table_ = RM!NoTable => wpc = "idle" /\ RM!InCriticalSection = {}
         /\ wpc = "retireTable" => table_ # 0
         /\ (unlinked # Null) <=> (wpc \in {"uncount", "retire"}))'
    BY <1>1, <1>8 DEF RM!WriterInv
  <2> QED
    BY <2>1, <2>2, <2>3, <2>4 DEF RM!WriterInv
<1>19. RM!PlacesInv'
  <2>1. (\A x, y \in retired : x[1] = y[1] => x = y)'
    BY <1>2, <1>3
  <2>2. \A t \in RM!Tables : RM!NodesOf(t)' \subseteq RM!NodesOf(t)
    BY <1>4
  <2>3. (\A s, t \in RM!Tables : s # t => RM!NodesOf(s) \cap RM!NodesOf(t) = {})'
    BY <1>8, <2>2 DEF RM!PlacesInv
  <2>4. (\A n \in Nodes : RM!RetiredNode(n) \/ n = unlinked => \A t \in RM!Tables : n \notin RM!NodesOf(t))'
    BY <1>1, <1>8, <1>10, <2>2 DEF RM!PlacesInv
  <2>5. (~RM!RetiredNode(unlinked))'
    <3>1. \A x \in retired : x[1] # unlinked
      BY DEF RM!PlacesInv, RM!RetiredNode
    <3> QED
      BY <1>1, <1>3, <3>1 DEF RM!RetiredNode
  <2>6. ASSUME NEW n \in Nodes, n \in allocated'
        PROVE  RM!RetiredNode(n)' \/ n = unlinked \/ \E t \in RM!Tables : n \in RM!NodesOf(t)'
    <3>1. n \in allocated /\ n \notin dead
      BY <1>4, <2>6
    <3>2. CASE RM!RetiredNode(n)
      <4>1. PICK x \in retired : x[1] = n
        BY <3>2 DEF RM!RetiredNode
      <4>2. x \in retired'
        BY <1>3, <1>6, <3>1, <4>1
      <4> QED
        BY <4>1, <4>2 DEF RM!RetiredNode
    <3>3. CASE \E t \in RM!Tables : n \in RM!NodesOf(t)
      <4>1. PICK t \in RM!Tables : n \in RM!NodesOf(t)
        BY <3>3
      <4>2. t \notin objects
        BY <1>7, <3>1, <4>1
      <4> QED
        BY <1>4, <4>1, <4>2
    <3> QED
      BY <3>1, <3>2, <3>3 DEF RM!PlacesInv
  <2>7. ASSUME NEW n \in Nodes,
               RM!RetiredNode(n)' \/ n = unlinked \/ \E t \in RM!Tables : n \in RM!NodesOf(t)'
        PROVE  n \in allocated'
    <3>1. CASE RM!RetiredNode(n)'
      <4>1. n \notin objects /\ RM!RetiredNode(n)
        BY <1>10, <3>1
      <4>2. n \in allocated /\ \A t \in RM!Tables : n \notin RM!NodesOf(t)
        BY <4>1 DEF RM!PlacesInv
      <4> QED
        BY <1>4, <1>5, <4>1, <4>2
    <3>2. CASE n = unlinked
      <4>1. n \in allocated /\ n \notin dead
        BY <1>15, <3>2 DEF RM!PlacesInv
      <4> QED
        BY <1>4, <4>1
    <3>3. CASE \E t \in RM!Tables : n \in RM!NodesOf(t)'
      <4>1. PICK t \in RM!Tables : n \in RM!NodesOf(t)'
        BY <3>3
      <4>2. t \notin objects
        BY <1>4, <4>1
      <4>3. n \in RM!NodesOf(t) /\ n \notin dead
        BY <1>4, <4>1, <4>2
      <4>4. n \in allocated
        BY <4>3 DEF RM!PlacesInv
      <4> QED
        BY <1>4, <4>3, <4>4
    <3> QED
      BY <2>7, <3>1, <3>2, <3>3
  <2>8. (\A n \in Nodes :
          n \in allocated <=> RM!RetiredNode(n) \/ n = unlinked \/ \E t \in RM!Tables : n \in RM!NodesOf(t))'
    BY <1>1, <1>8, <2>6, <2>7
  <2>9. (\A n \in Nodes : next[n] # Null => n \in allocated /\ (table_ # RM!NoTable => next[n] \in allocated))'
    <3> SUFFICES ASSUME NEW n \in Nodes, next'[n] # Null
                 PROVE  n \in allocated' /\ (table_ # RM!NoTable => next'[n] \in allocated')
      BY <1>1, <1>8
    <3>1. n \notin dead /\ next[n] # Null /\ next'[n] = next[n] /\ n \in allocated
      BY <1>4 DEF RM!PlacesInv
    <3>2. ASSUME table_ # RM!NoTable PROVE next[n] \in allocated /\ next[n] \notin dead
      <4>1. next[n] \in allocated /\ next[n] \in Nodes
        BY <3>1, <3>2 DEF RM!PlacesInv, RM!TypeOK
      <4>2. CASE n = unlinked
        <5>1. next[n] \in RM!NodesOf(table_) /\ table_ \in RM!Tables
          BY <1>9, <1>15, <3>1, <4>2 DEF RM!WriterInv
        <5>2. PICK t \in RM!Tables : t = table_
          BY <5>1
        <5>3. t \notin objects
          BY <1>12, <3>2, <5>2 DEF RM!Stands
        <5> QED
          BY <1>4, <4>1, <5>1, <5>2, <5>3
      <4>3. CASE \E t \in RM!Tables : n \in RM!NodesOf(t)
        <5>1. PICK t \in RM!Tables : n \in RM!NodesOf(t)
          BY <4>3
        <5>2. t \notin objects
          BY <1>7, <3>1, <5>1
        <5>3. next[n] \in RM!NodesOf(t)
          BY <3>1, <5>1, TableNodes DEF ClosedIn
        <5> QED
          BY <1>4, <4>1, <5>2, <5>3
      <4>4. CASE RM!RetiredNode(n)
        <5>1. PICK x \in retired : x[1] = n
          BY <4>4 DEF RM!RetiredNode
        <5>2. x \in retired' /\ x[2] # {}
          BY <1>3, <1>6, <3>1, <5>1
        <5>3. PICK a \in x[2] : TRUE
          BY <5>2
        <5>4. a \in RM!InCriticalSection
          BY <5>3, RetiredTyped
        <5>5. RM!NodeFor(a, next[n])
          BY <3>1, <5>1, <5>3 DEF RM!ProtectedInv
        <5> QED
          BY <1>16, <4>1, <5>4, <5>5
      <4> QED
        BY <3>1, <4>2, <4>3, <4>4 DEF RM!PlacesInv
    <3> QED
      BY <1>4, <3>1, <3>2
  <2> QED
    BY <2>1, <2>3, <2>4, <2>5, <2>8, <2>9 DEF RM!PlacesInv
<1>20. ProtectionGrows
  <2>1. ASSUME NEW x \in retired', x[1] \in Nodes, next'[x[1]] # Null
        PROVE  x \in retired /\ next'[x[1]] = next[x[1]]
    BY <1>3, <1>4, <2>1
  <2> QED
    BY <1>14, <1>16, <2>1 DEF ProtectionGrows
<1>21. RM!ProtectedInv'
  BY <1>1, <1>17, <1>20, ProtectionKept
<1> QED
  BY <1>4, <1>17, <1>18, <1>19, <1>20, <1>21

-----------------------------------------------------------------------------
(* Resize builds each chain of the new table back to front: copy[j] leads  *)
(* on to the last copy before it that is in the chain.                     *)
LastIn(S, bound, copy) ==
  LET U == {j \in S : j <= bound} IN IF U = {} THEN Null ELSE copy[RM!Max(U)]

LEMMA LastIsLargest ==
  ASSUME NEW bound \in Nat, NEW U \in SUBSET (0 .. bound), NEW x \in U, \A y \in U : y <= x
  PROVE  RM!Max(U) = x
<1> DEFINE top == CHOOSE z \in U : \A y \in U : z >= y
<1>1. \A y \in U : x >= y
  OBVIOUS
<1>2. top \in U /\ \A y \in U : top >= y
  BY <1>1, Zenon
<1>3. RM!Max(U) = top
  BY DEF RM!Max
<1> HIDE DEF top
<1>4. top >= x /\ x >= top /\ top \in Nat /\ x \in Nat
  BY <1>1, <1>2
<1> QED
  BY <1>3, <1>4

LinksBack(nx, S, copy) == \A j \in S : nx[copy[j]] = LastIn(S, j - 1, copy)

CopiesOf(S, copy) == {copy[j] : j \in S}

LEMMA ChainOfCopies ==
  ASSUME NEW nx, NEW rank, Descends(nx, rank), NEW N \in Nat, NEW S \in SUBSET (1 .. N),
         NEW copy \in [1 .. N -> Nodes], LinksBack(nx, S, copy)
  PROVE  ReachIn(nx, LastIn(S, N, copy)) = CopiesOf(S, copy)
<1> USE DEF LinksBack, CopiesOf
<1> DEFINE W == {copy[j] : j \in S}
<1>0. /\ Null \notin Nodes /\ nx \in [Nodes -> Nodes \cup {Null}]
      /\ \A j \in S : copy[j] \in Nodes /\ j \in Nat /\ 1 <= j /\ j <= N /\ j \in 0 .. N
      /\ ReachIn(nx, Null) = {}
  BY ReachUnfolds DEF Descends
<1>1. CASE S = {}
  <2>1. LastIn(S, N, copy) = Null
    BY <1>1 DEF LastIn
  <2> QED
    BY <1>0, <1>1, <2>1
<1>2. CASE S # {}
  <2>1. S \in SUBSET (0 .. N)
    BY <1>0
  <2>2. PICK top \in S : \A y \in S : y <= top
    BY <1>2, <2>1, LargestOf
  <2> DEFINE head == copy[top]
             R == ReachIn(nx, head)
  <2>3. LastIn(S, N, copy) = head
    <3>1. {j \in S : j <= N} = S
      BY <1>0
    <3>2. RM!Max(S) = top
      BY <2>1, <2>2, LastIsLargest
    <3> QED
      BY <1>2, <3>1, <3>2 DEF LastIn
  <2>4. head \in Nodes /\ head \in W /\ W \in SUBSET Nodes
    BY <1>0
  <2>5. ASSUME NEW j \in S, LastIn(S, j - 1, copy) # Null
        PROVE  LastIn(S, j - 1, copy) \in W
    <3> DEFINE U == {z \in S : z <= j - 1}
    <3>1. U # {} /\ U \in SUBSET (0 .. N)
      BY <1>0, <2>5 DEF LastIn
    <3> HIDE DEF U
    <3>2. PICK x \in U : \A y \in U : y <= x
      BY <3>1, LargestOf
    <3>3. RM!Max(U) = x
      BY <3>1, <3>2, LastIsLargest
    <3>4. LastIn(S, j - 1, copy) = copy[x]
      BY <3>1, <3>3 DEF LastIn, U
    <3>5. x \in S
      BY <3>2 DEF U
    <3> QED
      BY <3>4, <3>5
  <2>6. ClosedIn(nx, W)
    <3> SUFFICES ASSUME NEW n \in W, nx[n] # Null PROVE nx[n] \in W
      BY DEF ClosedIn
    <3>1. PICK j \in S : n = copy[j]
      OBVIOUS
    <3> QED
      BY <2>5, <3>1
  <2> HIDE DEF W
  <2>7. R \subseteq W
    BY <2>4, <2>6, ReachLeast
  <2>8. R \in SUBSET Nodes /\ ClosedIn(nx, R) /\ head \in R
    BY <2>4, ReachClosed
  <2> HIDE DEF R
  <2> DEFINE Bad == {j \in S : copy[j] \notin R}
  <2>9. Bad = {}
    <3> SUFFICES ASSUME Bad # {} PROVE FALSE
      OBVIOUS
    <3>1. Bad \in SUBSET (0 .. N)
      BY <1>0
    <3>2. top \notin Bad
      BY <2>8
    <3> HIDE DEF Bad
    <3>3. PICK x \in Bad : \A y \in Bad : y <= x
      BY <3>1, LargestOf
    <3> USE DEF Bad
    <3>4. x \in S /\ copy[x] \notin R /\ x # top
      BY <3>2, <3>3
    <3> DEFINE T == {j \in S : x < j}
    <3>5. T \in SUBSET Nat /\ top \in T
      <4>1. x <= top /\ x \in Nat /\ top \in Nat
        BY <1>0, <2>2, <3>4
      <4>2. x < top
        BY <3>4, <4>1
      <4>3. T \in SUBSET Nat
        BY <1>0
      <4> QED
        BY <4>2, <4>3
    <3> HIDE DEF T
    <3>6. PICK y \in T : \A z \in T : y <= z
      BY <3>5, LeastOf
    <3>7. y \in S /\ x < y
      BY <3>6 DEF T
    <3>8. y \notin Bad
      <4>1. x \in Nat /\ y \in Nat
        BY <1>0, <3>4, <3>7
      <4> QED
        BY <3>3, <3>7, <4>1
    <3>9. copy[y] \in R
      BY <3>7, <3>8
    <3> DEFINE U == {z \in S : z <= y - 1}
    <3>10. x \in U /\ U \in SUBSET (0 .. N)
      <4>1. x \in Nat /\ y \in Nat
        BY <1>0, <3>4, <3>7
      <4>2. x <= y - 1
        BY <3>7, <4>1
      <4>3. U \in SUBSET (0 .. N)
        BY <1>0
      <4> QED
        BY <3>4, <4>2, <4>3
    <3>11. ASSUME NEW z \in U PROVE z <= x
      <4>1. z \in S /\ z <= y - 1 /\ z \in Nat /\ y \in Nat /\ x \in Nat
        BY <1>0, <3>4, <3>7
      <4>2. z \notin T
        BY <3>6, <4>1
      <4> QED
        BY <4>1, <4>2 DEF T
    <3> HIDE DEF U
    <3>12. RM!Max(U) = x
      BY <3>10, <3>11, LastIsLargest
    <3>13. LastIn(S, y - 1, copy) = copy[x]
      BY <3>10, <3>12 DEF LastIn, U
    <3>14. nx[copy[y]] = copy[x] /\ copy[x] # Null
      BY <1>0, <3>4, <3>7, <3>13
    <3>15. copy[x] \in R
      BY <2>8, <3>9, <3>14 DEF ClosedIn
    <3> QED
      BY <3>4, <3>15
  <2>10. W \subseteq R
    BY <2>9 DEF W
  <2> QED
    BY <2>3, <2>7, <2>10 DEF R, W
<1> QED
  BY <1>1, <1>2

-----------------------------------------------------------------------------
(* Resize: copy[j] is the copy of olds[j].                                 *)
Fits(N, olds, b) == {j \in 1 .. N : RM!Bucket(key[olds[j]], table_ + 1) = b}

Copying(N, olds, copy) ==
  LET to == table_ + 1
      Copies == {copy[j] : j \in 1 .. N} IN
  /\ table_ \in RM!Tables /\ to \in RM!Tables /\ wpc = "idle" /\ table_ < to
  /\ N \in Nat
  /\ olds \in [1 .. N -> RM!NodesOf(table_)] /\ copy \in [1 .. N -> Nodes \ allocated]
  /\ \A j, m \in 1 .. N : j # m => olds[j] # olds[m] /\ copy[j] # copy[m]
  /\ \A n \in RM!NodesOf(table_) : \E j \in 1 .. N : olds[j] = n
  /\ allocated' = allocated \cup Copies
  /\ key' \in [Nodes -> Keys \cup {None}] /\ value' \in [Nodes -> Values \cup {None}]
  /\ \A n \in Nodes \ Copies : key'[n] = key[n] /\ value'[n] = value[n] /\ next'[n] = next[n]
  /\ \A j \in 1 .. N : /\ key'[copy[j]] = key[olds[j]] /\ value'[copy[j]] = value[olds[j]]
                       /\ next'[copy[j]] = LastIn(Fits(N, olds, RM!Bucket(key[olds[j]], to)), j - 1, copy)
  /\ next' = [n \in Nodes |-> next'[n]]
  /\ buckets' = [buckets EXCEPT ![to] = [b \in 0 .. RM!SizeOf(to) - 1 |-> LastIn(Fits(N, olds, b), N, copy)]]
  /\ table_' = to /\ wpc' = "retireTable"
  /\ wkey' \in Keys \cup {None} /\ wvalue' \in Values \cup {None}
  /\ UNCHANGED <<hash_fn_, visible, pinned, count_, retired, unlinked, rpc, rkey, rtable, current>>

(* A node is not ahead of itself.                                          *)
LEMMA PrecedesIsStrict ==
  ASSUME Constants, RM!StructureInv, table_ \in RM!Tables,
         NEW m \in RM!NodesOf(table_), NEW n \in RM!NodesOf(table_), RM!Precedes(m, n)
  PROVE  m # n
<1> USE DEF RM!StructureInv
<1> SUFFICES ASSUME m = n PROVE FALSE
  OBVIOUS
<1>1. m \in Nodes /\ key[m] \in Keys
  <2>1. RM!NodesOf(table_) = NodesIn(next, buckets, table_)
    BY Views
  <2>2. PICK j \in DOMAIN buckets[table_] : m \in ReachIn(next, buckets[table_][j])
    BY <2>1 DEF NodesIn
  <2>3. ChainsHold(next, buckets, key, value, hash_fn_)
    BY ChainsView
  <2>4. key[m] \in Keys
    BY <2>2, <2>3 DEF ChainsHold
  <2> QED
    BY <2>4, TableNodes
<1>2. RM!Bucket(key[m], table_) \in Int
  BY <1>1, BucketInTable
<1>3. m \in RM!Reach(next[m])
  BY <1>2 DEF RM!Precedes
<1>4. m \in ReachIn(next, next[m])
  BY <1>3 DEF RM!Reach, ReachIn
<1>5. PICK rank \in [Nodes -> Nat] : Descends(next, rank)
  BY ChainRanks
<1>6. next[m] # Null
  <2>1. ReachIn(next, Null) = {}
    BY <1>5, ReachUnfolds DEF Descends
  <2> QED
    BY <1>4, <2>1
<1>7. next[m] \in Nodes /\ rank[next[m]] < rank[m]
  BY <1>1, <1>5, <1>6 DEF Descends
<1>8. rank[m] <= rank[next[m]]
  BY <1>4, <1>5, <1>7, ReachDown
<1>9. rank[m] \in Nat /\ rank[next[m]] \in Nat
  BY <1>1, <1>7
<1> QED
  BY <1>7, <1>8, <1>9

AtIn(N, copy, n) == CHOOSE j \in 1 .. N : copy[j] = n

LEMMA SameCardinality ==
  ASSUME NEW S
  PROVE  RM!Cardinality(S) = Cardinality(S) /\ (RM!IsFiniteSet(S) <=> IsFiniteSet(S))
<1>1. RM!Cardinality(S) = Cardinality(S)
  BY DEF RM!Cardinality, Cardinality
<1>2. RM!IsFiniteSet(S) <=> IsFiniteSet(S)
  BY DEF RM!IsFiniteSet, IsFiniteSet
<1> QED
  BY <1>1, <1>2

LEMMA ResizeCopies ==
  ASSUME Constants, RM!StructureInv, UNCHANGED hash_fn_, NEW k \in Keys, NEW v \in Values, RM!Resize(k, v)
  PROVE  \E N, olds, copy : Copying(N, olds, copy)
<1> USE DEF RM!StructureInv
<1> DEFINE to == table_ + 1
           N == RM!Cardinality(RM!NodesOf(table_))
<1>1. /\ wpc = "idle" /\ table_ \in 0 .. Doublings - 1
      /\ wpc' = "retireTable" /\ wkey' = k /\ wvalue' = v
      /\ UNCHANGED <<visible, pinned, count_, retired, unlinked, rpc, rkey, rtable, current>>
  BY DEF RM!Resize, RM!readers, RM!periods
<1>2. PICK olds \in [1 .. N -> RM!NodesOf(table_)], copy \in [1 .. N -> Nodes \ allocated] :
        /\ \A j, m \in 1 .. N : j < m => RM!Precedes(olds[j], olds[m]) /\ copy[j] # copy[m]
        /\ allocated' = allocated \cup {copy[j] : j \in 1 .. N}
        /\ key' = [n \in Nodes |-> IF n \in {copy[j] : j \in 1 .. N} THEN key[olds[AtIn(N, copy, n)]] ELSE key[n]]
        /\ value' = [n \in Nodes |-> IF n \in {copy[j] : j \in 1 .. N} THEN value[olds[AtIn(N, copy, n)]]
                                     ELSE value[n]]
        /\ next' = [n \in Nodes |->
             IF n \in {copy[j] : j \in 1 .. N}
             THEN LET S == {j \in 1 .. AtIn(N, copy, n) - 1 :
                              RM!Bucket(key[olds[j]], to) = RM!Bucket(key[olds[AtIn(N, copy, n)]], to)}
                  IN  IF S = {} THEN Null ELSE copy[RM!Max(S)]
             ELSE next[n]]
        /\ buckets' = [buckets EXCEPT ![to] = [b \in 0 .. RM!SizeOf(to) - 1 |->
             LET S == {j \in 1 .. RM!Cardinality(1 .. N) : RM!Bucket(key[olds[j]], to) = b}
             IN  IF S = {} THEN Null ELSE copy[RM!Max(S)]]]
        /\ table_' = to
  BY DEF RM!Resize, AtIn
<1>3. /\ table_ \in RM!Tables /\ to \in RM!Tables /\ table_ < to
  <2>1. Doublings \in Nat
    BY DEF Constants, RM!TablesHaveBuckets
  <2> QED
    BY <1>1, <2>1 DEF RM!Tables
<1>4. RM!NodesOf(table_) \in SUBSET Nodes /\ RM!NodesOf(table_) \in SUBSET allocated
  <2>1. RM!NodesOf(table_) \in SUBSET Nodes
    BY <1>3, TableNodes
  <2> QED
    BY <1>3, <2>1 DEF RM!PlacesInv
<1>5. IsFiniteSet(RM!NodesOf(table_)) /\ N \in Nat /\ N = Cardinality(RM!NodesOf(table_))
  <2>1. IsFiniteSet(Nodes)
    BY SameCardinality DEF Constants, RM!ConstantsApart
  <2>2. IsFiniteSet(RM!NodesOf(table_))
    BY <1>4, <2>1, FS_Subset
  <2>3. Cardinality(RM!NodesOf(table_)) \in Nat
    BY <2>2, FS_CardinalityType
  <2>4. N = Cardinality(RM!NodesOf(table_))
    BY SameCardinality
  <2> QED
    BY <2>2, <2>3, <2>4
<1> HIDE DEF N
<1>6. Cardinality(1 .. N) = N /\ RM!Cardinality(1 .. N) = N /\ IsFiniteSet(1 .. N)
  <2>0. 1 \in Int /\ N \in Int
    BY <1>5
  <2>1. /\ IsFiniteSet(1 .. N)
        /\ Cardinality(1 .. N) = IF 1 > N THEN 0 ELSE N - 1 + 1
    BY <2>0, FS_Interval, Zenon
  <2>2. Cardinality(1 .. N) = N
    BY <1>5, <2>1
  <2> QED
    BY <2>1, <2>2, SameCardinality
<1>7. ASSUME NEW j \in 1 .. N, NEW m \in 1 .. N, j # m
      PROVE  olds[j] # olds[m] /\ copy[j] # copy[m]
  <2>1. \A x, y \in 1 .. N : x < y => olds[x] # olds[y] /\ copy[x] # copy[y]
    BY <1>2, <1>3, PrecedesIsStrict
  <2>2. j < m \/ m < j
    BY <1>7
  <2> QED
    BY <2>1, <2>2
<1>8. \A n \in RM!NodesOf(table_) : \E j \in 1 .. N : olds[j] = n
  <2>1. olds \in Injection(1 .. N, RM!NodesOf(table_))
    BY <1>7 DEF Injection, IsInjective
  <2>2. olds \in Surjection(1 .. N, RM!NodesOf(table_))
    BY <1>5, <1>6, <2>1, FS_Injection
  <2> QED
    BY <2>2 DEF Surjection
<1> DEFINE Copies == {copy[j] : j \in 1 .. N}
<1>9. \A j \in 1 .. N : AtIn(N, copy, copy[j]) = j
  <2> SUFFICES ASSUME NEW j \in 1 .. N PROVE AtIn(N, copy, copy[j]) = j
    OBVIOUS
  <2> DEFINE l == AtIn(N, copy, copy[j])
  <2>1. l \in 1 .. N /\ copy[l] = copy[j]
    BY Zenon DEF AtIn
  <2> QED
    BY <1>7, <2>1
<1>10. \A n \in Copies : n \in Nodes /\ n \notin allocated
  OBVIOUS
<1>11. /\ \A n \in Nodes \ Copies : key'[n] = key[n] /\ value'[n] = value[n] /\ next'[n] = next[n]
       /\ next' = [n \in Nodes |-> next'[n]]
  BY <1>2
<1>12. ASSUME NEW j \in 1 .. N
       PROVE  /\ key'[copy[j]] = key[olds[j]] /\ value'[copy[j]] = value[olds[j]]
              /\ next'[copy[j]] = LastIn(Fits(N, olds, RM!Bucket(key[olds[j]], to)), j - 1, copy)
  <2>1. copy[j] \in Copies /\ copy[j] \in Nodes /\ AtIn(N, copy, copy[j]) = j
    BY <1>9, <1>10
  <2>2. key'[copy[j]] = key[olds[j]] /\ value'[copy[j]] = value[olds[j]]
    BY <1>2, <2>1
  <2> DEFINE S == {l \in 1 .. j - 1 : RM!Bucket(key[olds[l]], to) = RM!Bucket(key[olds[j]], to)}
             U == {l \in Fits(N, olds, RM!Bucket(key[olds[j]], to)) : l <= j - 1}
  <2>3. next'[copy[j]] = IF S = {} THEN Null ELSE copy[RM!Max(S)]
    BY <1>2, <2>1
  <2>4. S = U
    <3>1. ASSUME NEW l \in S PROVE l \in U
      <4>1. l \in 1 .. N /\ l <= j - 1
        BY <1>5
      <4> QED
        BY <4>1 DEF Fits
    <3>2. ASSUME NEW l \in U PROVE l \in S
      BY <1>5 DEF Fits
    <3> QED
      BY <3>1, <3>2
  <2> QED
    BY <2>2, <2>3, <2>4 DEF LastIn
<1>13. buckets' = [buckets EXCEPT ![to] = [b \in 0 .. RM!SizeOf(to) - 1 |-> LastIn(Fits(N, olds, b), N, copy)]]
  <2>1. ASSUME NEW b
        PROVE  (LET S == {j \in 1 .. RM!Cardinality(1 .. N) : RM!Bucket(key[olds[j]], to) = b}
                IN  IF S = {} THEN Null ELSE copy[RM!Max(S)]) = LastIn(Fits(N, olds, b), N, copy)
    <3> DEFINE S == {j \in 1 .. RM!Cardinality(1 .. N) : RM!Bucket(key[olds[j]], to) = b}
               U == {j \in Fits(N, olds, b) : j <= N}
    <3>1. S = U
      BY <1>5, <1>6 DEF Fits
    <3> QED
      BY <3>1 DEF LastIn
  <2> QED
    BY <1>2, <2>1
<1>14. key' \in [Nodes -> Keys \cup {None}] /\ value' \in [Nodes -> Values \cup {None}]
  <2>1. /\ key \in [Nodes -> Keys \cup {None}] /\ value \in [Nodes -> Values \cup {None}]
    BY DEF RM!TypeOK
  <2>2. ASSUME NEW n \in Nodes PROVE key'[n] \in Keys \cup {None} /\ value'[n] \in Values \cup {None}
    <3>1. CASE n \in Copies
      <4>1. PICK j \in 1 .. N : n = copy[j]
        BY <3>1
      <4>2. olds[j] \in Nodes
        BY <1>4
      <4> QED
        BY <1>12, <2>1, <4>1, <4>2
    <3>2. CASE n \notin Copies
      BY <1>11, <2>1, <3>2
    <3> QED
      BY <3>1, <3>2
  <2>3. key' = [n \in Nodes |-> key'[n]] /\ value' = [n \in Nodes |-> value'[n]]
    BY <1>2
  <2> QED
    BY <2>2, <2>3
<1>15. wkey' \in Keys \cup {None} /\ wvalue' \in Values \cup {None}
  BY <1>1
<1>16. Copying(N, olds, copy)
  BY <1>1, <1>2, <1>3, <1>5, <1>7, <1>8, <1>11, <1>12, <1>13, <1>14, <1>15 DEF Copying
<1> QED
  BY <1>16

LEMMA LastInChain ==
  ASSUME NEW N \in Nat, NEW S \in SUBSET (1 .. N), NEW bound \in Nat, NEW copy \in [1 .. N -> Nodes],
         LastIn(S, bound, copy) # Null
  PROVE  \E j \in S : j <= bound /\ LastIn(S, bound, copy) = copy[j]
<1> DEFINE U == {z \in S : z <= bound}
<1>1. U # {} /\ U \in SUBSET (0 .. bound)
  <2>1. U # {}
    BY DEF LastIn
  <2>2. \A z \in S : z \in Nat
    OBVIOUS
  <2>3. \A z \in U : z \in Nat /\ z <= bound
    BY <2>2
  <2>4. \A z \in U : z \in 0 .. bound
    BY <2>3
  <2> HIDE DEF U
  <2> QED
    BY <2>1, <2>4
<1> HIDE DEF U
<1>2. PICK x \in U : \A y \in U : y <= x
  BY <1>1, LargestOf
<1>3. RM!Max(U) = x
  BY <1>1, <1>2, LastIsLargest
<1>4. LastIn(S, bound, copy) = copy[x]
  BY <1>1, <1>3 DEF LastIn, U
<1>5. x \in S /\ x <= bound
  BY <1>2 DEF U
<1> QED
  BY <1>4, <1>5

(* The chains after a Resize: those there were, and the copies.            *)
LEMMA CopyingChains ==
  ASSUME Constants, RM!StructureInv, NEW N, NEW olds, NEW copy, Copying(N, olds, copy)
  PROVE  LET to == table_ + 1
             Copies == {copy[j] : j \in 1 .. N} IN
         /\ next' \in [Nodes -> Nodes \cup {Null}] /\ DOMAIN buckets' = RM!Tables
         /\ \A t \in RM!Tables : buckets'[t] \in [0 .. RM!SizeOf(t) - 1 -> Nodes \cup {Null}]
         /\ \A t \in RM!Tables \ {to} : buckets'[t] = buckets[t] /\ RM!NodesOf(t)' = RM!NodesOf(t)
         /\ \A t \in RM!Tables \ {to} : \A j \in DOMAIN buckets[t] :
              ReachIn(next', buckets'[t][j]) = ReachIn(next, buckets[t][j])
         /\ RM!NodesOf(to) = {}
         /\ \A b \in DOMAIN buckets'[to] :
              ReachIn(next', buckets'[to][b]) = CopiesOf(Fits(N, olds, b), copy)
         /\ \A t \in RM!Tables : t = to => RM!NodesOf(t)' = Copies
         /\ \E rank \in [Nodes -> Nat] : Descends(next', rank)
<1> USE DEF RM!StructureInv
<1> DEFINE to == table_ + 1
           Copies == {copy[j] : j \in 1 .. N}
<1>1. /\ table_ \in RM!Tables /\ to \in RM!Tables /\ wpc = "idle" /\ table_ < to
      /\ N \in Nat
      /\ olds \in [1 .. N -> RM!NodesOf(table_)] /\ copy \in [1 .. N -> Nodes \ allocated]
      /\ \A j, m \in 1 .. N : j # m => olds[j] # olds[m] /\ copy[j] # copy[m]
  BY DEF Copying
<1>2. /\ \A n \in Nodes \ Copies : key'[n] = key[n] /\ value'[n] = value[n] /\ next'[n] = next[n]
      /\ \A j \in 1 .. N : next'[copy[j]] = LastIn(Fits(N, olds, RM!Bucket(key[olds[j]], to)), j - 1, copy)
      /\ next' = [n \in Nodes |-> next'[n]]
      /\ buckets' = [buckets EXCEPT ![to] = [b \in 0 .. RM!SizeOf(to) - 1 |-> LastIn(Fits(N, olds, b), N, copy)]]
  BY DEF Copying
<1>3. PICK rank \in [Nodes -> Nat] : Descends(next, rank)
  BY ChainRanks
<1>4. /\ Null \notin Nodes /\ next \in [Nodes -> Nodes \cup {Null}]
      /\ \A n \in Nodes : next[n] # Null => rank[next[n]] < rank[n]
  BY <1>3 DEF Descends
<1>5. table_ # RM!NoTable
  <2>1. Doublings \in Nat
    BY DEF Constants, RM!TablesHaveBuckets
  <2> QED
    BY <1>1, <2>1 DEF RM!Tables, RM!NoTable
<1>6. \A j \in 1 .. N : copy[j] \in Nodes /\ copy[j] \notin allocated /\ j \in Nat /\ j >= 1
  BY <1>1
<1>7. \A n \in Copies : n \in Nodes /\ n \notin allocated
  BY <1>6
<1>8. copy \in [1 .. N -> Nodes] /\ \A b : Fits(N, olds, b) \in SUBSET (1 .. N)
  BY <1>1 DEF Fits
<1>9. ASSUME NEW j \in 1 .. N, next'[copy[j]] # Null
      PROVE  \E m \in 1 .. N : m < j /\ next'[copy[j]] = copy[m]
  <2> DEFINE S == Fits(N, olds, RM!Bucket(key[olds[j]], to))
  <2>1. S \in SUBSET (1 .. N) /\ next'[copy[j]] = LastIn(S, j - 1, copy) /\ j - 1 \in Nat
    BY <1>1, <1>2, <1>8
  <2> HIDE DEF S
  <2>2. PICK m \in S : m <= j - 1 /\ LastIn(S, j - 1, copy) = copy[m]
    BY <1>1, <1>8, <1>9, <2>1, LastInChain
  <2>3. m \in 1 .. N /\ m < j
    BY <1>1, <2>1, <2>2
  <2> QED
    BY <2>1, <2>2, <2>3
<1>10. next' \in [Nodes -> Nodes \cup {Null}]
  <2>1. ASSUME NEW n \in Nodes PROVE next'[n] \in Nodes \cup {Null}
    <3>1. CASE n \in Copies
      <4>1. PICK j \in 1 .. N : n = copy[j]
        BY <3>1
      <4> QED
        BY <1>6, <1>9, <4>1
    <3>2. CASE n \notin Copies
      BY <1>2, <1>4, <3>2
    <3> QED
      BY <3>1, <3>2
  <2> QED
    BY <1>2, <2>1
<1> DEFINE rank2 == [n \in Nodes |-> IF n \in Copies THEN AtIn(N, copy, n) ELSE rank[n]]
<1>11. \A j \in 1 .. N : AtIn(N, copy, copy[j]) = j
  <2> SUFFICES ASSUME NEW j \in 1 .. N PROVE AtIn(N, copy, copy[j]) = j
    OBVIOUS
  <2> DEFINE l == AtIn(N, copy, copy[j])
  <2>1. l \in 1 .. N /\ copy[l] = copy[j]
    BY Zenon DEF AtIn
  <2> QED
    BY <1>1, <2>1
<1>12. /\ \A j \in 1 .. N : rank2[copy[j]] = j
       /\ \A n \in Nodes \ Copies : rank2[n] = rank[n]
  BY <1>6, <1>11
<1>13. rank2 \in [Nodes -> Nat]
  <2>1. ASSUME NEW n \in Nodes PROVE rank2[n] \in Nat
    <3>1. CASE n \in Copies
      <4>1. PICK j \in 1 .. N : n = copy[j]
        BY <3>1
      <4> QED
        BY <1>6, <1>12, <4>1
    <3>2. CASE n \notin Copies
      BY <1>12, <3>2
    <3> QED
      BY <3>1, <3>2
  <2> QED
    BY <2>1
<1> HIDE DEF rank2
<1>14. ASSUME NEW n \in Nodes, next'[n] # Null PROVE rank2[next'[n]] < rank2[n]
  <2>1. CASE n \in Copies
    <3>1. PICK j \in 1 .. N : n = copy[j]
      BY <2>1
    <3>2. PICK m \in 1 .. N : m < j /\ next'[n] = copy[m]
      BY <1>9, <1>14, <3>1
    <3> QED
      BY <1>12, <3>1, <3>2
  <2>2. CASE n \notin Copies
    <3>1. next'[n] = next[n] /\ next[n] \in Nodes
      BY <1>2, <1>4, <1>14, <2>2
    <3>2. next[n] \in allocated
      BY <1>5, <1>14, <3>1 DEF RM!PlacesInv
    <3>3. next[n] \notin Copies
      BY <1>7, <3>2
    <3>4. rank2[n] = rank[n] /\ rank2[next[n]] = rank[next[n]]
      BY <1>12, <2>2, <3>1, <3>3
    <3> QED
      BY <1>4, <1>14, <3>1, <3>4
  <2> QED
    BY <2>1, <2>2
<1>15. Descends(next', rank2)
  BY <1>4, <1>10, <1>13, <1>14 DEF Descends
<1>16. DOMAIN buckets = RM!Tables
       /\ \A t \in RM!Tables : buckets[t] \in [0 .. RM!SizeOf(t) - 1 -> Nodes \cup {Null}]
  BY DEF RM!TypeOK
<1> DEFINE row == [b \in 0 .. RM!SizeOf(to) - 1 |-> LastIn(Fits(N, olds, b), N, copy)]
<1>17. row \in [0 .. RM!SizeOf(to) - 1 -> Nodes \cup {Null}]
  <2>1. ASSUME NEW b \in 0 .. RM!SizeOf(to) - 1
        PROVE  LastIn(Fits(N, olds, b), N, copy) \in Nodes \cup {Null}
    <3> DEFINE S == Fits(N, olds, b)
    <3>1. S \in SUBSET (1 .. N)
      BY <1>8
    <3> HIDE DEF S
    <3>2. ASSUME LastIn(S, N, copy) # Null PROVE LastIn(S, N, copy) \in Nodes
      <4>1. PICK m \in S : LastIn(S, N, copy) = copy[m]
        BY <1>1, <1>8, <3>1, <3>2, LastInChain
      <4> QED
        BY <1>6, <3>1, <4>1
    <3> QED
      BY <3>2 DEF S
  <2> QED
    BY <2>1
<1>18. buckets' = [buckets EXCEPT ![to] = row]
  BY <1>2
<1>19. \A b \in 0 .. RM!SizeOf(to) - 1 : row[b] = LastIn(Fits(N, olds, b), N, copy)
  OBVIOUS
<1> HIDE DEF row
<1>20. DOMAIN buckets' = RM!Tables /\ buckets'[to] = row
       /\ \A t \in RM!Tables \ {to} : buckets'[t] = buckets[t]
  BY <1>1, <1>16, <1>18
<1>21. \A t \in RM!Tables : buckets'[t] \in [0 .. RM!SizeOf(t) - 1 -> Nodes \cup {Null}]
  <2> SUFFICES ASSUME NEW t \in RM!Tables
               PROVE  buckets'[t] \in [0 .. RM!SizeOf(t) - 1 -> Nodes \cup {Null}]
    OBVIOUS
  <2>1. CASE t = to
    BY <1>17, <1>20, <2>1
  <2>2. CASE t # to
    BY <1>16, <1>20, <2>2
  <2> QED
    BY <2>1, <2>2
<1>22. ASSUME NEW t \in RM!Tables \ {to}, NEW j \in DOMAIN buckets[t]
       PROVE  ReachIn(next', buckets'[t][j]) = ReachIn(next, buckets[t][j])
  <2>1. buckets'[t][j] = buckets[t][j] /\ buckets[t][j] \in Nodes \cup {Null}
    BY <1>16, <1>20
  <2>2. ReachIn(next, buckets[t][j]) \subseteq NodesIn(next, buckets, t)
    BY TableChain
  <2>3. RM!NodesOf(t) = NodesIn(next, buckets, t)
    BY Views
  <2>4. RM!NodesOf(t) \in SUBSET Nodes
    BY TableNodes
  <2>5. \A n \in ReachIn(next, buckets[t][j]) : n \in Nodes /\ n \in allocated
    BY <2>2, <2>3, <2>4 DEF RM!PlacesInv
  <2>6. \A n \in ReachIn(next, buckets[t][j]) : next'[n] = next[n]
    BY <1>2, <1>7, <2>5
  <2>7. ReachIn(next', buckets[t][j]) = ReachIn(next, buckets[t][j])
    BY <1>3, <1>15, <2>1, <2>6, ReachSame
  <2> QED
    BY <2>1, <2>7
<1>23. ASSUME NEW t \in RM!Tables \ {to} PROVE RM!NodesOf(t)' = RM!NodesOf(t)
  <2>1. RM!NodesOf(t) = NodesIn(next, buckets, t) /\ RM!NodesOf(t)' = NodesIn(next', buckets', t)
    BY Views
  <2>2. DOMAIN buckets'[t] = DOMAIN buckets[t]
    BY <1>20
  <2>3. NodesIn(next', buckets', t) = NodesIn(next, buckets, t)
    BY <1>22, <2>2 DEF NodesIn
  <2> QED
    BY <2>1, <2>3
<1>24. RM!NodesOf(to) = {}
  <2>1. \A x \in retired : x[1] # to
    <3> SUFFICES ASSUME NEW x \in retired, x[1] = to PROVE FALSE
      OBVIOUS
    <3>1. x[1] < table_
      BY <1>1, <1>5 DEF RM!WriterInv
    <3> QED
      BY <1>1, <3>1 DEF RM!Tables
  <2>2. to # table_
    BY <1>1 DEF RM!Tables
  <2>3. RM!Dead(to)
    BY <1>1, <2>1, <2>2 DEF RM!Dead
  <2>4. \A j \in DOMAIN buckets[to] : buckets[to][j] = Null
    BY <1>1, <2>3 DEF RM!WriterInv
  <2>5. ReachIn(next, Null) = {}
    BY <1>4, ReachUnfolds
  <2>6. NodesIn(next, buckets, to) = {}
    BY <2>4, <2>5 DEF NodesIn
  <2>7. RM!NodesOf(to) = NodesIn(next, buckets, to)
    BY Views
  <2> QED
    BY <2>6, <2>7
<1>25. ASSUME NEW b \in DOMAIN buckets'[to]
       PROVE  ReachIn(next', buckets'[to][b]) = CopiesOf(Fits(N, olds, b), copy)
  <2> DEFINE S == Fits(N, olds, b)
  <2>1. b \in 0 .. RM!SizeOf(to) - 1
    <3>1. buckets'[to] \in [0 .. RM!SizeOf(to) - 1 -> Nodes \cup {Null}]
      BY <1>1, <1>21
    <3> QED
      BY <3>1
  <2>2. buckets'[to][b] = LastIn(S, N, copy)
    BY <1>19, <1>20, <2>1
  <2>3. S \in SUBSET (1 .. N)
    BY <1>8
  <2>4. \A j \in S : j \in 1 .. N /\ RM!Bucket(key[olds[j]], to) = b
    BY DEF Fits
  <2>5. \A j \in S : next'[copy[j]] = LastIn(S, j - 1, copy)
    BY <1>2, <2>4
  <2> HIDE DEF S
  <2>6. ReachIn(next', LastIn(S, N, copy)) = CopiesOf(S, copy)
    <3>1. N \in Nat /\ copy \in [1 .. N -> Nodes]
      BY <1>1, <1>8
    <3>2. LinksBack(next', S, copy)
      BY <2>5 DEF LinksBack
    <3> QED
      BY <1>15, <2>3, <3>1, <3>2, ChainOfCopies
  <2> QED
    BY <2>2, <2>6 DEF S
<1>26. ASSUME NEW t \in RM!Tables, t = to PROVE RM!NodesOf(t)' = Copies
  <2>1. RM!NodesOf(t)' = NodesIn(next', buckets', t)
    BY Views
  <2>2. ASSUME NEW n \in NodesIn(next', buckets', t) PROVE n \in Copies
    <3>1. PICK b \in DOMAIN buckets'[to] : n \in ReachIn(next', buckets'[to][b])
      BY <1>26, <2>2 DEF NodesIn
    <3>2. PICK j \in Fits(N, olds, b) : n = copy[j]
      BY <1>25, <3>1 DEF CopiesOf
    <3> QED
      BY <1>8, <3>2
  <2>3. ASSUME NEW n \in Copies PROVE n \in NodesIn(next', buckets', t)
    <3>1. PICK j \in 1 .. N : n = copy[j]
      OBVIOUS
    <3> DEFINE b == RM!Bucket(key[olds[j]], to)
    <3>2. key[olds[j]] \in Keys
      <4>1. RM!NodesOf(table_) = NodesIn(next, buckets, table_)
        BY Views
      <4>2. olds[j] \in RM!NodesOf(table_)
        BY <1>1
      <4>3. PICK c \in DOMAIN buckets[table_] : olds[j] \in ReachIn(next, buckets[table_][c])
        BY <4>1, <4>2 DEF NodesIn
      <4>4. ChainsHold(next, buckets, key, value, hash_fn_)
        BY ChainsView
      <4> QED
        BY <1>1, <4>3, <4>4 DEF ChainsHold
    <3>3. b \in 0 .. RM!SizeOf(to) - 1
      BY <1>1, <3>2, BucketInTable
    <3>4. b \in DOMAIN buckets'[to] /\ j \in Fits(N, olds, b)
      BY <1>1, <1>21, <3>1, <3>3 DEF Fits
    <3> HIDE DEF b
    <3>5. n \in ReachIn(next', buckets'[to][b])
      BY <1>25, <3>1, <3>4 DEF CopiesOf
    <3> QED
      BY <1>26, <3>4, <3>5 DEF NodesIn
  <2> QED
    BY <2>1, <2>2, <2>3
<1> QED
  BY <1>10, <1>13, <1>15, <1>20, <1>21, <1>22, <1>23, <1>24, <1>25, <1>26

(* The chains of the copies are those of the keys of their buckets.        *)
LEMMA CopyingKeepsChains ==
  ASSUME Constants, RM!StructureInv, NEW N, NEW olds, NEW copy, Copying(N, olds, copy)
  PROVE  RM!ChainsInv'
<1> USE DEF RM!StructureInv
<1> DEFINE to == table_ + 1
           Copies == {copy[j] : j \in 1 .. N}
<1>1. /\ table_ \in RM!Tables /\ to \in RM!Tables
      /\ olds \in [1 .. N -> RM!NodesOf(table_)] /\ copy \in [1 .. N -> Nodes \ allocated]
      /\ \A j, m \in 1 .. N : j # m => olds[j] # olds[m] /\ copy[j] # copy[m]
      /\ \A n \in Nodes \ Copies : key'[n] = key[n] /\ value'[n] = value[n]
      /\ \A j \in 1 .. N : key'[copy[j]] = key[olds[j]] /\ value'[copy[j]] = value[olds[j]]
      /\ hash_fn_' = hash_fn_
  BY DEF Copying
<1>2. /\ \A t \in RM!Tables \ {to} : buckets'[t] = buckets[t] /\ RM!NodesOf(t)' = RM!NodesOf(t)
      /\ \A t \in RM!Tables \ {to} : \A j \in DOMAIN buckets[t] :
           ReachIn(next', buckets'[t][j]) = ReachIn(next, buckets[t][j])
      /\ \A b \in DOMAIN buckets'[to] :
           ReachIn(next', buckets'[to][b]) = CopiesOf(Fits(N, olds, b), copy)
      /\ \A t \in RM!Tables : t = to => RM!NodesOf(t)' = Copies
  BY CopyingChains
<1>3. PICK rank2 \in [Nodes -> Nat] : Descends(next', rank2)
  BY CopyingChains
<1>4. ChainsHold(next, buckets, key, value, hash_fn_)
  BY ChainsView
<1>5. PICK t0 \in RM!Tables : t0 = table_
  BY <1>1
<1>6. \A t \in RM!Tables : \A n \in RM!NodesOf(t) :
        n \in Nodes /\ n \notin Copies /\ key[n] \in Keys /\ value[n] \in Values
  <2> SUFFICES ASSUME NEW t \in RM!Tables, NEW n \in RM!NodesOf(t)
               PROVE  n \in Nodes /\ n \notin Copies /\ key[n] \in Keys /\ value[n] \in Values
    OBVIOUS
  <2>1. n \in Nodes
    BY TableNodes
  <2>2. n \in allocated
    BY <2>1 DEF RM!PlacesInv
  <2>3. n \notin Copies
    BY <1>1, <2>2
  <2>4. n \in NodesIn(next, buckets, t)
    BY Views
  <2>5. PICK j \in DOMAIN buckets[t] : n \in ReachIn(next, buckets[t][j])
    BY <2>4 DEF NodesIn
  <2>6. key[n] \in Keys /\ value[n] \in Values
    BY <1>4, <2>5 DEF ChainsHold
  <2> QED
    BY <2>1, <2>3, <2>6
<1>7. \A j \in 1 .. N : olds[j] \in RM!NodesOf(t0) /\ key[olds[j]] \in Keys /\ value[olds[j]] \in Values
  BY <1>1, <1>5, <1>6
<1>8. ASSUME NEW t \in RM!Tables, NEW j \in DOMAIN buckets'[t], NEW n \in ReachIn(next', buckets'[t][j])
      PROVE  key'[n] \in Keys /\ value'[n] \in Values /\ hash_fn_'[key'[n]] % RM!SizeOf(t) = j
  <2>1. CASE t = to
    <3>1. n \in {copy[m] : m \in Fits(N, olds, j)}
      BY <1>2, <1>8, <2>1 DEF CopiesOf
    <3>2. PICK m \in Fits(N, olds, j) : n = copy[m]
      BY <3>1
    <3>3. m \in 1 .. N /\ RM!Bucket(key[olds[m]], to) = j
      BY <3>2 DEF Fits
    <3>4. key'[n] = key[olds[m]] /\ value'[n] = value[olds[m]]
      BY <1>1, <3>2, <3>3
    <3>5. hash_fn_[key[olds[m]]] % RM!SizeOf(to) = j
      BY <3>3 DEF RM!Bucket
    <3> HIDE DEF to
    <3> QED
      BY <1>1, <1>7, <2>1, <3>3, <3>4, <3>5
  <2>2. CASE t # to
    <3>1. j \in DOMAIN buckets[t] /\ n \in ReachIn(next, buckets[t][j])
      BY <1>2, <1>8, <2>2
    <3>2. key[n] \in Keys /\ value[n] \in Values /\ hash_fn_[key[n]] % RM!SizeOf(t) = j
      BY <1>4, <3>1 DEF ChainsHold
    <3>3. n \in RM!NodesOf(t)
      <4>1. ReachIn(next, buckets[t][j]) \subseteq NodesIn(next, buckets, t)
        BY <3>1, TableChain
      <4> QED
        BY <3>1, <4>1, Views
    <3>4. key'[n] = key[n] /\ value'[n] = value[n]
      BY <1>1, <1>6, <3>3
    <3> QED
      BY <1>1, <3>2, <3>4
  <2> QED
    BY <2>1, <2>2
<1>9. ASSUME NEW t \in RM!Tables, NEW m \in RM!NodesOf(t)', NEW n \in RM!NodesOf(t)', key'[m] = key'[n]
      PROVE  m = n
  <2>1. CASE t = to
    <3>1. m \in Copies /\ n \in Copies
      BY <1>2, <1>9, <2>1
    <3>2. PICK j \in 1 .. N : m = copy[j]
      BY <3>1
    <3>3. PICK l \in 1 .. N : n = copy[l]
      BY <3>1
    <3>4. key[olds[j]] = key[olds[l]]
      BY <1>1, <1>9, <3>2, <3>3
    <3>5. olds[j] = olds[l]
      BY <1>7, <3>4 DEF RM!ChainsInv
    <3> QED
      BY <1>1, <3>2, <3>3, <3>5
  <2>2. CASE t # to
    <3>1. m \in RM!NodesOf(t) /\ n \in RM!NodesOf(t)
      BY <1>2, <1>9, <2>2
    <3>2. key[m] = key[n]
      BY <1>1, <1>6, <1>9, <3>1
    <3> QED
      BY <3>1, <3>2 DEF RM!ChainsInv
  <2> QED
    BY <2>1, <2>2
<1>10. \A t \in RM!Tables : \A m, n \in NodesIn(next', buckets', t) : key'[m] = key'[n] => m = n
  <2>1. \A t \in RM!Tables : RM!NodesOf(t)' = NodesIn(next', buckets', t)
    BY Views
  <2> QED
    BY <1>9, <2>1
<1>11. \A n \in Nodes : next'[n] # Null => rank2[next'[n]] < rank2[n]
  BY <1>3 DEF Descends
<1>12. ChainsHold(next', buckets', key', value', hash_fn_')
  BY <1>8, <1>10, <1>11 DEF ChainsHold
<1> QED
  BY <1>12, ChainsView

LEMMA ResizeKeeps ==
  ASSUME Constants, RM!StructureInv, UNCHANGED hash_fn_, NEW k \in Keys, NEW v \in Values, RM!Resize(k, v)
  PROVE  RM!StructureInv'
<1> USE DEF RM!StructureInv
<1>1. PICK N, olds, copy : Copying(N, olds, copy)
  BY ResizeCopies
<1> DEFINE to == table_ + 1
           Copies == {copy[j] : j \in 1 .. N}
<1>2. /\ table_ \in RM!Tables /\ to \in RM!Tables /\ wpc = "idle" /\ table_ < to
      /\ copy \in [1 .. N -> Nodes \ allocated]
      /\ allocated' = allocated \cup Copies
      /\ key' \in [Nodes -> Keys \cup {None}] /\ value' \in [Nodes -> Values \cup {None}]
      /\ \A n \in Nodes \ Copies : next'[n] = next[n]
      /\ table_' = to /\ wpc' = "retireTable"
      /\ wkey' \in Keys \cup {None} /\ wvalue' \in Values \cup {None}
      /\ UNCHANGED <<hash_fn_, visible, pinned, count_, retired, unlinked, rpc, rkey, rtable, current>>
  BY <1>1 DEF Copying
<1>3. /\ next' \in [Nodes -> Nodes \cup {Null}] /\ DOMAIN buckets' = RM!Tables
      /\ \A t \in RM!Tables : buckets'[t] \in [0 .. RM!SizeOf(t) - 1 -> Nodes \cup {Null}]
      /\ \A t \in RM!Tables \ {to} : buckets'[t] = buckets[t] /\ RM!NodesOf(t)' = RM!NodesOf(t)
      /\ RM!NodesOf(to) = {}
      /\ \A t \in RM!Tables : t = to => RM!NodesOf(t)' = Copies
  BY <1>1, CopyingChains
<1>4. \A j \in 1 .. N : next'[copy[j]] = LastIn(Fits(N, olds, RM!Bucket(key[olds[j]], to)), j - 1, copy)
  BY <1>1 DEF Copying
<1>5. N \in Nat
  BY <1>1 DEF Copying
<1>6. RM!ChainsInv'
  BY <1>1, CopyingKeepsChains
<1>7. RM!Tables' = RM!Tables /\ RM!NoTable' = RM!NoTable /\ RM!InCriticalSection' = RM!InCriticalSection
  BY <1>2 DEF RM!Tables, RM!NoTable, RM!InCriticalSection
<1>8. /\ table_ # RM!NoTable /\ to # RM!NoTable /\ to # 0 /\ to - 1 = table_ /\ to # table_
      /\ table_ \in Nat /\ to \in Nat /\ RM!Tables \in SUBSET Nat
  <2>1. Doublings \in Nat
    BY DEF Constants, RM!TablesHaveBuckets
  <2> QED
    BY <1>2, <2>1 DEF RM!Tables, RM!NoTable
<1>9. unlinked = Null /\ unlinked' = Null /\ Null \notin Nodes \cup RM!Tables /\ Nodes \cap RM!Tables = {}
  BY <1>2 DEF RM!WriterInv, Constants, RM!ConstantsApart
<1> HIDE DEF to
<1>10. PICK t0 \in RM!Tables : t0 = table_
  BY <1>2
<1>11. PICK t1 \in RM!Tables : t1 = to
  BY <1>2
<1>12. /\ \A t \in RM!Tables : RM!Stands(t)' <=> t = t0 \/ t = t1
       /\ \A t \in RM!Tables : RM!Stands(t) <=> t = t0
       /\ \A n : RM!RetiredNode(n)' <=> RM!RetiredNode(n)
  <2>1. \A t \in RM!Tables : RM!Stands(t)' <=> t = t0 \/ t = t1
    BY <1>2, <1>8, <1>10, <1>11 DEF RM!Stands
  <2>2. \A t \in RM!Tables : RM!Stands(t) <=> t = t0
    BY <1>2, <1>10 DEF RM!Stands
  <2>3. \A n : RM!RetiredNode(n)' <=> RM!RetiredNode(n)
    BY <1>2 DEF RM!RetiredNode
  <2> QED
    BY <2>1, <2>2, <2>3
<1>13. \A t \in RM!Tables : RM!NodesOf(t) \in SUBSET Nodes /\ RM!NodesOf(t) \in SUBSET allocated
  <2>1. \A t \in RM!Tables : RM!NodesOf(t) \in SUBSET Nodes
    BY TableNodes
  <2> QED
    BY <2>1 DEF RM!PlacesInv
<1>14. \A n \in Copies : /\ n \in Nodes /\ n \notin allocated
                         /\ (\A t \in RM!Tables : n \notin RM!NodesOf(t)) /\ ~RM!RetiredNode(n)
  <2>1. \A n \in Copies : n \in Nodes /\ n \notin allocated
    BY <1>2
  <2> QED
    BY <2>1 DEF RM!PlacesInv
<1>15. \A n \in Copies : next'[n] # Null => next'[n] \in Copies
  <2> SUFFICES ASSUME NEW n \in Copies, next'[n] # Null PROVE next'[n] \in Copies
    OBVIOUS
  <2>1. PICK j \in 1 .. N : n = copy[j]
    OBVIOUS
  <2> DEFINE S == Fits(N, olds, RM!Bucket(key[olds[j]], to))
  <2>2. S \in SUBSET (1 .. N) /\ next'[n] = LastIn(S, j - 1, copy) /\ j - 1 \in Nat
    BY <1>4, <1>5, <2>1 DEF Fits
  <2>3. copy \in [1 .. N -> Nodes]
    BY <1>2
  <2> HIDE DEF S
  <2>4. PICK m \in S : LastIn(S, j - 1, copy) = copy[m]
    BY <1>5, <2>2, <2>3, LastInChain
  <2> QED
    BY <2>2, <2>4
<1> HIDE DEF Copies
<1>16. RM!TypeOK'
  <2>1. allocated' \subseteq Nodes
    BY <1>2, <1>14 DEF RM!TypeOK
  <2>2. wpc' \in {"idle", "retireTable", "splice", "count", "uncount", "retire"}
    BY <1>2
  <2>3. retired' \subseteq ((Nodes \cup RM!Tables) \X SUBSET pinned)'
    BY <1>2, <1>7 DEF RM!TypeOK
  <2>4. table_' \in RM!Tables
    BY <1>2
  <2> QED
    BY <1>2, <1>3, <1>7, <2>1, <2>2, <2>3, <2>4 DEF RM!TypeOK, RM!SizeOf
<1>17. RM!WriterInv'
  <2>1. \A x \in retired : x[1] \in RM!Tables => x[1] < table_ /\ x[1] # t0
    BY <1>8, <1>10, <1>12 DEF RM!WriterInv
  <2>2. (\A x \in retired : x[1] \in RM!Tables /\ table_ # RM!NoTable => x[1] < table_ /\ ~RM!Stands(x[1]))'
    <3> SUFFICES ASSUME NEW x \in retired, NEW t \in RM!Tables, x[1] = t
                 PROVE  t < to /\ ~RM!Stands(t)'
      BY <1>2, <1>7
    <3>1. t < table_ /\ t # t0 /\ t \in Nat
      BY <1>8, <2>1
    <3>2. t < to
      BY <1>2, <1>8, <3>1
    <3>3. t # t1
      BY <1>8, <1>11, <3>2
    <3> QED
      BY <1>12, <3>1, <3>2, <3>3
  <2>3. (\A t \in RM!Tables : RM!Dead(t) => \A j \in DOMAIN buckets[t] : buckets[t][j] = Null)'
    <3> SUFFICES ASSUME NEW t \in RM!Tables, RM!Dead(t)', NEW j \in DOMAIN buckets'[t]
                 PROVE  buckets'[t][j] = Null
      BY <1>7
    <3>1. t # to /\ t # table_ /\ t \notin {x[1] : x \in retired}
      BY <1>2, <1>8 DEF RM!Dead
    <3>2. RM!Dead(t)
      BY <1>2, <3>1 DEF RM!Dead
    <3>3. buckets'[t] = buckets[t]
      BY <1>3, <3>1
    <3> QED
      BY <3>2, <3>3 DEF RM!WriterInv
  <2>4. (table_ # RM!NoTable)' /\ (wpc = "retireTable" => table_ # 0)'
        /\ ((unlinked # Null) <=> (wpc \in {"uncount", "retire"}))' /\ (unlinked = Null)'
    BY <1>2, <1>7, <1>8, <1>9
  <2> QED
    BY <2>2, <2>3, <2>4 DEF RM!WriterInv
<1>18. \A t \in RM!Tables : t # t1 => RM!NodesOf(t)' = RM!NodesOf(t)
  BY <1>3, <1>11
<1>19. RM!NodesOf(t1)' = Copies /\ RM!NodesOf(t1) = {}
  BY <1>3, <1>11
<1>20. RM!PlacesInv'
  <2>1. (\A x, y \in retired : x[1] = y[1] => x = y)'
    BY <1>2 DEF RM!PlacesInv
  <2>2. (\A s, t \in RM!Tables : s # t => RM!NodesOf(s) \cap RM!NodesOf(t) = {})'
    <3> SUFFICES ASSUME NEW s \in RM!Tables, NEW t \in RM!Tables, s # t,
                        NEW n \in RM!NodesOf(s)', n \in RM!NodesOf(t)'
                 PROVE  FALSE
      BY <1>7
    <3>1. CASE s = t1
      BY <1>14, <1>18, <1>19, <3>1
    <3>2. CASE t = t1
      BY <1>14, <1>18, <1>19, <3>2
    <3>3. CASE s # t1 /\ t # t1
      <4>1. n \in RM!NodesOf(s) /\ n \in RM!NodesOf(t)
        BY <1>18, <3>3
      <4> QED
        BY <4>1 DEF RM!PlacesInv
    <3> QED
      BY <3>1, <3>2, <3>3
  <2>3. (\A n \in Nodes : RM!RetiredNode(n) \/ n = unlinked => \A t \in RM!Tables : n \notin RM!NodesOf(t))'
    <3> SUFFICES ASSUME NEW n \in Nodes, RM!RetiredNode(n),
                        NEW t \in RM!Tables, n \in RM!NodesOf(t)'
                 PROVE  FALSE
      BY <1>7, <1>9, <1>12
    <3>1. n \notin RM!NodesOf(t) /\ n \notin Copies
      BY <1>14 DEF RM!PlacesInv
    <3> QED
      BY <1>18, <1>19, <3>1
  <2>4. (~RM!RetiredNode(unlinked))'
    <3>1. ~RM!RetiredNode(unlinked)
      BY DEF RM!PlacesInv
    <3> QED
      BY <1>2, <3>1 DEF RM!RetiredNode
  <2>5. ASSUME NEW n \in Nodes, n \in allocated'
        PROVE  RM!RetiredNode(n) \/ \E t \in RM!Tables : n \in RM!NodesOf(t)'
    <3>1. CASE n \in Copies
      BY <1>19, <3>1
    <3>2. CASE n \notin Copies
      <4>1. RM!RetiredNode(n) \/ \E t \in RM!Tables : n \in RM!NodesOf(t)
        BY <1>2, <1>9, <2>5, <3>2 DEF RM!PlacesInv
      <4>2. ASSUME NEW t \in RM!Tables, n \in RM!NodesOf(t) PROVE n \in RM!NodesOf(t)'
        BY <1>18, <1>19, <4>2
      <4> QED
        BY <4>1, <4>2
    <3> QED
      BY <3>1, <3>2
  <2>6. ASSUME NEW n \in Nodes, RM!RetiredNode(n) \/ \E t \in RM!Tables : n \in RM!NodesOf(t)'
        PROVE  n \in allocated'
    <3>1. CASE RM!RetiredNode(n)
      BY <1>2, <3>1 DEF RM!PlacesInv
    <3>2. CASE \E t \in RM!Tables : n \in RM!NodesOf(t)'
      <4>1. PICK t \in RM!Tables : n \in RM!NodesOf(t)'
        BY <3>2
      <4>2. n \in Copies \/ n \in RM!NodesOf(t)
        BY <1>18, <1>19, <4>1
      <4> QED
        BY <1>2, <1>13, <4>2
    <3> QED
      BY <2>6, <3>1, <3>2
  <2>7. (\A n \in Nodes :
          n \in allocated <=> RM!RetiredNode(n) \/ n = unlinked \/ \E t \in RM!Tables : n \in RM!NodesOf(t))'
    BY <1>7, <1>9, <1>12, <2>5, <2>6
  <2>8. ASSUME NEW n \in Nodes, next'[n] # Null PROVE n \in allocated' /\ next'[n] \in allocated'
    <3>1. CASE n \in Copies
      BY <1>2, <1>15, <2>8, <3>1
    <3>2. CASE n \notin Copies
      <4>1. next'[n] = next[n]
        BY <1>2, <3>2
      <4>2. n \in allocated /\ next[n] \in allocated
        BY <1>8, <2>8, <4>1 DEF RM!PlacesInv
      <4> QED
        BY <1>2, <4>1, <4>2
    <3> QED
      BY <3>1, <3>2
  <2>9. (\A n \in Nodes : next[n] # Null => n \in allocated /\ (table_ # RM!NoTable => next[n] \in allocated))'
    BY <2>8
  <2> QED
    BY <2>1, <2>2, <2>3, <2>4, <2>7, <2>9 DEF RM!PlacesInv
<1>21. ProtectionGrows
  <2>1. ASSUME NEW a \in RM!InCriticalSection, NEW t \in RM!Tables, RM!TableFor(a, t) PROVE RM!TableFor(a, t)'
    <3>1. CASE RM!Stands(t)
      <4>1. RM!Stands(t)'
        BY <1>12, <3>1
      <4> QED
        BY <4>1 DEF RM!TableFor
    <3>2. CASE \E x \in retired : x[1] = t /\ a \in x[2]
      BY <1>2, <3>2 DEF RM!TableFor
    <3> QED
      BY <2>1, <3>1, <3>2 DEF RM!TableFor
  <2>2. ASSUME NEW a \in RM!InCriticalSection, NEW n \in Nodes, RM!NodeFor(a, n) PROVE RM!NodeFor(a, n)'
    <3>1. n # unlinked
      BY <1>9
    <3>2. CASE \E x \in retired : x[1] = n /\ a \in x[2]
      BY <1>2, <3>2 DEF RM!NodeFor
    <3>3. CASE \E t \in RM!Tables : RM!TableFor(a, t) /\ n \in RM!NodesOf(t)
      <4>1. PICK t \in RM!Tables : RM!TableFor(a, t) /\ n \in RM!NodesOf(t)
        BY <3>3
      <4>2. n \in RM!NodesOf(t)' /\ RM!TableFor(a, t)'
        BY <1>18, <1>19, <2>1, <4>1
      <4> QED
        BY <1>7, <4>2 DEF RM!NodeFor
    <3> QED
      BY <2>2, <3>1, <3>2, <3>3 DEF RM!NodeFor
  <2>3. ASSUME NEW x \in retired', x[1] \in Nodes, next'[x[1]] # Null
        PROVE  x \in retired /\ next'[x[1]] = next[x[1]]
    <3>1. x \in retired /\ RM!RetiredNode(x[1])
      BY <1>2, <2>3 DEF RM!RetiredNode
    <3>2. x[1] \notin Copies
      BY <1>14, <3>1
    <3> QED
      BY <1>2, <2>3, <3>1, <3>2
  <2> QED
    BY <2>1, <2>2, <2>3 DEF ProtectionGrows
<1>22. RM!ProtectedInv'
  BY <1>2, <1>16, <1>21, ProtectionKept
<1> QED
  BY <1>6, <1>16, <1>17, <1>20, <1>22

-----------------------------------------------------------------------------
(* The structure is there from the start, and every step keeps it.         *)
LEMMA StructureInit ==
  ASSUME Constants, RM!Init
  PROVE  RM!StructureInv
<1>1. /\ hash_fn_ \in Hashes /\ table_ = 0
      /\ buckets = [t \in RM!Tables |-> [j \in 0 .. RM!SizeOf(t) - 1 |-> Null]]
      /\ key = [n \in Nodes |-> None] /\ value = [n \in Nodes |-> None]
      /\ next = [n \in Nodes |-> Null]
      /\ count_ = 0 /\ allocated = {} /\ retired = {} /\ pinned = {} /\ visible = 0
      /\ wpc = "idle" /\ wkey = None /\ wvalue = None /\ unlinked = Null
  BY DEF RM!Init, RM!G!Init
<1>2. /\ rpc = [a \in Readers |-> "idle"] /\ rkey = [a \in Readers |-> None]
      /\ rtable = [a \in Readers |-> RM!NoTable] /\ current = [a \in Readers |-> Null]
  BY DEF RM!Init
<1>3. Doublings \in Nat /\ Hashes \subseteq [Keys -> Nat] /\ Null \notin Nodes
  BY DEF Constants, RM!TablesHaveBuckets, RM!ConstantsApart
<1>4. /\ DOMAIN buckets = RM!Tables
      /\ \A t \in RM!Tables : buckets[t] = [j \in 0 .. RM!SizeOf(t) - 1 |-> Null]
      /\ \A t \in RM!Tables : \A j \in DOMAIN buckets[t] : buckets[t][j] = Null
      /\ 0 \in RM!Tables
  <2>1. DOMAIN buckets = RM!Tables /\ \A t \in RM!Tables : buckets[t] = [j \in 0 .. RM!SizeOf(t) - 1 |-> Null]
    BY <1>1
  <2>2. 0 \in RM!Tables
    BY <1>3 DEF RM!Tables
  <2> QED
    BY <2>1, <2>2
<1>5. RM!TypeOK
  <2>1. hash_fn_ \in [Keys -> Nat] /\ table_ \in RM!Tables \cup {RM!NoTable}
    BY <1>1, <1>3, <1>4
  <2>2. \A t \in RM!Tables : buckets[t] \in [0 .. RM!SizeOf(t) - 1 -> Nodes \cup {Null}]
    BY <1>4
  <2>3. /\ key \in [Nodes -> Keys \cup {None}] /\ value \in [Nodes -> Values \cup {None}]
        /\ next \in [Nodes -> Nodes \cup {Null}] /\ count_ \in Int /\ allocated \subseteq Nodes
        /\ retired \subseteq (Nodes \cup RM!Tables) \X SUBSET pinned
        /\ pinned \subseteq RM!InCriticalSection /\ visible \in RM!Tables \cup {RM!NoTable}
    BY <1>1, <1>4
  <2>4. /\ wpc \in {"idle", "retireTable", "splice", "count", "uncount", "retire"}
        /\ wkey \in Keys \cup {None} /\ wvalue \in Values \cup {None} /\ unlinked \in Nodes \cup {Null}
    BY <1>1
  <2>5. /\ rpc \in [Readers -> {"idle", "table", "bucket", "node", "leave"}]
        /\ rkey \in [Readers -> Keys \cup {None}]
        /\ rtable \in [Readers -> RM!Tables \cup {RM!NoTable}]
        /\ current \in [Readers -> Nodes \cup {Null}]
    BY <1>2
  <2> QED
    BY <1>4, <2>1, <2>2, <2>3, <2>4, <2>5 DEF RM!TypeOK
<1>6. ReachIn(next, Null) = {}
  BY <1>3, <1>5, ReachUnfolds DEF RM!TypeOK
<1>7. \A t \in RM!Tables : \A j \in DOMAIN buckets[t] : ReachIn(next, buckets[t][j]) = {}
  BY <1>4, <1>6
<1>8. \A t \in RM!Tables : NodesIn(next, buckets, t) = {} /\ RM!NodesOf(t) = {}
  <2>1. \A t \in RM!Tables : NodesIn(next, buckets, t) = {}
    BY <1>7 DEF NodesIn
  <2> QED
    BY <2>1, Views
<1>9. RM!ChainsInv
  <2>1. [n \in Nodes |-> 0] \in [Nodes -> Nat] /\ \A n \in Nodes : next[n] = Null
    BY <1>1
  <2>2. \E rank \in [Nodes -> Nat] : \A n \in Nodes : next[n] # Null => rank[next[n]] < rank[n]
    BY <2>1
  <2>3. ChainsHold(next, buckets, key, value, hash_fn_)
    BY <1>7, <1>8, <2>2 DEF ChainsHold
  <2> QED
    BY <2>3, ChainsView
<1>10. RM!InCriticalSection = {} /\ 0 # RM!NoTable
  BY <1>2 DEF RM!InCriticalSection, RM!NoTable
<1>11. RM!WriterInv
  BY <1>1, <1>4, <1>10 DEF RM!WriterInv
<1>12. RM!PlacesInv
  BY <1>1, <1>3, <1>8 DEF RM!PlacesInv, RM!RetiredNode
<1>13. RM!ProtectedInv
  BY <1>1, <1>2 DEF RM!ProtectedInv
<1> QED
  BY <1>5, <1>9, <1>11, <1>12, <1>13 DEF RM!StructureInv

(* The store of table_ is the only one that is late, and never for long.   *)
LEMMA VisibleStep ==
  ASSUME Constants, RM!TypeOK, RM!VisibleInv, RM!Next
  PROVE  RM!VisibleInv'
<1>1. Doublings \in Nat
  BY DEF Constants, RM!TablesHaveBuckets
<1>2. RM!Tables' = RM!Tables /\ RM!NoTable' = RM!NoTable
  BY DEF RM!Tables, RM!NoTable
<1>3. ASSUME NEW k \in Keys, NEW v \in Values, RM!Resize(k, v) PROVE RM!VisibleInv'
  <2>1. visible = table_ /\ visible' = visible /\ table_' = table_ + 1
        /\ table_ \in 0 .. Doublings - 1 /\ wpc' = "retireTable"
    BY <1>3 DEF RM!VisibleInv, RM!Resize
  <2>2. table_' \in RM!Tables \ {0} /\ visible' = table_' - 1
    BY <1>1, <2>1 DEF RM!Tables
  <2> QED
    BY <1>2, <2>1, <2>2 DEF RM!VisibleInv
<1>4. ASSUME NEW k \in Keys, NEW v \in Values, RM!Replace(k, v) \/ RM!Insert(k, v) PROVE RM!VisibleInv'
  <2>1. visible = table_ /\ UNCHANGED <<visible, table_>>
    BY <1>4 DEF RM!VisibleInv, RM!Replace, RM!Insert, RM!Splices
  <2> QED
    BY <2>1 DEF RM!VisibleInv
<1>5. ASSUME RM!Publish \/ RM!Destroy PROVE RM!VisibleInv'
  BY <1>5 DEF RM!VisibleInv, RM!Publish, RM!Destroy
<1>6. ASSUME RM!RetireTable \/ RM!Gc \/ (\E a \in Readers : RM!ReaderStep(a) \/ \E k \in Keys : RM!Get(a, k))
      PROVE  RM!VisibleInv'
  <2>1. UNCHANGED <<visible, table_>> /\ (wpc' = wpc \/ (wpc' = "splice" /\ wpc = "retireTable"))
    <3>1. CASE RM!RetireTable
      BY <3>1 DEF RM!RetireTable
    <3>2. CASE RM!Gc
      BY <3>2 DEF RM!Gc, RM!writer
    <3>3. ASSUME NEW a \in Readers, RM!ReaderStep(a) \/ \E k \in Keys : RM!Get(a, k)
          PROVE  UNCHANGED <<visible, table_, wpc>>
      <4>1. CASE RM!Pin(a) \/ RM!LoadTable(a) \/ RM!LoadRetired(a) \/ RM!LoadBucket(a)
        BY <4>1 DEF RM!Pin, RM!LoadTable, RM!LoadRetired, RM!LoadBucket, RM!writer
      <4>2. CASE RM!Visit(a)
        BY <4>2 DEF RM!Visit, RM!writer
      <4>3. CASE RM!Leave(a) \/ \E k \in Keys : RM!Get(a, k)
        BY <4>3 DEF RM!Leave, RM!Get, RM!writer
      <4> QED
        BY <3>3, <4>1, <4>2, <4>3 DEF RM!ReaderStep
    <3> QED
      BY <1>6, <3>1, <3>2, <3>3
  <2> QED
    BY <1>2, <2>1 DEF RM!VisibleInv
<1>7. ASSUME RM!Count \/ RM!Uncount \/ RM!Retire \/ \E k \in Keys : RM!Remove(k)
      PROVE  RM!VisibleInv'
  <2>1. visible = table_ /\ UNCHANGED <<visible, table_>>
    BY <1>7 DEF RM!VisibleInv, RM!Count, RM!Uncount, RM!Retire, RM!Remove
  <2> QED
    BY <2>1 DEF RM!VisibleInv
<1> QED
  BY <1>3, <1>4, <1>5, <1>6, <1>7 DEF RM!Next, RM!Put

LEMMA StructureStep ==
  ASSUME Constants, RM!StructureInv, RM!VisibleInv, RM!Next
  PROVE  RM!StructureInv'
<1>1. UNCHANGED hash_fn_
  BY DEF RM!Next
<1>2. ASSUME NEW k \in Keys, RM!Remove(k) PROVE RM!StructureInv'
  BY <1>1, <1>2, RemoveSplices, SpliceKeeps
<1>3. ASSUME NEW k \in Keys, NEW v \in Values, RM!Put(k, v) PROVE RM!StructureInv'
  <2>1. CASE RM!Resize(k, v)
    BY <1>1, <2>1, ResizeKeeps
  <2>2. CASE RM!Replace(k, v)
    BY <1>1, <2>2, ReplaceSplices, SpliceKeeps
  <2>3. CASE RM!Insert(k, v)
    BY <1>1, <2>3, InsertSplices, SpliceKeeps
  <2> QED
    BY <1>3, <2>1, <2>2, <2>3 DEF RM!Put
<1>4. CASE RM!RetireTable
  BY <1>1, <1>4, WriterRetiresTable
<1>5. CASE RM!Count \/ RM!Uncount
  BY <1>1, <1>5, WriterCounts
<1>6. CASE RM!Retire
  BY <1>1, <1>6, WriterRetiresNode
<1>7. CASE RM!Gc
  BY <1>1, <1>7, GcKeeps
<1>8. CASE RM!Destroy
  BY <1>1, <1>8, DestroyKeeps
<1>9. ASSUME NEW a \in Readers, RM!ReaderStep(a) \/ \E k \in Keys : RM!Get(a, k) PROVE RM!StructureInv'
  <2>1. CASE RM!Leave(a) \/ RM!LoadRetired(a)
    BY <1>1, <2>1, ReaderLeaves
  <2>2. CASE RM!LoadTable(a) \/ RM!LoadBucket(a) \/ RM!Visit(a) \/ (\E k \in Keys : RM!Get(a, k))
    BY <1>1, <2>2, ReadersWalk
  <2>3. CASE RM!Pin(a)
    BY <1>1, <2>3, BecomesVisible
  <2> QED
    BY <1>9, <2>1, <2>2, <2>3 DEF RM!ReaderStep
<1>10. CASE RM!Publish
  BY <1>1, <1>10, BecomesVisible
<1> QED
  BY <1>10, <1>2, <1>3, <1>4, <1>5, <1>6, <1>7, <1>8, <1>9 DEF RM!Next

LEMMA StructureStutter ==
  ASSUME RM!StructureInv, UNCHANGED rcu
  PROVE  RM!StructureInv' /\ (RM!VisibleInv' <=> RM!VisibleInv)
<1> USE DEF RM!StructureInv
<1>1. /\ UNCHANGED <<hash_fn_, table_, visible, buckets, key, value, next, count_, allocated, pinned, retired>>
      /\ UNCHANGED <<wpc, wkey, wvalue, unlinked, rpc, rkey, rtable, current>>
  BY DEF rcu
<1>2. RM!Tables' = RM!Tables /\ RM!NoTable' = RM!NoTable /\ RM!InCriticalSection' = RM!InCriticalSection
  BY <1>1 DEF RM!Tables, RM!NoTable, RM!InCriticalSection
<1>3. RM!TypeOK'
  BY <1>1, <1>2 DEF RM!TypeOK, RM!SizeOf
<1>4. RM!ChainsInv' /\ RM!PlacesInv'
  BY <1>1, SameChains, SamePlaces
<1>5. /\ \A a \in Readers, t \in RM!Tables : RM!TableFor(a, t)' <=> RM!TableFor(a, t)
      /\ \A a \in Readers, n \in Nodes : RM!NodeFor(a, n)' <=> RM!NodeFor(a, n)
      /\ \A t \in RM!Tables : (RM!Dead(t)' <=> RM!Dead(t)) /\ (RM!Stands(t)' <=> RM!Stands(t))
  BY <1>1, SameProtection
<1>6. RM!WriterInv'
  <2>1. RM!NodesOf(table_)' = RM!NodesOf(table_)
    BY <1>1, SameTableNodes
  <2> QED
    BY <1>1, <1>2, <1>5, <2>1 DEF RM!WriterInv
<1>7. ProtectionGrows
  <2>1. RM!InCriticalSection \subseteq Readers
    BY DEF RM!InCriticalSection
  <2> QED
    BY <1>1, <1>5, <2>1 DEF ProtectionGrows
<1>8. RM!ProtectedInv'
  BY <1>1, <1>3, <1>7, ProtectionKept
<1>9. RM!VisibleInv' <=> RM!VisibleInv
  BY <1>1, <1>2 DEF RM!VisibleInv
<1> QED
  BY <1>3, <1>4, <1>6, <1>8, <1>9

(* Whatever readers and writers do, the chains of RcuHashMap stay finite,  *)
(* each holds the keys of its bucket once, every node is in one place, and *)
(* what an open critical section may touch is still there.                 *)
THEOREM MapStructure == MCSpec => [](RM!StructureInv /\ RM!VisibleInv)
<1>1. Constants
  BY MapConstants DEF Constants
<1>2. MCInit => RM!StructureInv /\ RM!VisibleInv
  <2>1. RM!Init => RM!VisibleInv
    BY DEF RM!Init, RM!VisibleInv
  <2> QED
    BY <1>1, <2>1, StructureInit DEF MCInit
<1>3. RM!StructureInv /\ RM!VisibleInv /\ [MCNext]_all => (RM!StructureInv /\ RM!VisibleInv)'
  <2> SUFFICES ASSUME RM!StructureInv, RM!VisibleInv, [MCNext]_all PROVE (RM!StructureInv /\ RM!VisibleInv)'
    OBVIOUS
  <2>1. RM!Next \/ UNCHANGED rcu
    BY DEF MCNext, all
  <2>2. RM!TypeOK
    BY DEF RM!StructureInv
  <2> QED
    BY <1>1, <2>1, <2>2, StructureStep, VisibleStep, StructureStutter
<1> QED
  BY <1>2, <1>3, PTL DEF MCSpec

(* Under the grace periods of GracePeriods, which Ebr keeps, a Get that    *)
(* has not lost its protection never stands on a node or a table that has  *)
(* been destroyed.  It loses it where what it uses is retired before its   *)
(* pin is visible, or what it is about to load has been retired, and ends. *)
THEOREM ReadersFindWhatIsThere == MCSpec => []ReadersSafe
<1>1. RM!StructureInv => ReadersSafe
  <2> SUFFICES ASSUME RM!StructureInv PROVE RM!ReadersSafe
    BY DEF ReadersSafe
  <2> SUFFICES ASSUME NEW a \in Readers
               PROVE  /\ current[a] # Null => current[a] \in allocated
                      /\ rtable[a] # RM!NoTable => ~RM!Dead(rtable[a])
    BY DEF RM!ReadersSafe
  <2>1. ASSUME current[a] # Null PROVE current[a] \in allocated
    <3>1. PICK n \in Nodes : n = current[a]
      BY <2>1 DEF RM!StructureInv, RM!TypeOK
    <3>2. RM!NodeFor(a, n)
      BY <2>1, <3>1 DEF RM!StructureInv, RM!ProtectedInv
    <3>3. RM!RetiredNode(n) \/ n = unlinked \/ \E t \in RM!Tables : n \in RM!NodesOf(t)
      BY <3>2 DEF RM!NodeFor, RM!RetiredNode
    <3> QED
      BY <3>1, <3>3 DEF RM!StructureInv, RM!PlacesInv
  <2>2. ASSUME rtable[a] # RM!NoTable PROVE ~RM!Dead(rtable[a])
    <3>1. RM!TableFor(a, rtable[a])
      BY <2>2 DEF RM!StructureInv, RM!ProtectedInv
    <3> QED
      BY <3>1 DEF RM!TableFor, RM!Stands, RM!Dead
  <2> QED
    BY <2>1, <2>2
<1> QED
  BY <1>1, MapStructure, PTL

-----------------------------------------------------------------------------
(* What Places says, place by place.                                       *)
LEMMA PlacesAre ==
  ASSUME RM!TypeOK
  PROVE  /\ \A p \in DOMAIN RM!Places :
              \/ \E t \in RM!Tables : p = <<"table", t>> /\ ~RM!Dead(t) /\ RM!Places[p] = RM!NodesOf(t)
              \/ \E x \in retired : x[1] \in Nodes /\ p = <<"node", x[1]>> /\ RM!Places[p] = {x[1]}
              \/ unlinked # Null /\ p = <<"writer", unlinked>> /\ RM!Places[p] = {unlinked}
         /\ \A t \in RM!Tables : ~RM!Dead(t) =>
              <<"table", t>> \in DOMAIN RM!Places /\ RM!Places[<<"table", t>>] = RM!NodesOf(t)
         /\ \A x \in retired : x[1] \in Nodes =>
              <<"node", x[1]>> \in DOMAIN RM!Places /\ RM!Places[<<"node", x[1]>>] = {x[1]}
         /\ unlinked # Null =>
              <<"writer", unlinked>> \in DOMAIN RM!Places /\ RM!Places[<<"writer", unlinked>>] = {unlinked}
<1> DEFINE T == {<<"table", t>> : t \in {u \in RM!Tables : ~RM!Dead(u)}}
           R2 == {<<"node", x[1]>> : x \in {y \in retired : y[1] \in Nodes}}
           W == {<<"writer", n>> : n \in {unlinked} \ {Null}}
<1>1. RM!Places = [x \in T \cup R2 \cup W |-> IF x[1] = "table" THEN RM!NodesOf(x[2]) ELSE {x[2]}]
  BY DEF RM!Places
<1>2. \A p \in T : \E t \in RM!Tables : p = <<"table", t>> /\ ~RM!Dead(t)
  OBVIOUS
<1>3. \A p \in R2 : \E x \in retired : x[1] \in Nodes /\ p = <<"node", x[1]>>
  OBVIOUS
<1>4. \A p \in W : unlinked # Null /\ p = <<"writer", unlinked>>
  OBVIOUS
<1>5. \A t \in RM!Tables : ~RM!Dead(t) => <<"table", t>> \in T
  OBVIOUS
<1>6. \A x \in retired : x[1] \in Nodes => <<"node", x[1]>> \in R2
  OBVIOUS
<1>7. unlinked # Null => <<"writer", unlinked>> \in W
  OBVIOUS
<1> HIDE DEF T, R2, W
<1>8. DOMAIN RM!Places = T \cup R2 \cup W
  BY <1>1
<1>9. ASSUME NEW p \in T, NEW t \in RM!Tables, p = <<"table", t>> PROVE RM!Places[p] = RM!NodesOf(t)
  <2>1. p[1] = "table" /\ p[2] = t
    BY <1>9
  <2>2. RM!Places[p] = RM!NodesOf(p[2])
    BY <1>1, <2>1
  <2> QED
    BY <2>1, <2>2
<1>10. ASSUME NEW p \in R2 \cup W, NEW n, p = <<"node", n>> \/ p = <<"writer", n>> PROVE RM!Places[p] = {n}
  <2>1. p[1] # "table" /\ p[2] = n
    BY <1>10
  <2> QED
    BY <1>1, <2>1
<1>11. ASSUME NEW p \in DOMAIN RM!Places
       PROVE  \/ \E t \in RM!Tables : p = <<"table", t>> /\ ~RM!Dead(t) /\ RM!Places[p] = RM!NodesOf(t)
              \/ \E x \in retired : x[1] \in Nodes /\ p = <<"node", x[1]>> /\ RM!Places[p] = {x[1]}
              \/ unlinked # Null /\ p = <<"writer", unlinked>> /\ RM!Places[p] = {unlinked}
  <2>1. CASE p \in T
    <3>1. PICK t \in RM!Tables : p = <<"table", t>> /\ ~RM!Dead(t)
      BY <1>2, <2>1
    <3>2. RM!Places[p] = RM!NodesOf(t)
      BY <1>9, <2>1, <3>1
    <3> QED
      BY <3>1, <3>2
  <2>2. CASE p \in R2
    <3>1. PICK x \in retired : x[1] \in Nodes /\ p = <<"node", x[1]>>
      BY <1>3, <2>2
    <3>2. RM!Places[p] = {x[1]}
      BY <1>10, <2>2, <3>1
    <3> QED
      BY <3>1, <3>2
  <2>3. CASE p \in W
    <3>1. unlinked # Null /\ p = <<"writer", unlinked>>
      BY <1>4, <2>3
    <3>2. RM!Places[p] = {unlinked}
      BY <1>10, <2>3, <3>1
    <3> QED
      BY <3>1, <3>2
  <2> QED
    BY <1>8, <2>1, <2>2, <2>3
<1>12. ASSUME NEW t \in RM!Tables, ~RM!Dead(t)
       PROVE  <<"table", t>> \in DOMAIN RM!Places /\ RM!Places[<<"table", t>>] = RM!NodesOf(t)
  <2>1. PICK p : p = <<"table", t>>
    OBVIOUS
  <2>2. p \in T
    BY <1>5, <1>12, <2>1
  <2>3. RM!Places[p] = RM!NodesOf(t)
    BY <1>9, <2>1, <2>2
  <2> QED
    BY <1>8, <2>1, <2>2, <2>3
<1>13. ASSUME NEW x \in retired, x[1] \in Nodes
       PROVE  <<"node", x[1]>> \in DOMAIN RM!Places /\ RM!Places[<<"node", x[1]>>] = {x[1]}
  <2>1. PICK p : p = <<"node", x[1]>>
    OBVIOUS
  <2>2. p \in R2
    BY <1>6, <1>13, <2>1
  <2>3. RM!Places[p] = {x[1]}
    BY <1>10, <2>1, <2>2
  <2> QED
    BY <1>8, <2>1, <2>2, <2>3
<1>14. ASSUME unlinked # Null
       PROVE  <<"writer", unlinked>> \in DOMAIN RM!Places /\ RM!Places[<<"writer", unlinked>>] = {unlinked}
  <2>1. PICK p : p = <<"writer", unlinked>>
    OBVIOUS
  <2>2. p \in W
    BY <1>7, <1>14, <2>1
  <2>3. RM!Places[p] = {unlinked}
    BY <1>10, <2>1, <2>2
  <2> QED
    BY <1>8, <2>1, <2>2, <2>3
<1> QED
  BY <1>11, <1>12, <1>13, <1>14

(* A table that is gone has no chains left.                                *)
LEMMA DeadIsEmpty ==
  ASSUME Constants, RM!StructureInv, NEW t \in RM!Tables, RM!Dead(t)
  PROVE  RM!NodesOf(t) = {}
<1> USE DEF RM!StructureInv
<1>1. \A j \in DOMAIN buckets[t] : buckets[t][j] = Null
  BY DEF RM!WriterInv
<1>2. Null \notin Nodes /\ next \in [Nodes -> Nodes \cup {Null}]
  BY DEF Constants, RM!ConstantsApart, RM!TypeOK
<1>3. ReachIn(next, Null) = {}
  BY <1>2, ReachUnfolds
<1>4. NodesIn(next, buckets, t) = {}
  BY <1>1, <1>3 DEF NodesIn
<1> QED
  BY <1>4, Views

LEMMA AllAccounted ==
  ASSUME Constants, RM!StructureInv
  PROVE  RM!NodesAccounted
<1> USE DEF RM!StructureInv
<1>1. /\ \A p \in DOMAIN RM!Places :
           \/ \E t \in RM!Tables : p = <<"table", t>> /\ ~RM!Dead(t) /\ RM!Places[p] = RM!NodesOf(t)
           \/ \E x \in retired : x[1] \in Nodes /\ p = <<"node", x[1]>> /\ RM!Places[p] = {x[1]}
           \/ unlinked # Null /\ p = <<"writer", unlinked>> /\ RM!Places[p] = {unlinked}
      /\ \A t \in RM!Tables : ~RM!Dead(t) =>
           <<"table", t>> \in DOMAIN RM!Places /\ RM!Places[<<"table", t>>] = RM!NodesOf(t)
      /\ \A x \in retired : x[1] \in Nodes =>
           <<"node", x[1]>> \in DOMAIN RM!Places /\ RM!Places[<<"node", x[1]>>] = {x[1]}
      /\ unlinked # Null =>
           <<"writer", unlinked>> \in DOMAIN RM!Places /\ RM!Places[<<"writer", unlinked>>] = {unlinked}
  BY PlacesAre
<1>2. \A t \in RM!Tables : RM!NodesOf(t) \in SUBSET Nodes
  BY TableNodes
<1>3. allocated \subseteq Nodes /\ unlinked \in Nodes \cup {Null} /\ Null \notin Nodes
  BY DEF RM!TypeOK, Constants, RM!ConstantsApart
<1>4. ASSUME NEW n \in allocated PROVE \E p \in DOMAIN RM!Places : n \in RM!Places[p]
  <2>1. n \in Nodes
    BY <1>3
  <2>2. RM!RetiredNode(n) \/ n = unlinked \/ \E t \in RM!Tables : n \in RM!NodesOf(t)
    BY <2>1 DEF RM!PlacesInv
  <2>3. CASE RM!RetiredNode(n)
    <3>1. PICK x \in retired : x[1] = n
      BY <2>3 DEF RM!RetiredNode
    <3> QED
      BY <1>1, <2>1, <3>1
  <2>4. CASE n = unlinked
    BY <1>1, <1>3, <2>1, <2>4
  <2>5. CASE \E t \in RM!Tables : n \in RM!NodesOf(t)
    <3>1. PICK t \in RM!Tables : n \in RM!NodesOf(t)
      BY <2>5
    <3>2. ~RM!Dead(t)
      BY <3>1, DeadIsEmpty
    <3> QED
      BY <1>1, <3>1, <3>2
  <2> QED
    BY <2>2, <2>3, <2>4, <2>5
<1>5. ASSUME NEW p \in DOMAIN RM!Places, NEW n \in RM!Places[p] PROVE n \in allocated
  <2>1. CASE \E t \in RM!Tables : p = <<"table", t>> /\ ~RM!Dead(t) /\ RM!Places[p] = RM!NodesOf(t)
    <3>1. PICK t \in RM!Tables : n \in RM!NodesOf(t)
      BY <2>1
    <3> QED
      BY <1>2, <3>1 DEF RM!PlacesInv
  <2>2. CASE \E x \in retired : x[1] \in Nodes /\ p = <<"node", x[1]>> /\ RM!Places[p] = {x[1]}
    <3>1. n \in Nodes /\ RM!RetiredNode(n)
      BY <2>2 DEF RM!RetiredNode
    <3> QED
      BY <3>1 DEF RM!PlacesInv
  <2>3. CASE unlinked # Null /\ p = <<"writer", unlinked>> /\ RM!Places[p] = {unlinked}
    BY <1>3, <2>3 DEF RM!PlacesInv
  <2> QED
    BY <1>1, <2>1, <2>2, <2>3
<1>6. allocated = UNION {RM!Places[p] : p \in DOMAIN RM!Places}
  BY <1>4, <1>5
<1>7. ASSUME NEW p \in DOMAIN RM!Places, NEW q \in DOMAIN RM!Places, NEW n \in RM!Places[p], n \in RM!Places[q]
      PROVE  p = q
  <2>1. ASSUME NEW t \in RM!Tables, n \in RM!NodesOf(t)
        PROVE  n \in Nodes /\ ~RM!RetiredNode(n) /\ n # unlinked
    BY <1>2, <2>1 DEF RM!PlacesInv
  <2>2. CASE \E t \in RM!Tables : p = <<"table", t>> /\ ~RM!Dead(t) /\ RM!Places[p] = RM!NodesOf(t)
    <3>1. PICK t \in RM!Tables : p = <<"table", t>> /\ n \in RM!NodesOf(t)
      BY <2>2
    <3>2. n \in Nodes /\ ~RM!RetiredNode(n) /\ n # unlinked
      BY <2>1, <3>1
    <3>3. PICK s \in RM!Tables : q = <<"table", s>> /\ n \in RM!NodesOf(s)
      BY <1>1, <1>7, <3>2 DEF RM!RetiredNode
    <3>4. s = t
      BY <3>1, <3>3 DEF RM!PlacesInv
    <3> QED
      BY <3>1, <3>3, <3>4
  <2>3. CASE \E x \in retired : x[1] \in Nodes /\ p = <<"node", x[1]>> /\ RM!Places[p] = {x[1]}
    <3>1. n \in Nodes /\ RM!RetiredNode(n) /\ p = <<"node", n>>
      BY <2>3 DEF RM!RetiredNode
    <3>2. n # unlinked
      BY <3>1 DEF RM!PlacesInv
    <3>3. \A t \in RM!Tables : n \notin RM!NodesOf(t)
      BY <2>1, <3>1
    <3>4. q = <<"node", n>>
      BY <1>1, <1>7, <3>2, <3>3
    <3> QED
      BY <3>1, <3>4
  <2>4. CASE unlinked # Null /\ p = <<"writer", unlinked>> /\ RM!Places[p] = {unlinked}
    <3>1. n = unlinked /\ p = <<"writer", n>>
      BY <2>4
    <3>2. ~RM!RetiredNode(n)
      BY <3>1 DEF RM!PlacesInv
    <3>3. \A t \in RM!Tables : n \notin RM!NodesOf(t)
      BY <2>1, <3>1
    <3>4. q = <<"writer", n>>
      BY <1>1, <1>7, <3>1, <3>2, <3>3 DEF RM!RetiredNode
    <3> QED
      BY <3>1, <3>4
  <2> QED
    BY <1>1, <2>2, <2>3, <2>4
<1>8. \A p, q \in DOMAIN RM!Places : p # q => RM!Places[p] \cap RM!Places[q] = {}
  BY <1>7
<1>9. /\ \A x, y \in retired : x[1] = y[1] => x = y
      /\ \A t \in RM!Tables : ~RM!Dead(t) => \A m, n \in RM!NodesOf(t) : key[m] = key[n] => m = n
  BY DEF RM!PlacesInv, RM!ChainsInv
<1> QED
  BY <1>6, <1>8, <1>9 DEF RM!NodesAccounted

-----------------------------------------------------------------------------
(* What the map holds, read off the nodes of its table.                    *)
HoldsWell ==
  /\ table_ = RM!NoTable => \A k \in Keys : RM!Holds(k) = Absent
  /\ \A t \in RM!Tables : t = table_ => \A k \in Keys :
       /\ \A n \in RM!NodesOf(t) : key[n] = k => RM!Holds(k) = value[n] /\ value[n] \in Values
       /\ (\A n \in RM!NodesOf(t) : key[n] # k) => RM!Holds(k) = Absent

LEMMA NodesTyped ==
  ASSUME Constants, RM!StructureInv, NEW t \in RM!Tables, NEW n \in RM!NodesOf(t)
  PROVE  /\ n \in Nodes /\ n \in allocated /\ key[n] \in Keys /\ value[n] \in Values
         /\ n \in ReachIn(next, buckets[t][RM!Bucket(key[n], t)])
<1> USE DEF RM!StructureInv
<1>1. n \in NodesIn(next, buckets, t)
  BY Views
<1>2. PICK j \in DOMAIN buckets[t] : n \in ReachIn(next, buckets[t][j])
  BY <1>1 DEF NodesIn
<1>3. ChainsHold(next, buckets, key, value, hash_fn_)
  BY ChainsView
<1>4. key[n] \in Keys /\ value[n] \in Values /\ RM!Bucket(key[n], t) = j
  BY <1>2, <1>3 DEF ChainsHold, RM!Bucket
<1>5. n \in Nodes
  BY TableNodes
<1>6. n \in allocated
  BY <1>5 DEF RM!PlacesInv
<1> QED
  BY <1>2, <1>4, <1>5, <1>6

LEMMA HoldsRead == RM!StructureInv => HoldsWell
<1> SUFFICES ASSUME RM!StructureInv PROVE HoldsWell
  OBVIOUS
<1>1. Constants
  BY MapConstants DEF Constants
<1>2. table_ = RM!NoTable => \A k \in Keys : RM!Holds(k) = Absent
  BY DEF RM!Holds
<1>3. ASSUME NEW t \in RM!Tables, t = table_, NEW k \in Keys
      PROVE  /\ \A n \in RM!NodesOf(t) : key[n] = k => RM!Holds(k) = value[n] /\ value[n] \in Values
             /\ (\A n \in RM!NodesOf(t) : key[n] # k) => RM!Holds(k) = Absent
  <2>1. table_ \in RM!Tables /\ table_ # RM!NoTable
    BY <1>1, <1>3 DEF Constants, RM!TablesHaveBuckets, RM!Tables, RM!NoTable
  <2> DEFINE b == RM!Bucket(k, table_)
             chain == ReachIn(next, buckets[table_][b])
  <2>2. /\ chain \in SUBSET RM!NodesOf(table_)
        /\ RM!NodeOf(k) = Null => \A m \in chain : key[m] # k
        /\ RM!NodeOf(k) # Null => /\ RM!NodeOf(k) \in chain /\ key[RM!NodeOf(k)] = k
                                  /\ \A m \in chain \ {RM!NodeOf(k)} : key[m] # k
    BY <1>1, <2>1, FoundNode
  <2>3. /\ RM!NodeOf(k) = Null => RM!Holds(k) = Absent
        /\ RM!NodeOf(k) # Null => RM!Holds(k) = value[RM!NodeOf(k)]
    BY <2>1 DEF RM!Holds
  <2>4. ASSUME NEW n \in RM!NodesOf(t), key[n] = k PROVE n \in chain /\ value[n] \in Values
    BY <1>1, <1>3, <2>4, NodesTyped
  <2> HIDE DEF chain, b
  <2>5. ASSUME NEW n \in RM!NodesOf(t), key[n] = k PROVE RM!Holds(k) = value[n] /\ value[n] \in Values
    <3>1. n \in chain /\ value[n] \in Values
      BY <2>4, <2>5
    <3>2. RM!NodeOf(k) # Null /\ n = RM!NodeOf(k)
      BY <2>2, <2>5, <3>1
    <3> QED
      BY <2>3, <3>1, <3>2
  <2>6. ASSUME \A n \in RM!NodesOf(t) : key[n] # k PROVE RM!Holds(k) = Absent
    BY <1>3, <2>2, <2>3, <2>6
  <2> QED
    BY <2>5, <2>6
<1> QED
  BY <1>2, <1>3 DEF HoldsWell

LEMMA HoldsReadNext == RM!StructureInv' => HoldsWell'
BY HoldsRead, PTL

(* What a step does to the map, by what it does to the nodes of the table. *)
LEMMA MapUnchanged ==
  ASSUME Constants, RM!StructureInv, RM!StructureInv', table_' = table_,
         \A t \in RM!Tables : t = table_ => RM!NodesOf(t)' = RM!NodesOf(t),
         \A t \in RM!Tables : t = table_ =>
           \A n \in RM!NodesOf(t) : key'[n] = key[n] /\ value'[n] = value[n]
  PROVE  \A k \in Keys : RM!Holds(k)' = RM!Holds(k)
<1> SUFFICES ASSUME NEW k \in Keys PROVE RM!Holds(k)' = RM!Holds(k)
  OBVIOUS
<1>1. HoldsWell /\ HoldsWell'
  BY HoldsRead, HoldsReadNext
<1>2. CASE table_ = RM!NoTable
  <2>1. RM!Holds(k) = Absent
    BY <1>1, <1>2 DEF HoldsWell
  <2>2. RM!Holds(k)' = Absent
    <3>1. table_' = RM!NoTable
      BY <1>2
    <3> QED
      BY <1>1, <3>1 DEF HoldsWell, RM!NoTable
  <2> QED
    BY <2>1, <2>2
<1>3. CASE table_ # RM!NoTable
  <2>1. PICK t \in RM!Tables : t = table_ /\ t = table_'
    BY <1>3 DEF RM!StructureInv, RM!TypeOK
  <2>2. RM!NodesOf(t)' = RM!NodesOf(t)
        /\ \A n \in RM!NodesOf(t) : key'[n] = key[n] /\ value'[n] = value[n]
    BY <2>1
  <2>3. /\ \A n \in RM!NodesOf(t) : key[n] = k => RM!Holds(k) = value[n]
        /\ (\A n \in RM!NodesOf(t) : key[n] # k) => RM!Holds(k) = Absent
    BY <1>1, <2>1 DEF HoldsWell
  <2>4. /\ \A n \in RM!NodesOf(t)' : key'[n] = k => RM!Holds(k)' = value'[n]
        /\ (\A n \in RM!NodesOf(t)' : key'[n] # k) => RM!Holds(k)' = Absent
    BY <1>1, <2>1 DEF HoldsWell, RM!Tables
  <2> QED
    BY <2>2, <2>3, <2>4
<1> QED
  BY <1>2, <1>3

LEMMA SpliceMaps ==
  ASSUME Constants, RM!StructureInv, NEW k, NEW Old, NEW New, Splice(k, Old, New),
         \A n \in Old : key[n] = k, NEW v, New = {} => v = Absent, \A n \in New : value'[n] = v
  PROVE  RM!Holds(k)' = v /\ \A l \in Keys \ {k} : RM!Holds(l)' = RM!Holds(l)
<1>1. RM!StructureInv'
  BY SpliceKeeps
<1>2. HoldsWell /\ HoldsWell'
  BY <1>1, HoldsRead, HoldsReadNext
<1> DEFINE b == RM!Bucket(k, table_)
           chain == ReachIn(next, buckets[table_][b])
<1>3. /\ k \in Keys /\ table_ \in RM!Tables /\ table_' = table_
      /\ New \in SUBSET (Nodes \ allocated)
      /\ \A n \in chain \ Old : key[n] # k
      /\ \A n \in Nodes \ New : key'[n] = key[n] /\ value'[n] = value[n]
      /\ \A n \in New : key'[n] = k
  BY DEF Splice
<1>4. PICK t \in RM!Tables : t = table_ /\ t = table_'
  BY <1>3
<1>5. RM!NodesOf(t)' = (RM!NodesOf(t) \ Old) \cup New
  BY <1>4, SpliceChains
<1>6. \A n \in RM!NodesOf(t) : n \in Nodes /\ n \notin New
  BY <1>3, NodesTyped
<1>7. \A n \in RM!NodesOf(t) \ Old : key[n] # k
  <2> SUFFICES ASSUME NEW n \in RM!NodesOf(t), n \notin Old, key[n] = k PROVE FALSE
    OBVIOUS
  <2>1. n \in chain
    BY <1>4, NodesTyped
  <2> QED
    BY <1>3, <2>1
<1> HIDE DEF b, chain
<1>8. \A l \in Keys :
        /\ \A n \in RM!NodesOf(t) : key[n] = l => RM!Holds(l) = value[n]
        /\ (\A n \in RM!NodesOf(t) : key[n] # l) => RM!Holds(l) = Absent
  BY <1>2, <1>4 DEF HoldsWell
<1>9. \A l \in Keys :
        /\ \A n \in RM!NodesOf(t)' : key'[n] = l => RM!Holds(l)' = value'[n]
        /\ (\A n \in RM!NodesOf(t)' : key'[n] # l) => RM!Holds(l)' = Absent
  BY <1>2, <1>4 DEF HoldsWell, RM!Tables
<1>10. RM!Holds(k)' = v
  <2>1. CASE New = {}
    <3>1. \A n \in RM!NodesOf(t)' : key'[n] # k
      BY <1>3, <1>5, <1>6, <1>7, <2>1
    <3> QED
      BY <1>3, <1>9, <2>1, <3>1
  <2>2. CASE New # {}
    <3>1. PICK n \in New : TRUE
      BY <2>2
    <3> QED
      BY <1>3, <1>5, <1>9, <3>1
  <2> QED
    BY <2>1, <2>2
<1>11. ASSUME NEW l \in Keys \ {k} PROVE RM!Holds(l)' = RM!Holds(l)
  <2>1. CASE \E n \in RM!NodesOf(t) : key[n] = l
    <3>1. PICK n \in RM!NodesOf(t) : key[n] = l
      BY <2>1
    <3>2. n \notin Old /\ n \notin New /\ n \in Nodes
      BY <1>6, <1>11, <3>1
    <3>3. n \in RM!NodesOf(t)' /\ key'[n] = l /\ value'[n] = value[n]
      BY <1>3, <1>5, <3>1, <3>2
    <3> QED
      BY <1>8, <1>9, <1>11, <3>1, <3>3
  <2>2. CASE \A n \in RM!NodesOf(t) : key[n] # l
    <3>1. \A n \in RM!NodesOf(t)' : key'[n] # l
      BY <1>3, <1>5, <1>6, <1>11, <2>2
    <3> QED
      BY <1>8, <1>9, <1>11, <2>2, <3>1
  <2> QED
    BY <2>1, <2>2
<1> QED
  BY <1>10, <1>11

LEMMA PutMaps ==
  ASSUME Constants, RM!StructureInv, UNCHANGED hash_fn_, NEW k \in Keys, NEW v \in Values,
         RM!Insert(k, v) \/ RM!Replace(k, v)
  PROVE  RM!Holds(k)' = v /\ \A l \in Keys \ {k} : RM!Holds(l)' = RM!Holds(l)
<1>1. value' = [value EXCEPT ![RM!Fresh] = v] /\ allocated # Nodes
  BY DEF RM!Insert, RM!Replace, RM!Allocate
<1>2. \A n \in {RM!Fresh} : value'[n] = v
  BY <1>1, FreshIsFree DEF RM!StructureInv, RM!TypeOK
<1>3. table_ \in RM!Tables
  BY SpliceStarts DEF RM!Insert, RM!Replace
<1>4. CASE RM!Insert(k, v)
  <2>1. Splice(k, {}, {RM!Fresh})
    BY <1>4, InsertSplices
  <2> QED
    BY <1>2, <2>1, SpliceMaps
<1>5. CASE RM!Replace(k, v)
  <2>1. Splice(k, {RM!NodeOf(k)}, {RM!Fresh})
    BY <1>5, ReplaceSplices
  <2>2. key[RM!NodeOf(k)] = k
    BY <1>3, <1>5, FoundNode DEF RM!Replace
  <2> QED
    BY <1>2, <2>1, <2>2, SpliceMaps
<1> QED
  BY <1>4, <1>5

LEMMA RemoveMaps ==
  ASSUME Constants, RM!StructureInv, UNCHANGED hash_fn_, NEW k \in Keys, RM!Remove(k)
  PROVE  RM!Holds(k)' = Absent /\ \A l \in Keys \ {k} : RM!Holds(l)' = RM!Holds(l)
<1>1. table_ \in RM!Tables
  BY DEF RM!Remove, RM!StructureInv, RM!TypeOK
<1>2. Splice(k, {RM!NodeOf(k)}, {})
  BY RemoveSplices
<1>3. key[RM!NodeOf(k)] = k
  BY <1>1, FoundNode DEF RM!Remove
<1> QED
  BY <1>2, <1>3, SpliceMaps

(* Resize moves every key, with what it holds.                             *)
LEMMA ResizeMaps ==
  ASSUME Constants, RM!StructureInv, UNCHANGED hash_fn_, NEW k \in Keys, NEW v \in Values, RM!Resize(k, v)
  PROVE  \A l \in Keys : RM!Holds(l)' = RM!Holds(l)
<1>1. RM!StructureInv'
  BY ResizeKeeps
<1>2. HoldsWell /\ HoldsWell'
  BY <1>1, HoldsRead, HoldsReadNext
<1>3. PICK N, olds, copy : Copying(N, olds, copy)
  BY ResizeCopies
<1>4. /\ table_ \in RM!Tables /\ table_ + 1 \in RM!Tables /\ table_' = table_ + 1
      /\ olds \in [1 .. N -> RM!NodesOf(table_)]
      /\ \A n \in RM!NodesOf(table_) : \E j \in 1 .. N : olds[j] = n
      /\ \A j \in 1 .. N : key'[copy[j]] = key[olds[j]] /\ value'[copy[j]] = value[olds[j]]
  BY <1>3 DEF Copying
<1>5. PICK t \in RM!Tables, u \in RM!Tables : t = table_ /\ u = table_'
  BY <1>4
<1>6. \A s \in RM!Tables : s = table_ + 1 => RM!NodesOf(s)' = {copy[j] : j \in 1 .. N}
  BY <1>3, CopyingChains
<1>7. RM!NodesOf(u)' = {copy[j] : j \in 1 .. N}
  BY <1>4, <1>5, <1>6
<1> SUFFICES ASSUME NEW l \in Keys PROVE RM!Holds(l)' = RM!Holds(l)
  OBVIOUS
<1>8. /\ \A n \in RM!NodesOf(t) : key[n] = l => RM!Holds(l) = value[n]
      /\ (\A n \in RM!NodesOf(t) : key[n] # l) => RM!Holds(l) = Absent
  BY <1>2, <1>5 DEF HoldsWell
<1>9. /\ \A n \in RM!NodesOf(u)' : key'[n] = l => RM!Holds(l)' = value'[n]
      /\ (\A n \in RM!NodesOf(u)' : key'[n] # l) => RM!Holds(l)' = Absent
  BY <1>2, <1>5 DEF HoldsWell, RM!Tables
<1>10. CASE \E n \in RM!NodesOf(t) : key[n] = l
  <2>1. PICK n \in RM!NodesOf(t) : key[n] = l
    BY <1>10
  <2>2. PICK j \in 1 .. N : olds[j] = n
    BY <1>4, <1>5, <2>1
  <2>3. copy[j] \in RM!NodesOf(u)' /\ key'[copy[j]] = l /\ value'[copy[j]] = value[n]
    BY <1>4, <1>7, <2>1, <2>2
  <2> QED
    BY <1>8, <1>9, <2>1, <2>3
<1>11. CASE \A n \in RM!NodesOf(t) : key[n] # l
  <2>1. ASSUME NEW n \in RM!NodesOf(u)' PROVE key'[n] # l
    <3>1. PICK j \in 1 .. N : n = copy[j]
      BY <1>7, <2>1
    <3>2. olds[j] \in RM!NodesOf(t) /\ key'[n] = key[olds[j]]
      BY <1>4, <1>5, <3>1
    <3> QED
      BY <1>11, <3>2
  <2> QED
    BY <1>8, <1>9, <1>11, <2>1
<1> QED
  BY <1>10, <1>11

LEMMA QuietMaps ==
  ASSUME Constants, RM!StructureInv, RM!StructureInv', UNCHANGED <<table_, buckets, key, value, next>>
  PROVE  \A k \in Keys : RM!Holds(k)' = RM!Holds(k)
<1>1. \A t \in RM!Tables : RM!NodesOf(t)' = RM!NodesOf(t)
  BY SameNodes
<1> QED
  BY <1>1, MapUnchanged

(* Gc destroys nothing that is in the table.                               *)
LEMMA GcMaps ==
  ASSUME Constants, RM!StructureInv, UNCHANGED hash_fn_, RM!Gc
  PROVE  \A k \in Keys : RM!Holds(k)' = RM!Holds(k)
<1> DEFINE past == {x \in retired : x[2] = {}}
           objects == {x[1] : x \in past}
           dead == Doomed(objects)
<1>1. RM!Delete(objects) /\ table_' = table_
  BY DEF RM!Gc
<1>2. RM!StructureInv'
  BY GcKeeps
<1>3. \A o \in objects : RM!RetiredNode(o)
  BY DEF RM!RetiredNode
<1>4. ASSUME NEW t \in RM!Tables, t = table_ PROVE t \notin objects
  <2> SUFFICES ASSUME t \in objects PROVE FALSE
    OBVIOUS
  <2>1. PICK x \in retired : x[1] = t
    BY <1>3 DEF RM!RetiredNode
  <2>2. table_ # RM!NoTable
    BY <1>4 DEF Constants, RM!TablesHaveBuckets, RM!Tables, RM!NoTable
  <2> QED
    BY <1>4, <2>1, <2>2 DEF RM!StructureInv, RM!WriterInv, RM!Stands
<1>5. /\ key' = [n \in Nodes |-> IF n \in dead THEN None ELSE key[n]]
      /\ value' = [n \in Nodes |-> IF n \in dead THEN None ELSE value[n]]
  BY <1>1 DEF RM!Delete, Doomed
<1> HIDE DEF objects, dead
<1>6. \A t \in RM!Tables \ objects : RM!NodesOf(t)' = RM!NodesOf(t) /\ RM!NodesOf(t) \cap Doomed(objects) = {}
  BY <1>1, <1>3, DeleteChains
<1>7. ASSUME NEW t \in RM!Tables, t = table_, NEW n \in RM!NodesOf(t)
      PROVE  key'[n] = key[n] /\ value'[n] = value[n]
  <2>1. n \in Nodes /\ n \notin dead
    BY <1>4, <1>6, <1>7, NodesTyped DEF dead
  <2> QED
    BY <1>5, <2>1
<1>8. \A t \in RM!Tables : t = table_ => RM!NodesOf(t)' = RM!NodesOf(t)
  BY <1>4, <1>6
<1> QED
  BY <1>1, <1>2, <1>7, <1>8, MapUnchanged

LEMMA DestroyMaps ==
  ASSUME Constants, RM!StructureInv, UNCHANGED hash_fn_, RM!Destroy
  PROVE  \A k \in Keys : RM!Holds(k)' = Absent
<1>1. HoldsWell'
  BY DestroyKeeps, HoldsReadNext
<1>2. (table_ = RM!NoTable)'
  BY DEF RM!Destroy, RM!NoTable
<1> QED
  BY <1>1, <1>2 DEF HoldsWell

-----------------------------------------------------------------------------
(* The number of keys.                                                     *)
Present == {k \in Keys : RM!Holds(k) # Absent}

(* How far Size() is behind the map.                                       *)
Behind == IF wpc = "count" THEN 1 ELSE IF wpc = "uncount" THEN -1 ELSE 0

LEMMA SizeCounts ==
  /\ RM!SizeExact <=> count_ = Cardinality(Present) - Behind
  /\ RM!SizeExact' <=> count_' = Cardinality(Present') - Behind'
  /\ IsFiniteSet(Keys)
<1>1. RM!Cardinality(Present) = Cardinality(Present) /\ RM!Cardinality(Present') = Cardinality(Present')
  BY SameCardinality
<1>2. IsFiniteSet(Keys)
  BY MapConstants, SameCardinality DEF RM!ConstantsApart
<1>3. IsFiniteSet(Present) /\ IsFiniteSet(Present')
  <2>1. Present \in SUBSET Keys /\ Present' \in SUBSET Keys
    BY DEF Present
  <2> QED
    BY <1>2, <2>1, FS_Subset
<1>4. Cardinality(Present) \in Nat /\ Cardinality(Present') \in Nat
  BY <1>3, FS_CardinalityType
<1>5. RM!SizeExact <=> count_ = CASE wpc = "count" -> RM!Cardinality(Present) - 1
                                  [] wpc = "uncount" -> RM!Cardinality(Present) + 1
                                  [] OTHER -> RM!Cardinality(Present)
  BY DEF RM!SizeExact, Present
<1>6. RM!SizeExact' <=> count_' = CASE wpc' = "count" -> RM!Cardinality(Present') - 1
                                    [] wpc' = "uncount" -> RM!Cardinality(Present') + 1
                                    [] OTHER -> RM!Cardinality(Present')
  BY DEF RM!SizeExact, Present
<1>7. RM!SizeExact <=> count_ = Cardinality(Present) - Behind
  <2>1. CASE wpc = "count"
    BY <1>1, <1>4, <1>5, <2>1 DEF Behind
  <2>2. CASE wpc = "uncount"
    BY <1>1, <1>4, <1>5, <2>2 DEF Behind
  <2>3. CASE wpc # "count" /\ wpc # "uncount"
    BY <1>1, <1>4, <1>5, <2>3 DEF Behind
  <2> QED
    BY <2>1, <2>2, <2>3
<1>8. RM!SizeExact' <=> count_' = Cardinality(Present') - Behind'
  <2>1. CASE wpc' = "count"
    BY <1>1, <1>4, <1>6, <2>1 DEF Behind
  <2>2. CASE wpc' = "uncount"
    BY <1>1, <1>4, <1>6, <2>2 DEF Behind
  <2>3. CASE wpc' # "count" /\ wpc' # "uncount"
    BY <1>1, <1>4, <1>6, <2>3 DEF Behind
  <2> QED
    BY <2>1, <2>2, <2>3
<1> QED
  BY <1>2, <1>7, <1>8

LEMMA SizeSame ==
  ASSUME RM!SizeExact, \A k \in Keys : RM!Holds(k)' = RM!Holds(k), count_' + Behind' = count_ + Behind,
         count_ \in Int, count_' \in Int
  PROVE  RM!SizeExact'
<1>1. Present' = Present
  BY DEF Present
<1>2. IsFiniteSet(Present)
  BY SizeCounts, FS_Subset DEF Present
<1>3. Cardinality(Present) \in Nat /\ Behind \in Int /\ Behind' \in Int
  BY <1>2, FS_CardinalityType DEF Behind
<1>4. count_ = Cardinality(Present) - Behind
  BY SizeCounts
<1>5. count_' = Cardinality(Present') - Behind'
  BY <1>1, <1>3, <1>4
<1> QED
  BY <1>5, SizeCounts

LEMMA SizeStep ==
  ASSUME Constants, RM!StructureInv, RM!VisibleInv, RM!SizeExact, RM!Next
  PROVE  RM!SizeExact'
<1>1. UNCHANGED hash_fn_ /\ RM!StructureInv' /\ count_ \in Int /\ count_' \in Int
  <2>1. RM!StructureInv'
    BY StructureStep
  <2> QED
    BY <2>1 DEF RM!Next, RM!StructureInv, RM!TypeOK
<1>2. IsFiniteSet(Present) /\ Cardinality(Present) \in Nat /\ count_ = Cardinality(Present) - Behind
  <2>1. IsFiniteSet(Present)
    BY SizeCounts, FS_Subset DEF Present
  <2> QED
    BY <2>1, FS_CardinalityType, SizeCounts
<1>3. Absent \notin Values
  BY DEF Constants, RM!ConstantsApart
<1>4. ASSUME NEW k \in Keys, RM!Remove(k) PROVE RM!SizeExact'
  <2>1. RM!Holds(k)' = Absent /\ \A l \in Keys \ {k} : RM!Holds(l)' = RM!Holds(l)
    BY <1>1, <1>4, RemoveMaps
  <2>2. Present' = Present \ {k}
    BY <2>1 DEF Present
  <2>3. k \in Present
    <3>1. PICK t \in RM!Tables : t = table_
      BY <1>4 DEF RM!Remove, RM!StructureInv, RM!TypeOK
    <3>2. RM!NodeOf(k) \in RM!NodesOf(t) /\ key[RM!NodeOf(k)] = k
      BY <1>4, <3>1, FoundNode DEF RM!Remove
    <3>3. HoldsWell
      BY HoldsRead
    <3>4. RM!Holds(k) \in Values
      BY <3>1, <3>2, <3>3 DEF HoldsWell
    <3> QED
      BY <1>3, <3>4 DEF Present
  <2>4. Cardinality(Present') = Cardinality(Present) - 1
    BY <1>2, <2>2, <2>3, FS_RemoveElement
  <2>5. Behind = 0 /\ Behind' = -1 /\ count_' = count_
    BY <1>4 DEF RM!Remove, Behind
  <2>6. count_' = Cardinality(Present') - Behind'
    BY <1>2, <2>4, <2>5
  <2> QED
    BY <2>6, SizeCounts
<1>5. ASSUME NEW k \in Keys, NEW v \in Values, RM!Resize(k, v) PROVE RM!SizeExact'
  <2>1. \A l \in Keys : RM!Holds(l)' = RM!Holds(l)
    BY <1>1, <1>5, ResizeMaps
  <2>2. count_' + Behind' = count_ + Behind
    BY <1>5 DEF RM!Resize, Behind
  <2> QED
    BY <1>1, <2>1, <2>2, SizeSame
<1>6. ASSUME NEW k \in Keys, NEW v \in Values, RM!Insert(k, v) \/ RM!Replace(k, v) PROVE RM!SizeExact'
  <2>1. RM!Holds(k)' = v /\ \A l \in Keys \ {k} : RM!Holds(l)' = RM!Holds(l)
    BY <1>1, <1>6, PutMaps
  <2>2. Present' = Present \cup {k}
    BY <1>3, <2>1 DEF Present
  <2>3. wpc \in {"idle", "splice"} /\ table_ \in RM!Tables
    BY <1>6, SpliceStarts DEF RM!Insert, RM!Replace
  <2>4. Behind = 0
    BY <2>3 DEF Behind
  <2>5. PICK t \in RM!Tables : t = table_
    BY <2>3
  <2>6. HoldsWell
    BY HoldsRead
  <2>7. CASE RM!Insert(k, v)
    <3>1. \A n \in RM!NodesOf(t) : key[n] # k
      <4> SUFFICES ASSUME NEW n \in RM!NodesOf(t), key[n] = k PROVE FALSE
        OBVIOUS
      <4>1. n \in ReachIn(next, buckets[t][RM!Bucket(k, t)])
        BY NodesTyped
      <4> QED
        BY <2>5, <2>7, <4>1, FoundNode DEF RM!Insert
    <3>2. k \notin Present
      BY <2>5, <2>6, <3>1 DEF HoldsWell, Present
    <3>3. Cardinality(Present') = Cardinality(Present) + 1
      BY <1>2, <2>2, <3>2, FS_AddElement
    <3>4. Behind' = 1 /\ count_' = count_
      BY <2>7 DEF RM!Insert, Behind
    <3>5. count_' = Cardinality(Present') - Behind'
      BY <1>2, <2>4, <3>3, <3>4
    <3> QED
      BY <3>5, SizeCounts
  <2>8. CASE RM!Replace(k, v)
    <3>1. RM!NodeOf(k) \in RM!NodesOf(t) /\ key[RM!NodeOf(k)] = k
      BY <2>5, <2>8, FoundNode DEF RM!Replace
    <3>2. RM!Holds(k) \in Values
      BY <2>5, <2>6, <3>1 DEF HoldsWell
    <3>3. Present' = Present
      BY <1>3, <2>2, <3>2 DEF Present
    <3>4. Behind' = 0 /\ count_' = count_
      BY <2>8 DEF RM!Replace, Behind
    <3>5. count_' = Cardinality(Present') - Behind'
      BY <1>2, <2>4, <3>3, <3>4
    <3> QED
      BY <3>5, SizeCounts
  <2> QED
    BY <1>6, <2>7, <2>8
<1>7. CASE RM!Gc
  <2>1. count_' + Behind' = count_ + Behind
    BY <1>7 DEF RM!Gc, RM!writer, Behind
  <2> QED
    BY <1>1, <1>7, <2>1, GcMaps, SizeSame
<1>8. CASE RM!Destroy
  <2>1. Present' = {}
    BY <1>1, <1>8, DestroyMaps DEF Present
  <2>2. Cardinality(Present') = 0
    BY <2>1, FS_EmptySet
  <2>3. count_' = 0 /\ Behind' = 0
    BY <1>8 DEF RM!Destroy, RM!writer, Behind
  <2>4. count_' = Cardinality(Present') - Behind'
    BY <2>2, <2>3
  <2> QED
    BY <2>4, SizeCounts
<1>9. ASSUME UNCHANGED <<table_, buckets, key, value, next>>, count_' + Behind' = count_ + Behind
      PROVE  RM!SizeExact'
  BY <1>1, <1>9, QuietMaps, SizeSame
<1>10. CASE RM!RetireTable \/ RM!Retire \/ RM!Publish
  BY <1>9, <1>10 DEF RM!RetireTable, RM!Retire, RM!Publish, RM!nodes, RM!writer, Behind
<1>11. CASE RM!Count
  <2>1. count_' = count_ + 1 /\ Behind = 1 /\ Behind' = 0
    BY <1>11 DEF RM!Count, Behind
  <2>2. count_' + Behind' = count_ + Behind
    BY <1>1, <2>1
  <2> QED
    BY <1>9, <1>11, <2>2 DEF RM!Count, RM!nodes
<1>12. CASE RM!Uncount
  <2>1. count_' = count_ - 1 /\ Behind = -1 /\ Behind' = 0
    BY <1>12 DEF RM!Uncount, Behind
  <2>2. count_' + Behind' = count_ + Behind
    BY <1>1, <2>1
  <2> QED
    BY <1>9, <1>12, <2>2 DEF RM!Uncount, RM!nodes
<1>13. ASSUME NEW a \in Readers, RM!ReaderStep(a) \/ \E k \in Keys : RM!Get(a, k) PROVE RM!SizeExact'
  <2>1. UNCHANGED <<table_, buckets, key, value, next, count_, wpc>>
    <3>1. CASE RM!ReaderStep(a)
      BY <3>1 DEF RM!ReaderStep, RM!Pin, RM!LoadRetired, RM!LoadTable, RM!LoadBucket, RM!Visit, RM!Leave, RM!nodes, RM!writer
    <3>2. CASE \E k \in Keys : RM!Get(a, k)
      BY <3>2 DEF RM!Get, RM!nodes, RM!writer
    <3> QED
      BY <1>13, <3>1, <3>2
  <2> QED
    BY <1>9, <2>1 DEF Behind
<1> QED
  BY <1>4, <1>5, <1>6, <1>7, <1>8, <1>10, <1>11, <1>12, <1>13 DEF RM!Next, RM!Put

(* No node of RcuHashMap leaks, is freed twice or holds a key twice, and   *)
(* Size() counts the keys, whatever the interleaving of Put, Remove, Get   *)
(* and Gc.                                                                 *)
THEOREM NothingLeaks == MCSpec => []MapInv
<1>1. Constants
  BY MapConstants DEF Constants
<1>2. MCInit => RM!SizeExact
  <2> SUFFICES ASSUME RM!Init PROVE RM!SizeExact
    BY DEF MCInit
  <2>1. RM!StructureInv
    BY <1>1, StructureInit
  <2>2. table_ = 0 /\ count_ = 0 /\ wpc = "idle" /\ allocated = {}
    BY DEF RM!Init
  <2>3. PICK t \in RM!Tables : t = table_
    BY <1>1, <2>2 DEF Constants, RM!TablesHaveBuckets, RM!Tables
  <2>4. RM!NodesOf(t) = {}
    BY <1>1, <2>1, <2>2, NodesTyped
  <2>5. Present = {}
    BY <2>1, <2>3, <2>4, HoldsRead DEF HoldsWell, Present
  <2>6. count_ = Cardinality(Present) - Behind
    BY <2>2, <2>5, FS_EmptySet DEF Behind
  <2> QED
    BY <2>6, SizeCounts
<1>3. RM!StructureInv /\ RM!VisibleInv /\ RM!StructureInv' /\ RM!SizeExact /\ [MCNext]_all => RM!SizeExact'
  <2> SUFFICES ASSUME RM!StructureInv, RM!VisibleInv, RM!StructureInv', RM!SizeExact, [MCNext]_all PROVE RM!SizeExact'
    OBVIOUS
  <2>1. CASE RM!Next
    BY <1>1, <2>1, SizeStep
  <2>2. CASE UNCHANGED rcu
    <3>1. UNCHANGED <<table_, buckets, key, value, next, count_, wpc>> /\ count_ \in Int
      BY <2>2 DEF rcu, RM!StructureInv, RM!TypeOK
    <3>2. count_' + Behind' = count_ + Behind /\ count_' \in Int
      BY <3>1 DEF Behind
    <3> QED
      BY <1>1, <3>1, <3>2, QuietMaps, SizeSame
  <2> QED
    BY <2>1, <2>2 DEF MCNext, all
<1>4. RM!StructureInv /\ RM!SizeExact => MapInv
  BY <1>1, AllAccounted DEF MapInv, RM!MapInv
<1> QED
  BY <1>2, <1>3, <1>4, MapStructure, PTL DEF MCSpec

-----------------------------------------------------------------------------
(* What is found along a chain, and the keys along it.                     *)
ValueIn(nx, ky, va, k, n) == IF FindIn(nx, ky, k, n) = Null THEN Absent ELSE va[FindIn(nx, ky, k, n)]

KeysIn(nx, ky, n) == {ky[m] : m \in ReachIn(nx, n)}

ValuesAlong(nx, ky, va, k) ==
  /\ ValueIn(nx, ky, va, k, Null) = Absent
  /\ \A n \in Nodes : ky[n] = k => ValueIn(nx, ky, va, k, n) = va[n]
  /\ \A n \in Nodes : ky[n] # k => ValueIn(nx, ky, va, k, n) = ValueIn(nx, ky, va, k, nx[n])

LEMMA ValueUnfolds ==
  ASSUME NEW nx, NEW rank, Descends(nx, rank), NEW ky, NEW va, NEW k
  PROVE  ValuesAlong(nx, ky, va, k)
<1>1. /\ FindIn(nx, ky, k, Null) = Null
      /\ \A n \in Nodes : FindIn(nx, ky, k, n) = IF ky[n] = k THEN n ELSE FindIn(nx, ky, k, nx[n])
  <2>1. FindsAlong(nx, ky, k)
    BY FindUnfolds
  <2> QED
    BY <2>1 DEF FindsAlong
<1>2. Null \notin Nodes
  BY DEF Descends
<1>3. ASSUME NEW n \in Nodes, ky[n] = k PROVE ValueIn(nx, ky, va, k, n) = va[n]
  <2>1. FindIn(nx, ky, k, n) = n /\ n # Null
    BY <1>1, <1>2, <1>3
  <2> QED
    BY <2>1 DEF ValueIn
<1>4. ASSUME NEW n \in Nodes, ky[n] # k PROVE ValueIn(nx, ky, va, k, n) = ValueIn(nx, ky, va, k, nx[n])
  <2>1. FindIn(nx, ky, k, n) = FindIn(nx, ky, k, nx[n])
    BY <1>1, <1>4
  <2> QED
    BY <2>1 DEF ValueIn
<1>5. ValueIn(nx, ky, va, k, Null) = Absent
  BY <1>1 DEF ValueIn
<1> QED
  BY <1>3, <1>4, <1>5 DEF ValuesAlong

LEMMA NotFound ==
  ASSUME NEW nx, NEW rank, Descends(nx, rank), NEW ky, NEW va, NEW k,
         NEW n \in Nodes \cup {Null}, k \notin KeysIn(nx, ky, n)
  PROVE  ValueIn(nx, ky, va, k, n) = Absent
<1>1. \A m \in ReachIn(nx, n) : ky[m] # k
  BY DEF KeysIn
<1>2. FindIn(nx, ky, k, n) = Null
  BY <1>1, FindFinds
<1> QED
  BY <1>2 DEF ValueIn

KeysAlong(nx, ky) ==
  /\ KeysIn(nx, ky, Null) = {}
  /\ \A n \in Nodes : KeysIn(nx, ky, n) = {ky[n]} \cup KeysIn(nx, ky, nx[n])

LEMMA KeysUnfold ==
  ASSUME NEW nx, NEW rank, Descends(nx, rank), NEW ky
  PROVE  KeysAlong(nx, ky)
<1>1. /\ ReachIn(nx, Null) = {}
      /\ \A n \in Nodes : ReachIn(nx, n) = {n} \cup ReachIn(nx, nx[n])
  BY ReachUnfolds DEF Descends
<1>2. KeysIn(nx, ky, Null) = {}
  BY <1>1 DEF KeysIn
<1>3. ASSUME NEW n \in Nodes PROVE KeysIn(nx, ky, n) = {ky[n]} \cup KeysIn(nx, ky, nx[n])
  <2>1. ReachIn(nx, n) = {n} \cup ReachIn(nx, nx[n])
    BY <1>1
  <2> QED
    BY <2>1 DEF KeysIn
<1> QED
  BY <1>2, <1>3 DEF KeysAlong

(* Induction along the chains.                                             *)
LEMMA ByRank ==
  ASSUME NEW A \in SUBSET Nodes, NEW rank \in [Nodes -> Nat], NEW Good,
         \A n \in A : (\A m \in A : rank[m] < rank[n] => m \in Good) => n \in Good
  PROVE  A \subseteq Good
<1> SUFFICES ASSUME A \ Good # {} PROVE FALSE
  OBVIOUS
<1> DEFINE Ranks == {rank[n] : n \in A \ Good}
<1>1. Ranks \in SUBSET Nat /\ Ranks # {}
  OBVIOUS
<1> HIDE DEF Ranks
<1>2. PICK low \in Ranks : \A y \in Ranks : low <= y
  BY <1>1, LeastOf
<1>3. PICK n \in A \ Good : rank[n] = low
  BY <1>2 DEF Ranks
<1>4. ASSUME NEW m \in A, rank[m] < rank[n], m \notin Good PROVE FALSE
  <2>1. rank[m] \in Ranks
    BY <1>4 DEF Ranks
  <2>2. rank[n] <= rank[m]
    BY <1>2, <1>3, <2>1
  <2>3. rank[m] \in Nat /\ rank[n] \in Nat
    OBVIOUS
  <2> QED
    BY <1>4, <2>2, <2>3
<1> QED
  BY <1>3, <1>4

(* A change of the chains outside a closed set of nodes does not touch what *)
(* is found from inside.                                                   *)
WalksAlike(nx, ny, ky, ky2, va, va2, A, k) ==
  \A n \in A \cup {Null} : /\ ValueIn(ny, ky2, va2, k, n) = ValueIn(nx, ky, va, k, n)
                           /\ KeysIn(ny, ky2, n) = KeysIn(nx, ky, n)

LEMMA SameWalk ==
  ASSUME NEW nx, NEW rank, Descends(nx, rank), NEW ny, NEW rank2, Descends(ny, rank2),
         NEW ky, NEW ky2, NEW va, NEW va2, NEW A \in SUBSET Nodes, ClosedIn(nx, A),
         \A n \in A : ny[n] = nx[n] /\ ky2[n] = ky[n] /\ va2[n] = va[n], NEW k
  PROVE  WalksAlike(nx, ny, ky, ky2, va, va2, A, k)
<1> DEFINE Same(n) == /\ ValueIn(ny, ky2, va2, k, n) = ValueIn(nx, ky, va, k, n)
                      /\ KeysIn(ny, ky2, n) = KeysIn(nx, ky, n)
           Good == {n \in A : Same(n)}
<1>0. /\ ValueIn(nx, ky, va, k, Null) = Absent
      /\ \A n \in Nodes : ky[n] = k => ValueIn(nx, ky, va, k, n) = va[n]
      /\ \A n \in Nodes : ky[n] # k => ValueIn(nx, ky, va, k, n) = ValueIn(nx, ky, va, k, nx[n])
  <2>1. ValuesAlong(nx, ky, va, k)
    BY ValueUnfolds
  <2> QED
    BY <2>1 DEF ValuesAlong
<1>a. /\ ValueIn(ny, ky2, va2, k, Null) = Absent
      /\ \A n \in Nodes : ky2[n] = k => ValueIn(ny, ky2, va2, k, n) = va2[n]
      /\ \A n \in Nodes : ky2[n] # k => ValueIn(ny, ky2, va2, k, n) = ValueIn(ny, ky2, va2, k, ny[n])
  <2>1. ValuesAlong(ny, ky2, va2, k)
    BY ValueUnfolds
  <2> QED
    BY <2>1 DEF ValuesAlong
<1>1. Same(Null)
  BY <1>0, <1>a, KeysUnfold DEF KeysAlong
<1>2. rank \in [Nodes -> Nat] /\ nx \in [Nodes -> Nodes \cup {Null}]
      /\ \A n \in Nodes : nx[n] # Null => rank[nx[n]] < rank[n]
  BY DEF Descends
<1>3. ASSUME NEW n \in A, \A m \in A : rank[m] < rank[n] => m \in Good PROVE Same(n)
  <2>1. n \in Nodes /\ ny[n] = nx[n] /\ ky2[n] = ky[n] /\ va2[n] = va[n]
    OBVIOUS
  <2>2. Same(nx[n])
    <3>1. CASE nx[n] = Null
      BY <1>1, <3>1
    <3>2. CASE nx[n] # Null
      <4>1. nx[n] \in A
        BY <3>2 DEF ClosedIn
      <4> QED
        BY <1>2, <1>3, <2>1, <3>2, <4>1
    <3> QED
      BY <3>1, <3>2
  <2>3. KeysIn(ny, ky2, n) = {ky2[n]} \cup KeysIn(ny, ky2, ny[n])
        /\ KeysIn(nx, ky, n) = {ky[n]} \cup KeysIn(nx, ky, nx[n])
    BY <2>1, KeysUnfold DEF KeysAlong
  <2>4. ValueIn(ny, ky2, va2, k, n) = ValueIn(nx, ky, va, k, n)
    <3>1. CASE ky[n] = k
      <4>1. ValueIn(ny, ky2, va2, k, n) = va2[n] /\ ValueIn(nx, ky, va, k, n) = va[n]
        BY <1>0, <1>a, <2>1, <3>1
      <4> QED
        BY <2>1, <4>1
    <3>2. CASE ky[n] # k
      <4>1. ValueIn(ny, ky2, va2, k, n) = ValueIn(ny, ky2, va2, k, ny[n])
            /\ ValueIn(nx, ky, va, k, n) = ValueIn(nx, ky, va, k, nx[n])
        BY <1>0, <1>a, <2>1, <3>2
      <4> QED
        BY <2>1, <2>2, <4>1
    <3> QED
      BY <3>1, <3>2
  <2> QED
    BY <2>1, <2>2, <2>3, <2>4
<1> HIDE DEF Same
<1>4. \A n \in A : (\A m \in A : rank[m] < rank[n] => m \in Good) => n \in Good
  BY <1>3
<1> HIDE DEF Good
<1>5. A \subseteq Good
  BY <1>2, <1>4, ByRank
<1> QED
  BY <1>1, <1>5 DEF Good, Same, WalksAlike

-----------------------------------------------------------------------------
(* What readers will find is among what their keys have held.              *)
LEMMA FoundView ==
  ASSUME NEW k, NEW n
  PROVE  /\ RM!Found(k, n) = ValueIn(next, key, value, k, n)
         /\ RM!Found(k, n)' = ValueIn(next', key', value', k, n)
<1>1. RM!Find(k, n) = FindIn(next, key, k, n) /\ RM!Find(k, n)' = FindIn(next', key', k, n)
  BY DEF RM!Find, FindIn
<1> QED
  BY <1>1 DEF RM!Found, ValueIn

HeadsFound ==
  \A t \in RM!Tables, k \in Keys : t = table_ => RM!Holds(k) = RM!Found(k, buckets[t][RM!Bucket(k, t)])

LEMMA HoldsHead == HeadsFound
<1> SUFFICES ASSUME NEW t \in RM!Tables, NEW k \in Keys, t = table_
             PROVE  RM!Holds(k) = RM!Found(k, buckets[t][RM!Bucket(k, t)])
  BY DEF HeadsFound
<1>1. table_ # RM!NoTable
  BY MapConstants DEF RM!TablesHaveBuckets, RM!Tables, RM!NoTable
<1>2. RM!NodeOf(k) = RM!Find(k, buckets[t][RM!Bucket(k, t)])
  BY DEF RM!NodeOf
<1> QED
  BY <1>1, <1>2 DEF RM!Holds, RM!Found

LEMMA HoldsHeadNext == HeadsFound'
BY HoldsHead, PTL

HoldsTyped == \A k \in Keys : RM!Holds(k) \in Values \cup {Absent}

LEMMA HoldsValues == RM!StructureInv => HoldsTyped
<1> SUFFICES ASSUME RM!StructureInv, NEW k \in Keys PROVE RM!Holds(k) \in Values \cup {Absent}
  BY DEF HoldsTyped
<1>1. HoldsWell
  BY HoldsRead
<1>2. CASE table_ = RM!NoTable
  BY <1>1, <1>2 DEF HoldsWell
<1>3. CASE table_ # RM!NoTable
  <2>1. PICK t \in RM!Tables : t = table_
    BY <1>3 DEF RM!StructureInv, RM!TypeOK
  <2> QED
    BY <1>1, <2>1 DEF HoldsWell
<1> QED
  BY <1>2, <1>3

LEMMA HoldsValuesNext == RM!StructureInv' => HoldsTyped'
BY HoldsValues, PTL

Ranked == \E rank \in [Nodes -> Nat] : Descends(next, rank)

LEMMA RankedAlways == RM!StructureInv => Ranked
BY ChainRanks, MapConstants DEF RM!StructureInv, Constants, Ranked

LEMMA RankedNext == RM!StructureInv' => Ranked'
BY RankedAlways, PTL

(* A step lets the readers walk on, if from wherever they are they will     *)
(* find what they would have found, or what the key holds now.             *)
WalksOn ==
  \A a \in RM!InCriticalSection, k \in Keys :
    /\ \A n \in Nodes : RM!NodeFor(a, n) => RM!Found(k, n)' \in {RM!Found(k, n), RM!Holds(k)'}
    /\ \A t \in RM!Tables, h \in Nodes \cup {Null} :
         RM!TableFor(a, t) /\ h = buckets'[t][RM!Bucket(k, t)] =>
           RM!Found(k, h)' \in {RM!Found(k, buckets[t][RM!Bucket(k, t)]), RM!Holds(k)'}

(* What has been held is what had been, and what is.                       *)
HeldGrows ==
  /\ held' \in [Readers -> SUBSET (Values \cup {Absent})]
  /\ \A a \in Readers, k \in Keys : rkey[a] = k => held'[a] = held[a] \cup {RM!Holds(k)'}
  /\ \A a \in Readers : rkey[a] = None => held'[a] = held[a]

(* HeldInv, for each reader and for the table that readers load.           *)
HeldFor(a) ==
  /\ rpc[a] \in {"idle", "leave"} <=> rkey[a] = None
  /\ rpc[a] = "leave" <=> result[a] # None
  /\ rkey[a] # None => RM!Holds(rkey[a]) \in held[a]
  /\ rpc[a] = "bucket" => RM!Found(rkey[a], buckets[rtable[a]][RM!Bucket(rkey[a], rtable[a])]) \in held[a]
  /\ rpc[a] = "node" => RM!Found(rkey[a], current[a]) \in held[a]

ReadersHold ==
  /\ held \in [Readers -> SUBSET (Values \cup {Absent})]
  /\ result \in [Readers -> Values \cup {Absent, None}]
  /\ \A a \in Readers : HeldFor(a)

VisibleHolds == table_ # RM!NoTable /\ ~RM!Dead(visible) =>
  \A k \in Keys : RM!Found(k, buckets[visible][RM!Bucket(k, visible)]) = RM!Holds(k)

LEMMA HeldParts ==
  /\ RM!HeldInv <=> ReadersHold /\ VisibleHolds
  /\ RM!HeldInv' <=> ReadersHold' /\ VisibleHolds'
<1>1. RM!HeldInv <=> ReadersHold /\ VisibleHolds
  BY DEF RM!HeldInv, ReadersHold, VisibleHolds, HeldFor
<1> QED
  BY <1>1, PTL

LEMMA HeldKept ==
  ASSUME Constants, RM!StructureInv, RM!StructureInv', RM!HeldInv, WalksOn, HeldGrows,
         UNCHANGED <<hash_fn_, rpc, rkey, rtable, current, result>>
  PROVE  ReadersHold'
<1>1. held' \in [Readers -> SUBSET (Values \cup {Absent})] /\ result' \in [Readers -> Values \cup {Absent, None}]
  BY DEF HeldGrows, RM!HeldInv
<1>2. ASSUME NEW a \in Readers
      PROVE  /\ rpc'[a] \in {"idle", "leave"} <=> rkey'[a] = None
             /\ rpc'[a] = "leave" <=> result'[a] # None
  BY DEF RM!HeldInv
<1>3. ASSUME NEW a \in Readers, NEW k \in Keys, rkey[a] = k
      PROVE  held'[a] = held[a] \cup {RM!Holds(k)'} /\ a \in RM!InCriticalSection
  <2>1. rkey[a] # None
    BY <1>3 DEF Constants, RM!ConstantsApart
  <2>2. rpc[a] # "idle"
    BY <2>1 DEF RM!HeldInv
  <2> QED
    BY <1>3, <2>2 DEF HeldGrows, RM!InCriticalSection
<1>4. \A a \in Readers : rkey[a] # None => rkey[a] \in Keys
  BY DEF RM!StructureInv, RM!TypeOK
<1>5. ASSUME NEW a \in Readers, NEW k \in Keys, rkey'[a] = k PROVE RM!Holds(k)' \in held'[a]
  BY <1>3, <1>5
<1>6. ASSUME NEW a \in Readers, NEW k \in Keys, rkey'[a] = k, rpc'[a] = "bucket",
             NEW t \in RM!Tables, t = rtable'[a], NEW h, h = buckets'[t][RM!Bucket(k, t)]
      PROVE  RM!Found(k, h)' \in held'[a]
  <2>1. rkey[a] = k /\ rpc[a] = "bucket" /\ rtable[a] = t /\ a \in RM!InCriticalSection
    BY <1>3, <1>6
  <2>2. RM!TableFor(a, t)
    <3>1. t # RM!NoTable
      BY DEF Constants, RM!TablesHaveBuckets, RM!Tables, RM!NoTable
    <3> QED
      BY <2>1, <3>1 DEF RM!StructureInv, RM!ProtectedInv
  <2>3. h \in Nodes \cup {Null}
    <3>1. RM!Bucket(k, t) \in 0 .. RM!SizeOf(t) - 1
      BY BucketInTable DEF RM!StructureInv
    <3>2. buckets'[t] \in [0 .. RM!SizeOf(t) - 1 -> Nodes \cup {Null}]
      BY DEF RM!StructureInv, RM!TypeOK, RM!SizeOf, RM!Tables
    <3> QED
      BY <1>6, <3>1, <3>2
  <2>4. RM!Found(k, buckets[t][RM!Bucket(k, t)]) \in held[a]
    BY <2>1 DEF RM!HeldInv
  <2>5. RM!Found(k, h)' \in {RM!Found(k, buckets[t][RM!Bucket(k, t)]), RM!Holds(k)'}
    BY <1>6, <2>1, <2>2, <2>3 DEF WalksOn
  <2> QED
    BY <1>3, <2>1, <2>4, <2>5
<1>7. ASSUME NEW a \in Readers, NEW k \in Keys, rkey'[a] = k, rpc'[a] = "node",
             NEW n \in Nodes \cup {Null}, n = current'[a]
      PROVE  RM!Found(k, n)' \in held'[a]
  <2>1. rkey[a] = k /\ rpc[a] = "node" /\ current[a] = n /\ a \in RM!InCriticalSection
    BY <1>3, <1>7
  <2>2. RM!Found(k, n) \in held[a]
    BY <2>1 DEF RM!HeldInv
  <2>3. CASE n = Null
    <3>1. RM!Found(k, Null) = Absent /\ RM!Found(k, Null)' = Absent
      <4>1. PICK rank \in [Nodes -> Nat] : Descends(next, rank)
        BY RankedAlways DEF Ranked
      <4>2. ValueIn(next, key, value, k, Null) = Absent
        <5>1. ValuesAlong(next, key, value, k)
          BY <4>1, ValueUnfolds
        <5> QED
          BY <5>1 DEF ValuesAlong
      <4>3. PICK rank2 \in [Nodes -> Nat] : Descends(next', rank2)
        BY RankedNext DEF Ranked, Descends
      <4>4. ValueIn(next', key', value', k, Null) = Absent
        <5>1. ValuesAlong(next', key', value', k)
          BY <4>3, ValueUnfolds
        <5> QED
          BY <5>1 DEF ValuesAlong
      <4> QED
        BY <4>2, <4>4, FoundView
    <3> QED
      BY <1>3, <2>1, <2>2, <2>3, <3>1
  <2>4. CASE n # Null
    <3>1. n \in Nodes /\ RM!NodeFor(a, n)
      BY <2>1, <2>4 DEF RM!StructureInv, RM!ProtectedInv
    <3>2. RM!Found(k, n)' \in {RM!Found(k, n), RM!Holds(k)'}
      BY <2>1, <3>1 DEF WalksOn
    <3> QED
      BY <1>3, <2>1, <2>2, <3>2
  <2> QED
    BY <2>3, <2>4
<1>8. ASSUME NEW a \in Readers
      PROVE  /\ rpc'[a] \in {"idle", "leave"} <=> rkey'[a] = None
             /\ rpc'[a] = "leave" <=> result'[a] # None
             /\ rkey'[a] # None => RM!Holds(rkey[a])' \in held'[a]
             /\ rpc'[a] = "bucket" => RM!Found(rkey[a], buckets[rtable[a]][RM!Bucket(rkey[a], rtable[a])])' \in held'[a]
             /\ rpc'[a] = "node" => RM!Found(rkey[a], current[a])' \in held'[a]
  <2>1. ASSUME rkey'[a] # None PROVE RM!Holds(rkey[a])' \in held'[a]
    <3>1. PICK k \in Keys : k = rkey'[a]
      BY <1>4, <2>1
    <3>2. RM!Holds(k)' \in held'[a]
      BY <1>5, <3>1
    <3> QED
      BY <3>1, <3>2
  <2>2. ASSUME rpc'[a] = "bucket"
        PROVE  RM!Found(rkey[a], buckets[rtable[a]][RM!Bucket(rkey[a], rtable[a])])' \in held'[a]
    <3>1. rkey'[a] # None
      BY <1>2, <2>2
    <3>2. PICK k \in Keys : k = rkey'[a]
      BY <1>4, <3>1
    <3>3. PICK t \in RM!Tables : t = rtable'[a]
      BY <2>2 DEF RM!StructureInv, RM!ProtectedInv, RM!TypeOK
    <3>4. PICK h : h = buckets'[t][RM!Bucket(k, t)]
      OBVIOUS
    <3>5. RM!Found(k, h)' \in held'[a]
      BY <1>6, <2>2, <3>2, <3>3, <3>4
    <3>6. RM!Bucket(k, t)' = RM!Bucket(k, t)
      BY DEF RM!Bucket, RM!SizeOf
    <3>7. h = buckets'[rtable'[a]][RM!Bucket(rkey[a], rtable[a])']
      BY <3>2, <3>3, <3>4, <3>6
    <3> QED
      BY <3>2, <3>5, <3>7
  <2>3. ASSUME rpc'[a] = "node" PROVE RM!Found(rkey[a], current[a])' \in held'[a]
    <3>1. rkey'[a] # None
      BY <1>2, <2>3
    <3>2. PICK k \in Keys : k = rkey'[a]
      BY <1>4, <3>1
    <3>3. PICK n \in Nodes \cup {Null} : n = current'[a]
      BY DEF RM!StructureInv, RM!TypeOK
    <3>4. RM!Found(k, n)' \in held'[a]
      BY <1>7, <2>3, <3>2, <3>3
    <3> QED
      BY <3>2, <3>3, <3>4
  <2> QED
    BY <1>2, <2>1, <2>2, <2>3
<1> QED
  BY <1>1, <1>8 DEF ReadersHold, HeldFor

-----------------------------------------------------------------------------
(* A chain that avoids one node of a closed set still finds, from inside the *)
(* set, what it found, or what the detour finds.                           *)
WalksShorten(nx, ny, ky, ky2, va, va2, A, k, now) ==
  \A n \in A \cup {Null} : /\ ValueIn(ny, ky2, va2, k, n) \in {ValueIn(nx, ky, va, k, n), now}
                           /\ KeysIn(ny, ky2, n) \subseteq KeysIn(nx, ky, n)

LEMMA Detoured ==
  ASSUME NEW nx, NEW rank, Descends(nx, rank), NEW ny, NEW rank2, Descends(ny, rank2),
         NEW ky, NEW ky2, NEW va, NEW va2, NEW A \in SUBSET Nodes, ClosedIn(nx, A),
         \A n \in A : ky2[n] = ky[n] /\ va2[n] = va[n],
         NEW old \in A, NEW to,
         \A n \in A : ny[n] = nx[n] \/ (nx[n] = old /\ ny[n] = to),
         KeysIn(ny, ky2, to) \subseteq {ky[old]} \cup KeysIn(ny, ky2, nx[old]),
         NEW k, NEW now,
         ky[old] = k => ValueIn(ny, ky2, va2, k, to) = now,
         ky[old] # k => ValueIn(ny, ky2, va2, k, to) = ValueIn(ny, ky2, va2, k, nx[old])
  PROVE  WalksShorten(nx, ny, ky, ky2, va, va2, A, k, now)
<1> DEFINE Finds(n) == ValueIn(ny, ky2, va2, k, n) \in {ValueIn(nx, ky, va, k, n), now}
           Fewer(n) == KeysIn(ny, ky2, n) \subseteq KeysIn(nx, ky, n)
           Good == {n \in A : Finds(n) /\ Fewer(n)}
<1>0. /\ ValueIn(nx, ky, va, k, Null) = Absent
      /\ \A n \in Nodes : ky[n] = k => ValueIn(nx, ky, va, k, n) = va[n]
      /\ \A n \in Nodes : ky[n] # k => ValueIn(nx, ky, va, k, n) = ValueIn(nx, ky, va, k, nx[n])
  <2>1. ValuesAlong(nx, ky, va, k)
    BY ValueUnfolds
  <2> QED
    BY <2>1 DEF ValuesAlong
<1>a. /\ ValueIn(ny, ky2, va2, k, Null) = Absent
      /\ \A n \in Nodes : ky2[n] = k => ValueIn(ny, ky2, va2, k, n) = va2[n]
      /\ \A n \in Nodes : ky2[n] # k => ValueIn(ny, ky2, va2, k, n) = ValueIn(ny, ky2, va2, k, ny[n])
  <2>1. ValuesAlong(ny, ky2, va2, k)
    BY ValueUnfolds
  <2> QED
    BY <2>1 DEF ValuesAlong
<1>b. KeysIn(nx, ky, Null) = {} /\ \A n \in Nodes : KeysIn(nx, ky, n) = {ky[n]} \cup KeysIn(nx, ky, nx[n])
  BY KeysUnfold DEF KeysAlong
<1>c. KeysIn(ny, ky2, Null) = {} /\ \A n \in Nodes : KeysIn(ny, ky2, n) = {ky2[n]} \cup KeysIn(ny, ky2, ny[n])
  BY KeysUnfold DEF KeysAlong
<1>1. Finds(Null) /\ Fewer(Null)
  BY <1>0, <1>a, <1>b, <1>c
<1>2. rank \in [Nodes -> Nat] /\ nx \in [Nodes -> Nodes \cup {Null}] /\ Null \notin Nodes
      /\ \A n \in Nodes : nx[n] # Null => rank[nx[n]] < rank[n]
  BY DEF Descends
<1>3. ASSUME NEW n \in A, \A m \in A : rank[m] < rank[n] => m \in Good PROVE Finds(n) /\ Fewer(n)
  <2>1. n \in Nodes /\ ky2[n] = ky[n] /\ va2[n] = va[n]
    OBVIOUS
  <2>2. \A m \in A : rank[m] < rank[n] => Finds(m) /\ Fewer(m)
    BY <1>3
  <2>3. CASE ny[n] = nx[n]
    <3>1. Finds(nx[n]) /\ Fewer(nx[n])
      <4>1. CASE nx[n] = Null
        BY <1>1, <4>1
      <4>2. CASE nx[n] # Null
        <5>1. nx[n] \in A /\ rank[nx[n]] < rank[n]
          BY <1>2, <2>1, <4>2 DEF ClosedIn
        <5> QED
          BY <2>2, <5>1
      <4> QED
        BY <4>1, <4>2
    <3>2. Fewer(n)
      BY <1>b, <1>c, <2>1, <2>3, <3>1
    <3>3. CASE ky[n] = k
      <4>1. ValueIn(ny, ky2, va2, k, n) = va2[n] /\ ValueIn(nx, ky, va, k, n) = va[n]
        BY <1>0, <1>a, <2>1, <3>3
      <4> QED
        BY <2>1, <3>2, <4>1
    <3>4. CASE ky[n] # k
      <4>1. ValueIn(ny, ky2, va2, k, n) = ValueIn(ny, ky2, va2, k, nx[n])
            /\ ValueIn(nx, ky, va, k, n) = ValueIn(nx, ky, va, k, nx[n])
        BY <1>0, <1>a, <2>1, <2>3, <3>4
      <4> QED
        BY <3>1, <3>2, <4>1
    <3> QED
      BY <3>3, <3>4
  <2>4. CASE nx[n] = old /\ ny[n] = to
    <3>1. old \in Nodes /\ rank[old] < rank[n] /\ nx[old] \in Nodes \cup {Null}
      BY <1>2, <2>1, <2>4
    <3>2. Finds(nx[old]) /\ Fewer(nx[old])
      <4>1. CASE nx[old] = Null
        BY <1>1, <4>1
      <4>2. CASE nx[old] # Null
        <5>1. nx[old] \in A /\ rank[nx[old]] < rank[old]
          BY <1>2, <3>1, <4>2 DEF ClosedIn
        <5>2. rank[nx[old]] \in Nat /\ rank[old] \in Nat /\ rank[n] \in Nat
          BY <1>2, <2>1, <3>1, <5>1
        <5>3. rank[nx[old]] < rank[n]
          BY <3>1, <5>1, <5>2
        <5> QED
          BY <2>2, <5>1, <5>3
      <4> QED
        BY <4>1, <4>2
    <3>3. KeysIn(nx, ky, n) = {ky[n]} \cup ({ky[old]} \cup KeysIn(nx, ky, nx[old]))
      BY <1>b, <2>1, <2>4, <3>1
    <3>4. KeysIn(ny, ky2, n) = {ky[n]} \cup KeysIn(ny, ky2, to)
      BY <1>c, <2>1, <2>4
    <3>5. Fewer(n)
      BY <3>2, <3>3, <3>4
    <3>6. CASE ky[n] = k
      <4>1. ValueIn(ny, ky2, va2, k, n) = va2[n] /\ ValueIn(nx, ky, va, k, n) = va[n]
        BY <1>0, <1>a, <2>1, <3>6
      <4> QED
        BY <2>1, <3>5, <4>1
    <3>7. CASE ky[n] # k
      <4>1. ValueIn(ny, ky2, va2, k, n) = ValueIn(ny, ky2, va2, k, to)
            /\ ValueIn(nx, ky, va, k, n) = ValueIn(nx, ky, va, k, old)
        BY <1>0, <1>a, <2>1, <2>4, <3>7
      <4>2. CASE ky[old] = k
        BY <3>5, <4>1, <4>2
      <4>3. CASE ky[old] # k
        <5>1. ValueIn(nx, ky, va, k, old) = ValueIn(nx, ky, va, k, nx[old])
          BY <1>0, <3>1, <4>3
        <5>2. ValueIn(ny, ky2, va2, k, to) = ValueIn(ny, ky2, va2, k, nx[old])
          BY <4>3
        <5> QED
          BY <3>2, <3>5, <4>1, <5>1, <5>2
      <4> QED
        BY <4>2, <4>3
    <3> QED
      BY <3>6, <3>7
  <2> QED
    BY <2>3, <2>4
<1> HIDE DEF Finds, Fewer
<1>4. \A n \in A : (\A m \in A : rank[m] < rank[n] => m \in Good) => n \in Good
  BY <1>3
<1> HIDE DEF Good
<1>5. A \subseteq Good
  BY <1>2, <1>4, ByRank
<1> QED
  BY <1>1, <1>5 DEF Good, Finds, Fewer, WalksShorten

(* From every node that stays, a walk finds what it found, or what its key  *)
(* holds now, and meets no key that it did not meet.                       *)
Kept == allocated \cap allocated'

WalksShorter ==
  /\ \A n \in Kept \cup {Null}, k \in Keys : RM!Found(k, n)' \in {RM!Found(k, n), RM!Holds(k)'}
  /\ \A n \in Kept \cup {Null} : KeysIn(next', key', n) \subseteq KeysIn(next, key, n)
  /\ \A n \in Kept : key'[n] = key[n] /\ KeysIn(next', key', next'[n]) \subseteq KeysIn(next, key, next[n])

Untouched == \A n \in Kept : next'[n] = next[n] /\ key'[n] = key[n] /\ value'[n] = value[n]

LEMMA NodesLead ==
  ASSUME Constants, RM!StructureInv, RM!StructureInv', table_ # RM!NoTable, table_' # RM!NoTable
  PROVE  /\ \A n \in allocated : n \in Nodes /\ next[n] \in allocated \cup {Null}
         /\ \A n \in allocated' : n \in Nodes /\ next'[n] \in allocated' \cup {Null}
         /\ Kept \in SUBSET Nodes
<1>1. /\ allocated \subseteq Nodes /\ allocated' \subseteq Nodes
      /\ next \in [Nodes -> Nodes \cup {Null}] /\ next' \in [Nodes -> Nodes \cup {Null}]
  BY DEF RM!StructureInv, RM!TypeOK
<1>2. \A n \in Nodes : next[n] # Null => next[n] \in allocated
  BY DEF RM!StructureInv, RM!PlacesInv
<1>3. \A n \in Nodes : next'[n] # Null => next'[n] \in allocated'
  BY DEF RM!StructureInv, RM!PlacesInv, RM!NoTable
<1> QED
  BY <1>1, <1>2, <1>3 DEF Kept

LEMMA UntouchedShortens ==
  ASSUME Constants, RM!StructureInv, RM!StructureInv', table_ # RM!NoTable, table_' # RM!NoTable, Untouched
  PROVE  WalksShorter
<1>1. PICK rank \in [Nodes -> Nat] : Descends(next, rank)
  BY RankedAlways DEF Ranked
<1>2. PICK rank2 \in [Nodes -> Nat] : Descends(next', rank2)
  BY RankedNext DEF Ranked, Descends
<1>3. Kept \in SUBSET Nodes /\ \A n \in Kept : next'[n] = next[n] /\ next[n] \in Kept \cup {Null}
  BY NodesLead DEF Untouched, Kept
<1>4. ClosedIn(next, Kept)
  BY <1>3 DEF ClosedIn
<1>5. \A n \in Kept : next'[n] = next[n] /\ key'[n] = key[n] /\ value'[n] = value[n]
  BY DEF Untouched
<1>6. ASSUME NEW k
      PROVE  \A n \in Kept \cup {Null} :
               /\ ValueIn(next', key', value', k, n) = ValueIn(next, key, value, k, n)
               /\ KeysIn(next', key', n) = KeysIn(next, key, n)
  <2>1. WalksAlike(next, next', key, key', value, value', Kept, k)
    BY <1>1, <1>2, <1>3, <1>4, <1>5, SameWalk
  <2> QED
    BY <2>1 DEF WalksAlike
<1>7. ASSUME NEW n \in Kept \cup {Null}, NEW k PROVE RM!Found(k, n)' = RM!Found(k, n)
  BY <1>6, FoundView
<1>8. \A n \in Kept \cup {Null} : KeysIn(next', key', n) = KeysIn(next, key, n)
  BY <1>6
<1> QED
  BY <1>3, <1>5, <1>7, <1>8 DEF WalksShorter

HeadsKept == \A a \in RM!InCriticalSection, t \in RM!Tables :
  RM!TableFor(a, t) => buckets'[t] = buckets[t] \/ (t = table_ /\ table_' = table_)

NodesKept == \A a \in RM!InCriticalSection, n \in Nodes : RM!NodeFor(a, n) => n \in Kept

LEMMA ShorterWalksOn ==
  ASSUME Constants, RM!StructureInv, RM!StructureInv', UNCHANGED hash_fn_, WalksShorter, HeadsKept, NodesKept
  PROVE  WalksOn
<1>1. ASSUME NEW a \in RM!InCriticalSection, NEW k \in Keys, NEW n \in Nodes, RM!NodeFor(a, n)
      PROVE  RM!Found(k, n)' \in {RM!Found(k, n), RM!Holds(k)'}
  BY <1>1 DEF WalksShorter, NodesKept
<1>2. ASSUME NEW a \in RM!InCriticalSection, NEW k \in Keys, NEW t \in RM!Tables, NEW h \in Nodes \cup {Null},
             RM!TableFor(a, t), h = buckets'[t][RM!Bucket(k, t)]
      PROVE  RM!Found(k, h)' \in {RM!Found(k, buckets[t][RM!Bucket(k, t)]), RM!Holds(k)'}
  <2>1. RM!Bucket(k, t)' = RM!Bucket(k, t) /\ RM!Tables' = RM!Tables
    BY DEF RM!Bucket, RM!SizeOf, RM!Tables
  <2>2. CASE buckets'[t] = buckets[t]
    <3>1. h = buckets[t][RM!Bucket(k, t)]
      BY <1>2, <2>2
    <3>2. h \in Kept \cup {Null}
      <4>1. h # Null => h \in RM!NodesOf(t)
        BY <3>1, TableNodes, BucketInTable DEF RM!StructureInv
      <4>2. h # Null => RM!NodeFor(a, h)
        BY <1>2, <4>1 DEF RM!NodeFor
      <4> QED
        BY <4>2 DEF NodesKept
    <3> QED
      BY <3>1, <3>2 DEF WalksShorter
  <2>3. CASE t = table_ /\ table_' = table_
    <3>1. RM!Holds(k)' = RM!Found(k, buckets[t][RM!Bucket(k, t)])'
      BY <2>1, <2>3, HoldsHeadNext DEF HeadsFound
    <3>2. h = buckets'[t][RM!Bucket(k, t)']
      BY <1>2, <2>1
    <3> QED
      BY <3>1, <3>2
  <2> QED
    BY <1>2, <2>2, <2>3 DEF HeadsKept
<1> QED
  BY <1>1, <1>2 DEF WalksOn

LEMMA ProtectedAllocated ==
  ASSUME Constants, RM!StructureInv, NEW a, NEW n \in Nodes, RM!NodeFor(a, n)
  PROVE  n \in allocated
<1>1. \A m \in Nodes :
        m \in allocated <=> RM!RetiredNode(m) \/ m = unlinked \/ \E t \in RM!Tables : m \in RM!NodesOf(t)
  BY DEF RM!StructureInv, RM!PlacesInv
<1> QED
  BY <1>1 DEF RM!NodeFor, RM!RetiredNode

(* What a step allocates is in a table after it.                           *)
NewInTables == \A n \in allocated' \ allocated : \E t \in RM!Tables : n \in RM!NodesOf(t)'

WalksKept == WalksShorter /\ NodesKept /\ WalksOn /\ NewInTables

LEMMA QuietWalks ==
  ASSUME Constants, RM!StructureInv, RM!StructureInv', UNCHANGED hash_fn_, table_ # RM!NoTable,
         UNCHANGED <<table_, buckets, key, value, next, allocated>>
  PROVE  WalksKept
<1>1. Untouched /\ NewInTables
  BY DEF Untouched, NewInTables
<1>2. WalksShorter
  BY <1>1, UntouchedShortens DEF RM!NoTable
<1>3. HeadsKept
  BY DEF HeadsKept
<1>4. NodesKept
  BY ProtectedAllocated DEF NodesKept, Kept
<1> QED
  BY <1>1, <1>2, <1>3, <1>4, ShorterWalksOn DEF WalksKept

LEMMA InsertWalks ==
  ASSUME Constants, RM!StructureInv, RM!StructureInv', UNCHANGED hash_fn_,
         NEW k \in Keys, NEW v \in Values, RM!Insert(k, v)
  PROVE  WalksKept
<1> DEFINE new == RM!Fresh
           b == RM!Bucket(k, table_)
<1>1. Splice(k, {}, {new})
  BY InsertSplices
<1>2. /\ allocated' = allocated \cup {new} /\ new \in Nodes \ allocated
      /\ table_ \in RM!Tables /\ table_' = table_
      /\ \A n \in Nodes \ {new} : key'[n] = key[n] /\ value'[n] = value[n]
  BY <1>1 DEF Splice
<1>3. table_ # RM!NoTable /\ table_' # RM!NoTable
  BY <1>2 DEF Constants, RM!TablesHaveBuckets, RM!Tables, RM!NoTable
<1>4. next' = [next EXCEPT ![new] = buckets[table_][b]]
      /\ buckets' = [buckets EXCEPT ![table_][b] = new]
  BY DEF RM!Insert
<1> HIDE DEF new, b
<1>5. Kept = allocated /\ allocated \subseteq Nodes
  BY <1>2 DEF Kept, RM!StructureInv, RM!TypeOK
<1>6. Untouched
  BY <1>2, <1>4, <1>5 DEF Untouched, RM!StructureInv, RM!TypeOK
<1>7. HeadsKept
  <2>1. \A t \in RM!Tables : t # table_ => buckets'[t] = buckets[t]
    BY <1>2, <1>4 DEF RM!StructureInv, RM!TypeOK
  <2> QED
    BY <1>2, <2>1 DEF HeadsKept
<1>8. NodesKept
  BY <1>5, ProtectedAllocated DEF NodesKept
<1>9. NewInTables
  <2>1. \A t \in RM!Tables : t = table_ => RM!NodesOf(t)' = (RM!NodesOf(t) \ {}) \cup {new}
    BY <1>1, SpliceChains
  <2> QED
    BY <1>2, <2>1 DEF NewInTables
<1> QED
  BY <1>3, <1>6, <1>7, <1>8, <1>9, UntouchedShortens, ShorterWalksOn DEF WalksKept

LEMMA ResizeWalks ==
  ASSUME Constants, RM!StructureInv, RM!StructureInv', UNCHANGED hash_fn_,
         NEW k \in Keys, NEW v \in Values, RM!Resize(k, v)
  PROVE  WalksKept
<1>1. PICK N, olds, copy : Copying(N, olds, copy)
  BY ResizeCopies
<1> DEFINE to == table_ + 1
           Copies == {copy[j] : j \in 1 .. N}
<1>2. /\ allocated' = allocated \cup Copies /\ Copies \subseteq Nodes \ allocated
      /\ table_ \in RM!Tables /\ to \in RM!Tables /\ table_' = to /\ wpc = "idle" /\ table_ < to
      /\ \A n \in Nodes \ Copies : key'[n] = key[n] /\ value'[n] = value[n] /\ next'[n] = next[n]
  BY <1>1 DEF Copying
<1>3. /\ \A t \in RM!Tables \ {to} : buckets'[t] = buckets[t]
      /\ \A t \in RM!Tables : t = to => RM!NodesOf(t)' = Copies
  BY <1>1, CopyingChains
<1> HIDE DEF Copies
<1>4. table_ # RM!NoTable /\ table_' # RM!NoTable /\ table_ \in Int
  BY <1>2 DEF Constants, RM!TablesHaveBuckets, RM!Tables, RM!NoTable
<1>5. Kept = allocated /\ allocated \subseteq Nodes
  BY <1>2 DEF Kept, RM!StructureInv, RM!TypeOK
<1>6. Untouched
  BY <1>2, <1>5 DEF Untouched
<1>7. ASSUME NEW a, NEW t \in RM!Tables, RM!TableFor(a, t) PROVE t # to
  <2> SUFFICES ASSUME t = to PROVE FALSE
    OBVIOUS
  <2>1. ~RM!Stands(t)
    BY <1>2, <1>4 DEF RM!Stands
  <2>2. PICK x \in retired : x[1] = t
    BY <1>7, <2>1 DEF RM!TableFor
  <2>3. x[1] < table_
    BY <1>4, <2>2 DEF RM!StructureInv, RM!WriterInv
  <2> QED
    BY <1>4, <2>2, <2>3
<1>8. HeadsKept
  BY <1>3, <1>7 DEF HeadsKept
<1>9. NodesKept
  BY <1>5, ProtectedAllocated DEF NodesKept
<1>10. NewInTables
  BY <1>2, <1>3 DEF NewInTables
<1> QED
  BY <1>4, <1>6, <1>8, <1>9, <1>10, UntouchedShortens, ShorterWalksOn DEF WalksKept

LEMMA GcWalks ==
  ASSUME Constants, RM!StructureInv, RM!StructureInv', UNCHANGED hash_fn_, table_ # RM!NoTable, RM!Gc
  PROVE  WalksKept
<1> DEFINE past == {x \in retired : x[2] = {}}
           objects == {x[1] : x \in past}
           dead == Doomed(objects)
<1>1. RM!Delete(objects) /\ table_' = table_
  BY DEF RM!Gc
<1>2. /\ key' = [n \in Nodes |-> IF n \in dead THEN None ELSE key[n]]
      /\ value' = [n \in Nodes |-> IF n \in dead THEN None ELSE value[n]]
      /\ next' = [n \in Nodes |-> IF n \in dead THEN Null ELSE next[n]]
      /\ buckets' = [t \in RM!Tables |-> IF t \in objects \cap RM!Tables THEN [j \in DOMAIN buckets[t] |-> Null]
                                         ELSE buckets[t]]
      /\ allocated' = allocated \ dead
  BY <1>1 DEF RM!Delete, Doomed
<1>3. ASSUME NEW a \in RM!InCriticalSection, NEW t \in RM!Tables, RM!TableFor(a, t) PROVE t \notin objects
  <2> SUFFICES ASSUME NEW x \in retired, x[2] = {}, x[1] = t PROVE FALSE
    OBVIOUS
  <2>1. ~RM!Stands(t)
    BY DEF RM!StructureInv, RM!WriterInv
  <2>2. PICK y \in retired : y[1] = t /\ a \in y[2]
    BY <1>3, <2>1 DEF RM!TableFor
  <2>3. x = y
    BY <2>2 DEF RM!StructureInv, RM!PlacesInv
  <2> QED
    BY <2>2, <2>3
<1>4. ProtectionGrows
  BY GcKeeps
<1> HIDE DEF objects, dead
<1>5. \A n \in Kept : n \in Nodes /\ n \notin dead
  BY <1>2 DEF Kept, RM!StructureInv, RM!TypeOK
<1>6. Untouched
  BY <1>2, <1>5 DEF Untouched
<1>7. HeadsKept
  BY <1>2, <1>3 DEF HeadsKept
<1>8. NodesKept
  <2> SUFFICES ASSUME NEW a \in RM!InCriticalSection, NEW n \in Nodes, RM!NodeFor(a, n) PROVE n \in Kept
    BY DEF NodesKept
  <2>1. RM!NodeFor(a, n)'
    BY <1>4 DEF ProtectionGrows
  <2>2. n \in allocated
    BY ProtectedAllocated
  <2>3. \A m \in Nodes : m \in allocated' <=> RM!RetiredNode(m)' \/ m = unlinked'
                                              \/ \E t \in RM!Tables : m \in RM!NodesOf(t)'
    BY DEF RM!StructureInv, RM!PlacesInv, RM!Tables
  <2>4. n \in allocated'
    BY <2>1, <2>3 DEF RM!NodeFor, RM!RetiredNode, RM!Tables
  <2> QED
    BY <2>2, <2>4 DEF Kept
<1>9. NewInTables
  BY <1>2 DEF NewInTables
<1> QED
  BY <1>1, <1>6, <1>7, <1>8, <1>9, UntouchedShortens, ShorterWalksOn DEF WalksKept, RM!NoTable

(* Replace and Remove lead around one node of the table.                   *)
DetourTo(old, to, k) ==
  /\ k \in Keys /\ table_ \in RM!Tables /\ table_' = table_
  /\ allocated \subseteq allocated' /\ old \in allocated /\ key[old] = k
  /\ \A n \in allocated : key'[n] = key[n] /\ value'[n] = value[n]
  /\ \A n \in allocated : next'[n] = next[n] \/ (next[n] = old /\ next'[n] = to)
  /\ \A t \in RM!Tables : t # table_ => buckets'[t] = buckets[t]
  /\ ValueIn(next', key', value', k, to) = RM!Holds(k)'
  /\ \A l \in Keys \ {k} : ValueIn(next', key', value', l, to) = ValueIn(next', key', value', l, next[old])
  /\ KeysIn(next', key', to) \subseteq {k} \cup KeysIn(next', key', next[old])

LEMMA DetourWalks ==
  ASSUME Constants, RM!StructureInv, RM!StructureInv', UNCHANGED hash_fn_,
         NEW k, NEW old, NEW to, DetourTo(old, to, k), NewInTables
  PROVE  WalksKept
<1>1. PICK rank \in [Nodes -> Nat] : Descends(next, rank)
  BY RankedAlways DEF Ranked
<1>2. PICK rank2 \in [Nodes -> Nat] : Descends(next', rank2)
  BY RankedNext DEF Ranked, Descends
<1>3. table_ # RM!NoTable /\ table_' # RM!NoTable
  BY DEF Constants, RM!TablesHaveBuckets, RM!Tables, RM!NoTable, DetourTo
<1>4. /\ Kept = allocated /\ allocated \in SUBSET Nodes
      /\ \A n \in allocated : next[n] \in allocated \cup {Null}
  BY <1>3, NodesLead DEF Kept, DetourTo
<1>5. ClosedIn(next, allocated)
  BY <1>4 DEF ClosedIn
<1>6. /\ old \in allocated /\ key[old] = k
      /\ \A n \in allocated : key'[n] = key[n] /\ value'[n] = value[n]
      /\ \A n \in allocated : next'[n] = next[n] \/ (next[n] = old /\ next'[n] = to)
      /\ ValueIn(next', key', value', k, to) = RM!Holds(k)'
      /\ \A l \in Keys \ {k} : ValueIn(next', key', value', l, to) = ValueIn(next', key', value', l, next[old])
      /\ KeysIn(next', key', to) \subseteq {k} \cup KeysIn(next', key', next[old])
  BY DEF DetourTo
<1>7. ASSUME NEW l \in Keys, NEW now, now = RM!Holds(l)'
      PROVE  WalksShorten(next, next', key, key', value, value', allocated, l, now)
  <2>1. key[old] = l => ValueIn(next', key', value', l, to) = now
    BY <1>6, <1>7
  <2>2. key[old] # l => ValueIn(next', key', value', l, to) = ValueIn(next', key', value', l, next[old])
    BY <1>6
  <2>3. KeysIn(next', key', to) \subseteq {key[old]} \cup KeysIn(next', key', next[old])
    BY <1>6
  <2>4. /\ \A n \in allocated : key'[n] = key[n] /\ value'[n] = value[n]
        /\ \A n \in allocated : next'[n] = next[n] \/ (next[n] = old /\ next'[n] = to)
        /\ old \in allocated /\ allocated \in SUBSET Nodes
    BY <1>4, <1>6
  <2> QED
    BY <1>1, <1>2, <1>5, <2>1, <2>2, <2>3, <2>4, Detoured
<1>8. ASSUME NEW l \in Keys, NEW n \in allocated \cup {Null}
      PROVE  /\ RM!Found(l, n)' \in {RM!Found(l, n), RM!Holds(l)'}
             /\ KeysIn(next', key', n) \subseteq KeysIn(next, key, n)
  <2>1. PICK now : now = RM!Holds(l)'
    OBVIOUS
  <2>2. WalksShorten(next, next', key, key', value, value', allocated, l, now)
    BY <1>7, <2>1
  <2>3. /\ ValueIn(next', key', value', l, n) \in {ValueIn(next, key, value, l, n), now}
        /\ KeysIn(next', key', n) \subseteq KeysIn(next, key, n)
    BY <2>2 DEF WalksShorten
  <2> QED
    BY <2>1, <2>3, FoundView
<1>9. \A n \in allocated \cup {Null} : KeysIn(next', key', n) \subseteq KeysIn(next, key, n)
  <2>1. k \in Keys
    BY DEF DetourTo
  <2> QED
    BY <1>8, <2>1
<1>10. ASSUME NEW n \in allocated PROVE KeysIn(next', key', next'[n]) \subseteq KeysIn(next, key, next[n])
  <2>1. next[n] \in allocated \cup {Null} /\ next[old] \in allocated \cup {Null}
    BY <1>4, <1>6
  <2>2. CASE next'[n] = next[n]
    BY <1>9, <2>1, <2>2
  <2>3. CASE next[n] = old /\ next'[n] = to
    <3>1. KeysIn(next', key', next[old]) \subseteq KeysIn(next, key, next[old])
      BY <1>9, <2>1
    <3>2. KeysIn(next, key, old) = {k} \cup KeysIn(next, key, next[old])
      <4>1. KeysAlong(next, key)
        BY <1>1, KeysUnfold
      <4> QED
        BY <1>4, <1>6, <4>1 DEF KeysAlong
    <3> QED
      BY <1>6, <2>3, <3>1, <3>2
  <2> QED
    BY <1>6, <2>2, <2>3
<1>11. WalksShorter
  BY <1>4, <1>6, <1>8, <1>9, <1>10 DEF WalksShorter
<1>12. HeadsKept
  BY DEF HeadsKept, DetourTo
<1>13. NodesKept
  BY <1>4, ProtectedAllocated DEF NodesKept
<1> QED
  BY <1>11, <1>12, <1>13, ShorterWalksOn DEF WalksKept

LEMMA ReplaceWalks ==
  ASSUME Constants, RM!StructureInv, RM!StructureInv', UNCHANGED hash_fn_,
         NEW k \in Keys, NEW v \in Values, RM!Replace(k, v)
  PROVE  WalksKept
<1> DEFINE old == RM!NodeOf(k)
           new == RM!Fresh
           b == RM!Bucket(k, table_)
           first == buckets[table_][b]
           B == BeforeIn(next, first, old)
           links == [next EXCEPT ![new] = next[old]]
<1>1. Splice(k, {old}, {new})
  BY ReplaceSplices
<1>2. /\ table_ \in RM!Tables /\ table_' = table_
      /\ allocated' = allocated \cup {new} /\ new \in Nodes /\ new \notin allocated
      /\ \A n \in Nodes \ {new} : key'[n] = key[n] /\ value'[n] = value[n]
      /\ key'[new] = k
      /\ \A t \in RM!Tables : \A j \in DOMAIN buckets[t] : t # table_ \/ j # b => buckets'[t][j] = buckets[t][j]
  BY <1>1 DEF Splice
<1>3. RM!Relink(old, new, links) /\ old # Null /\ value' = [value EXCEPT ![new] = v]
  BY DEF RM!Replace, RM!Allocate
<1>4. old \in allocated /\ key[old] = k
  BY <1>2, <1>3, FoundNode
<1> HIDE DEF old, new, b, links
<1>5. next' = [m \in Nodes |-> IF m \in B THEN new ELSE links[m]]
      /\ buckets' = IF B # {} THEN buckets ELSE [buckets EXCEPT ![table_][b] = new]
  <2>1. b = RM!Bucket(k, table_)
    BY DEF b
  <2> QED
    BY <1>3, <1>4, <2>1, Relinked
<1>6. \A m \in B : next[m] = old
  BY DEF BeforeIn
<1> HIDE DEF first
<1>7. /\ allocated \subseteq Nodes /\ old \in Nodes
      /\ key \in [Nodes -> Keys \cup {None}] /\ value \in [Nodes -> Values \cup {None}]
      /\ next \in [Nodes -> Nodes \cup {Null}] /\ DOMAIN buckets = RM!Tables
  BY <1>4 DEF RM!StructureInv, RM!TypeOK
<1>8. \A m \in Nodes : next[m] # new
  BY <1>2, FreeIsUnlinked
<1>9. new \notin B /\ old # new
  <2>1. ASSUME new \in B PROVE FALSE
    <3>1. next[new] = old /\ next[new] = Null
      BY <1>2, <1>6, <2>1, FreeIsUnlinked
    <3> QED
      BY <1>3, <3>1
  <2> QED
    BY <1>2, <1>4, <2>1
<1> HIDE DEF B
<1>10. /\ \A n \in allocated : next'[n] = next[n] \/ (next[n] = old /\ next'[n] = new)
       /\ next'[new] = next[old]
  BY <1>2, <1>5, <1>6, <1>7, <1>9 DEF links
<1>11. value'[new] = v
  BY <1>2, <1>3, <1>7
<1>12. \A t \in RM!Tables : t # table_ => buckets'[t] = buckets[t]
  BY <1>5, <1>7
<1>13. PICK rank2 \in [Nodes -> Nat] : Descends(next', rank2)
  BY RankedNext DEF Ranked, Descends
<1>14. ValueIn(next', key', value', k, new) = RM!Holds(k)'
  <2>1. ValuesAlong(next', key', value', k)
    BY <1>13, ValueUnfolds
  <2>2. ValueIn(next', key', value', k, new) = v
    BY <1>2, <1>11, <2>1 DEF ValuesAlong
  <2> QED
    BY <2>2, PutMaps
<1>15. ASSUME NEW l \in Keys \ {k}
       PROVE  ValueIn(next', key', value', l, new) = ValueIn(next', key', value', l, next[old])
  <2>1. ValuesAlong(next', key', value', l)
    BY <1>13, ValueUnfolds
  <2> QED
    BY <1>2, <1>10, <2>1 DEF ValuesAlong
<1>16. KeysIn(next', key', new) \subseteq {k} \cup KeysIn(next', key', next[old])
  <2>1. KeysAlong(next', key')
    BY <1>13, KeysUnfold
  <2> QED
    BY <1>2, <1>10, <2>1 DEF KeysAlong
<1>17. \A n \in allocated : key'[n] = key[n] /\ value'[n] = value[n]
  BY <1>2, <1>7
<1>18. DetourTo(old, new, k)
  BY <1>2, <1>4, <1>10, <1>12, <1>14, <1>15, <1>16, <1>17 DEF DetourTo
<1>19. NewInTables
  <2>1. \A t \in RM!Tables : t = table_ => RM!NodesOf(t)' = (RM!NodesOf(t) \ {old}) \cup {new}
    BY <1>1, SpliceChains DEF old, new
  <2> QED
    BY <1>2, <2>1 DEF NewInTables
<1> QED
  BY <1>18, <1>19, DetourWalks

LEMMA RemoveWalks ==
  ASSUME Constants, RM!StructureInv, RM!StructureInv', UNCHANGED hash_fn_, NEW k \in Keys, RM!Remove(k)
  PROVE  WalksKept
<1> DEFINE old == RM!NodeOf(k)
           b == RM!Bucket(k, table_)
           first == buckets[table_][b]
           chain == ReachIn(next, first)
           B == BeforeIn(next, first, old)
<1>1. Splice(k, {old}, {})
  BY RemoveSplices
<1>2. /\ table_ \in RM!Tables /\ table_' = table_ /\ allocated' = allocated \cup {}
      /\ \A n \in chain \ {old} : key[n] # k
      /\ ReachIn(next', buckets'[table_][b]) = chain \ {old}
      /\ buckets'[table_] \in [0 .. RM!SizeOf(table_) - 1 -> Nodes \cup {Null}]
  BY <1>1 DEF Splice
<1>3. RM!Relink(old, next[old], next) /\ old # Null /\ UNCHANGED <<key, value>>
  BY DEF RM!Remove
<1>4. old \in allocated /\ key[old] = k /\ old \in chain /\ chain \in SUBSET Nodes
      /\ b \in 0 .. RM!SizeOf(table_) - 1 /\ first \in Nodes
  <2>1. old \in allocated /\ key[old] = k /\ old \in chain /\ chain \in SUBSET Nodes
        /\ first \in Nodes \cup {Null} /\ (first = Null => chain = {})
    BY <1>2, <1>3, FoundNode
  <2>2. b \in 0 .. RM!SizeOf(table_) - 1
    BY <1>2, BucketInTable DEF RM!StructureInv
  <2> QED
    BY <2>1, <2>2
<1> HIDE DEF old, b
<1>5. next' = [m \in Nodes |-> IF m \in B THEN next[old] ELSE next[m]]
      /\ buckets' = IF B # {} THEN buckets ELSE [buckets EXCEPT ![table_][b] = next[old]]
  <2>1. b = RM!Bucket(k, table_)
    BY DEF b
  <2> QED
    BY <1>3, <1>4, <2>1, Relinked
<1>6. \A m \in B : next[m] = old
  BY DEF BeforeIn
<1>7. /\ allocated \subseteq Nodes /\ old \in Nodes
      /\ next \in [Nodes -> Nodes \cup {Null}] /\ DOMAIN buckets = RM!Tables
  BY <1>4 DEF RM!StructureInv, RM!TypeOK
<1> HIDE DEF B
<1>8. \A n \in allocated : next'[n] = next[n] \/ (next[n] = old /\ next'[n] = next[old])
  BY <1>5, <1>6, <1>7
<1>9. \A t \in RM!Tables : t # table_ => buckets'[t] = buckets[t]
  BY <1>5, <1>7
<1>10. PICK rank \in [Nodes -> Nat] : Descends(next, rank)
  BY RankedAlways DEF Ranked
<1>11. PICK rank2 \in [Nodes -> Nat] : Descends(next', rank2)
  BY RankedNext DEF Ranked, Descends
<1>12. next[old] # Null => next[old] \in chain \ {old}
  <2> SUFFICES ASSUME next[old] # Null PROVE next[old] \in chain \ {old}
    OBVIOUS
  <2>1. ClosedIn(next, chain)
    BY <1>4, <1>10, ReachClosed
  <2>2. rank[next[old]] < rank[old] /\ rank[old] \in Nat
    BY <1>7, <1>10 DEF Descends
  <2>3. next[old] # old
    BY <2>2
  <2> QED
    BY <1>4, <2>1, <2>3 DEF ClosedIn
<1>13. k \notin KeysIn(next', key', next[old])
  <2>1. CASE next[old] = Null
    <3>1. KeysAlong(next', key')
      BY <1>11, KeysUnfold
    <3> QED
      BY <2>1, <3>1 DEF KeysAlong
  <2>2. CASE next[old] # Null
    <3> DEFINE head == buckets'[table_][b]
    <3>1. head \in Nodes \cup {Null}
      BY <1>2, <1>4
    <3> HIDE DEF head, chain
    <3>2. next[old] \in ReachIn(next', head) /\ ReachIn(next', head) = chain \ {old}
      BY <1>2, <1>12, <2>2 DEF head
    <3>3. head \in Nodes
      BY <1>11, <3>1, <3>2, ReachUnfolds DEF Descends
    <3>4. ReachIn(next', next[old]) \subseteq chain \ {old}
      BY <1>11, <3>2, <3>3, ReachDown
    <3> QED
      BY <1>2, <1>3, <3>4 DEF KeysIn
  <2> QED
    BY <2>1, <2>2
<1>14. ValueIn(next', key', value', k, next[old]) = RM!Holds(k)'
  <2>1. ValueIn(next', key', value', k, next[old]) = Absent
    BY <1>7, <1>11, <1>13, NotFound
  <2> QED
    BY <2>1, RemoveMaps
<1>15. DetourTo(old, next[old], k)
  BY <1>2, <1>3, <1>4, <1>8, <1>9, <1>14 DEF DetourTo
<1>16. NewInTables
  BY <1>2 DEF NewInTables
<1> QED
  BY <1>15, <1>16, DetourWalks

-----------------------------------------------------------------------------
(* The writer's steps keep what readers will find among what has been held. *)
WriterStep ==
  \/ \E k \in Keys : RM!Remove(k) \/ \E v \in Values : RM!Put(k, v)
  \/ RM!Count \/ RM!Uncount
  \/ RM!Gc

LEMMA WriterWalks ==
  ASSUME Constants, RM!StructureInv, RM!StructureInv', UNCHANGED hash_fn_, table_ # RM!NoTable, WriterStep
  PROVE  WalksKept
<1>1. ASSUME NEW k \in Keys, RM!Remove(k) PROVE WalksKept
  BY <1>1, RemoveWalks
<1>2. ASSUME NEW k \in Keys, NEW v \in Values, RM!Put(k, v) PROVE WalksKept
  BY <1>2, ResizeWalks, InsertWalks, ReplaceWalks DEF RM!Put
<1>3. CASE RM!Count \/ RM!Uncount
  <2>1. UNCHANGED <<table_, buckets, key, value, next, allocated>>
    BY <1>3 DEF RM!Count, RM!Uncount, RM!nodes
  <2> QED
    BY <2>1, QuietWalks
<1>4. CASE RM!Gc
  BY <1>4, GcWalks
<1> QED
  BY <1>1, <1>2, <1>3, <1>4 DEF WriterStep

LEMMA RecordGrows ==
  ASSUME Constants, RM!StructureInv, RM!StructureInv', RM!HeldInv, RM!Record, UNCHANGED <<rpc, rkey>>
  PROVE  HeldGrows
<1>1. \A k \in Keys : RM!Holds(k)' \in Values \cup {Absent}
  BY HoldsValuesNext DEF HoldsTyped
<1>2. /\ held \in [Readers -> SUBSET (Values \cup {Absent})]
      /\ rkey \in [Readers -> Keys \cup {None}] /\ None \notin Keys
      /\ rpc \in [Readers -> {"idle", "table", "bucket", "node", "leave"}]
      /\ \A a \in Readers : rpc[a] \in {"idle", "leave"} <=> rkey[a] = None
  BY DEF RM!HeldInv, RM!StructureInv, RM!TypeOK, Constants, RM!ConstantsApart
<1>3. held' = [a \in Readers |->
        IF rpc[a] \in {"table", "bucket", "node"} THEN held[a] \cup {RM!Holds(rkey[a])'} ELSE held[a]]
  BY DEF RM!Record
<1>4. ASSUME NEW a \in Readers, NEW k \in Keys, rkey[a] = k PROVE held'[a] = held[a] \cup {RM!Holds(k)'}
  <2>1. rpc[a] \in {"table", "bucket", "node"}
    BY <1>2, <1>4
  <2>2. rkey'[a] = k
    BY <1>4
  <2>3. RM!Holds(rkey[a])' = RM!Holds(k)'
    BY <2>2
  <2> QED
    BY <1>3, <2>1, <2>3
<1>5. ASSUME NEW a \in Readers, rkey[a] = None PROVE held'[a] = held[a]
  <2>1. rpc[a] \notin {"table", "bucket", "node"}
    BY <1>2, <1>5
  <2> QED
    BY <1>3, <2>1
<1>6. ASSUME NEW a \in Readers PROVE held'[a] \in SUBSET (Values \cup {Absent})
  <2>1. CASE rkey[a] = None
    BY <1>2, <1>5, <2>1
  <2>2. CASE rkey[a] # None
    <3>1. PICK k \in Keys : rkey[a] = k
      BY <1>2, <2>2
    <3>2. held'[a] = held[a] \cup {RM!Holds(k)'} /\ RM!Holds(k)' \in Values \cup {Absent}
      BY <1>1, <1>4, <3>1
    <3> QED
      BY <1>2, <3>2
  <2> QED
    BY <2>1, <2>2
<1>7. held' \in [Readers -> SUBSET (Values \cup {Absent})]
  <2>1. DOMAIN held' = Readers /\ held' = [a \in DOMAIN held' |-> held'[a]]
    BY <1>3
  <2> QED
    BY <1>6, <2>1
<1> QED
  BY <1>4, <1>5, <1>7 DEF HeldGrows

LEMMA SameGrows ==
  ASSUME RM!HeldInv, UNCHANGED held, \A k \in Keys : RM!Holds(k)' = RM!Holds(k), Constants
  PROVE  HeldGrows
<1>1. ASSUME NEW a \in Readers, NEW k \in Keys, rkey[a] = k PROVE RM!Holds(k)' \in held[a]
  <2>1. rkey[a] # None
    BY <1>1 DEF Constants, RM!ConstantsApart
  <2>2. RM!Holds(rkey[a]) \in held[a]
    BY <2>1 DEF RM!HeldInv
  <2> QED
    BY <1>1, <2>2
<1> QED
  BY <1>1 DEF HeldGrows, RM!HeldInv

LEMMA WriterGrows ==
  ASSUME Constants, RM!StructureInv, RM!StructureInv', RM!HeldInv, UNCHANGED hash_fn_,
         WriterStep \/ RM!Destroy
  PROVE  UNCHANGED <<rpc, rkey, rtable, current, result>> /\ HeldGrows
<1>1. UNCHANGED <<rpc, rkey, rtable, current, result>>
  BY DEF WriterStep, RM!Remove, RM!Put, RM!Resize, RM!Replace, RM!Insert,
     RM!Count, RM!Uncount, RM!Gc, RM!Destroy, RM!readers
<1>2. HeldGrows
  <2>1. ASSUME NEW k \in Keys, RM!Remove(k) PROVE RM!Record
    BY <2>1 DEF RM!Remove
  <2>2. ASSUME NEW k \in Keys, NEW v \in Values, RM!Put(k, v) PROVE RM!Record
    BY <2>2 DEF RM!Put, RM!Resize, RM!Replace, RM!Insert
  <2>3. CASE RM!Count \/ RM!Uncount
    <3>1. UNCHANGED <<table_, buckets, key, value, next, held>>
      BY <2>3 DEF RM!Count, RM!Uncount, RM!nodes
    <3> QED
      BY <3>1, QuietMaps, SameGrows
  <2>4. CASE RM!Gc
    <3>1. UNCHANGED held
      BY <2>4 DEF RM!Gc
    <3> QED
      BY <2>4, <3>1, GcMaps, SameGrows
  <2>5. CASE RM!Destroy
    <3>1. RM!InCriticalSection = {} /\ held' = held
      BY <2>5 DEF RM!Destroy
    <3>2. ASSUME NEW a \in Readers PROVE rkey[a] = None
      <4>1. rpc[a] = "idle"
        BY <3>1 DEF RM!InCriticalSection
      <4> QED
        BY <4>1 DEF RM!HeldInv
    <3> QED
      BY <3>1, <3>2 DEF HeldGrows, RM!HeldInv, Constants, RM!ConstantsApart
  <2> QED
    BY <1>1, <2>1, <2>2, <2>3, <2>4, <2>5, RecordGrows DEF WriterStep
<1> QED
  BY <1>1, <1>2

LEMMA WriterHolds ==
  ASSUME Constants, RM!StructureInv, RM!StructureInv', RM!HeldInv, UNCHANGED hash_fn_,
         WriterStep \/ RM!Destroy
  PROVE  ReadersHold'
<1>1. UNCHANGED <<rpc, rkey, rtable, current, result>> /\ HeldGrows
  BY WriterGrows
<1>2. WalksOn
  <2>1. CASE RM!InCriticalSection = {}
    BY <2>1 DEF WalksOn
  <2>2. CASE RM!InCriticalSection # {}
    <3>1. table_ # RM!NoTable
      BY <2>2 DEF RM!StructureInv, RM!WriterInv
    <3>2. WriterStep
      BY <2>2 DEF RM!Destroy
    <3> QED
      BY <3>1, <3>2, WriterWalks DEF WalksKept
  <2> QED
    BY <2>1, <2>2
<1> QED
  BY <1>1, <1>2, HeldKept

(* The steps that leave the map as it is.                                  *)
MapStays == UNCHANGED <<hash_fn_, table_, buckets, key, value, next>>

LEMMA WalkStays ==
  ASSUME Constants, RM!StructureInv, RM!StructureInv', MapStays
  PROVE  /\ \A k \in Keys : RM!Holds(k)' = RM!Holds(k)
         /\ \A k, n : RM!Found(k, n)' = RM!Found(k, n)
         /\ \A k, t : RM!Bucket(k, t)' = RM!Bucket(k, t)
<1>1. \A k \in Keys : RM!Holds(k)' = RM!Holds(k)
  BY QuietMaps DEF MapStays
<1>2. ASSUME NEW k, NEW n PROVE RM!Found(k, n)' = RM!Found(k, n)
  BY FoundView DEF MapStays
<1>3. ASSUME NEW k, NEW t PROVE RM!Bucket(k, t)' = RM!Bucket(k, t)
  BY DEF RM!Bucket, RM!SizeOf, MapStays
<1> QED
  BY <1>1, <1>2, <1>3

LEMMA HeldStays ==
  ASSUME Constants, RM!StructureInv, RM!StructureInv', MapStays, NEW a \in Readers, HeldFor(a),
         rpc'[a] = rpc[a], rkey'[a] = rkey[a], rtable'[a] = rtable[a], current'[a] = current[a],
         result'[a] = result[a], held'[a] = held[a]
  PROVE  HeldFor(a)'
<1>1. rkey[a] \in Keys \cup {None} /\ (rpc[a] \in {"bucket", "node"} => rkey[a] # None)
  BY DEF HeldFor, RM!StructureInv, RM!TypeOK
<1>2. ASSUME rkey'[a] # None PROVE RM!Holds(rkey[a])' \in held'[a]
  <2>1. PICK k \in Keys : k = rkey[a] /\ k = rkey'[a]
    BY <1>1, <1>2
  <2>2. RM!Holds(k) \in held[a]
    BY <1>2, <2>1 DEF HeldFor
  <2>3. RM!Holds(k)' \in held'[a]
    BY <2>2, WalkStays
  <2> QED
    BY <2>1, <2>3
<1>3. ASSUME rpc'[a] = "bucket"
      PROVE  RM!Found(rkey[a], buckets[rtable[a]][RM!Bucket(rkey[a], rtable[a])])' \in held'[a]
  <2>1. PICK k, t : k = rkey[a] /\ k = rkey'[a] /\ t = rtable[a] /\ t = rtable'[a]
    OBVIOUS
  <2>2. PICK h : h = buckets[t][RM!Bucket(k, t)]
    OBVIOUS
  <2>3. RM!Found(k, h) \in held[a]
    BY <1>3, <2>1, <2>2 DEF HeldFor
  <2>4. RM!Found(k, h)' \in held'[a]
    BY <2>3, WalkStays
  <2>5. h = buckets'[rtable'[a]][RM!Bucket(rkey[a], rtable[a])']
    <3>1. RM!Bucket(k, t)' = RM!Bucket(k, t) /\ buckets' = buckets
      BY WalkStays DEF MapStays
    <3>2. RM!Bucket(rkey[a], rtable[a])' = RM!Bucket(k, t)'
      BY <2>1
    <3> QED
      BY <2>1, <2>2, <3>1, <3>2
  <2> QED
    BY <2>1, <2>4, <2>5
<1>4. ASSUME rpc'[a] = "node" PROVE RM!Found(rkey[a], current[a])' \in held'[a]
  <2>1. PICK k, n : k = rkey[a] /\ k = rkey'[a] /\ n = current[a] /\ n = current'[a]
    OBVIOUS
  <2>2. RM!Found(k, n) \in held[a]
    BY <1>4, <2>1 DEF HeldFor
  <2>3. RM!Found(k, n)' \in held'[a]
    BY <2>2, WalkStays
  <2> QED
    BY <2>1, <2>3
<1>5. (/\ rpc[a] \in {"idle", "leave"} <=> rkey[a] = None
       /\ rpc[a] = "leave" <=> result[a] # None)'
  BY DEF HeldFor
<1> QED
  BY <1>2, <1>3, <1>4, <1>5 DEF HeldFor

(* The Gets that have lost their protection promise nothing any more.      *)
LEMMA AbandonHolds ==
  ASSUME Constants, RM!StructureInv, RM!StructureInv', ReadersHold, MapStays,
         NEW S \in SUBSET Readers, RM!Abandon(S), \A a \in S : rpc[a] # "leave"
  PROVE  ReadersHold'
<1>1. /\ \A a \in S : rpc'[a] = "idle" /\ rkey'[a] = None /\ held'[a] = {} /\ result'[a] = result[a]
      /\ \A a \in Readers \ S :
           /\ rpc'[a] = rpc[a] /\ rkey'[a] = rkey[a] /\ rtable'[a] = rtable[a] /\ current'[a] = current[a]
           /\ held'[a] = held[a] /\ result'[a] = result[a]
      /\ held' = [a \in Readers |-> IF a \in S THEN {} ELSE held[a]] /\ result' = result
  BY DEF RM!Abandon
<1>2. ASSUME NEW a \in S PROVE HeldFor(a)'
  <2>1. result[a] = None
    BY DEF ReadersHold, HeldFor
  <2> QED
    BY <1>1, <2>1 DEF HeldFor
<1>3. ASSUME NEW a \in Readers \ S PROVE HeldFor(a)'
  <2>1. HeldFor(a)
    BY DEF ReadersHold
  <2> QED
    BY <1>1, <2>1, HeldStays
<1>4. /\ held' \in [Readers -> SUBSET (Values \cup {Absent})]
      /\ result' \in [Readers -> Values \cup {Absent, None}]
  BY <1>1 DEF ReadersHold
<1> QED
  BY <1>2, <1>3, <1>4 DEF ReadersHold

(* A retirement abandons Gets that use what it retires, and no others.     *)
RetireStep == RM!RetireTable \/ RM!Retire

LEMMA RetireAbandons ==
  ASSUME Constants, RM!StructureInv, RetireStep
  PROVE  \E S \in SUBSET Readers : RM!Abandon(S) /\ \A a \in S : rpc[a] # "leave"
<1>1. CASE RM!RetireTable
  <2> DEFINE S == {a \in Readers \ pinned : RM!UsesTable(a, table_ - 1)}
  <2>1. RM!Abandon(S)
    BY <1>1 DEF RM!RetireTable
  <2>2. table_ - 1 # RM!NoTable /\ table_ - 1 \in RM!Tables /\ Null \notin Nodes
    <3>1. table_ \in RM!Tables \cup {RM!NoTable} /\ table_ # RM!NoTable /\ table_ # 0
      BY <1>1 DEF RM!RetireTable, RM!StructureInv, RM!TypeOK, RM!WriterInv
    <3>2. Doublings \in Nat /\ Null \notin Nodes
      BY DEF Constants, RM!TablesHaveBuckets, RM!ConstantsApart
    <3> QED
      BY <3>1, <3>2 DEF RM!Tables, RM!NoTable
  <2>3. RM!NodesOf(table_ - 1) \in SUBSET Nodes
    BY <2>2, TableNodes DEF RM!StructureInv
  <2>4. ASSUME NEW a \in S PROVE rpc[a] # "leave"
    BY <2>2, <2>3 DEF RM!UsesTable, RM!StructureInv, RM!ProtectedInv
  <2> QED
    BY <2>1, <2>4
<1>2. CASE RM!Retire
  <2> DEFINE S == {a \in Readers \ pinned : current[a] = unlinked}
  <2>1. RM!Abandon(S)
    BY <1>2 DEF RM!Retire
  <2>2. unlinked # Null
    BY <1>2 DEF RM!Retire, RM!StructureInv, RM!WriterInv
  <2>3. ASSUME NEW a \in S PROVE rpc[a] # "leave"
    BY <2>2 DEF RM!StructureInv, RM!ProtectedInv
  <2> QED
    BY <2>1, <2>3
<1> QED
  BY <1>1, <1>2 DEF RetireStep

LEMMA RetireHolds ==
  ASSUME Constants, RM!StructureInv, RM!StructureInv', RM!HeldInv, UNCHANGED hash_fn_, RetireStep
  PROVE  ReadersHold'
<1>1. MapStays
  BY DEF MapStays, RetireStep, RM!RetireTable, RM!Retire, RM!nodes
<1>2. PICK S \in SUBSET Readers : RM!Abandon(S) /\ \A a \in S : rpc[a] # "leave"
  BY RetireAbandons
<1> QED
  BY <1>1, <1>2, AbandonHolds, HeldParts

LEMMA QuietHolds ==
  ASSUME Constants, RM!StructureInv, RM!StructureInv', RM!HeldInv, MapStays,
         UNCHANGED <<rpc, rkey, rtable, current, result, held>>
  PROVE  ReadersHold'
<1>1. \A a \in Readers : HeldFor(a)'
  BY HeldParts, HeldStays DEF ReadersHold
<1> QED
  BY <1>1, HeldParts DEF ReadersHold

LEMMA FoundAlong ==
  ASSUME Constants, RM!StructureInv, NEW k
  PROVE  /\ RM!Found(k, Null) = Absent
         /\ \A n \in Nodes : RM!Found(k, n) = IF key[n] = k THEN value[n] ELSE RM!Found(k, next[n])
<1>1. PICK rank \in [Nodes -> Nat] : Descends(next, rank)
  BY RankedAlways DEF Ranked
<1>2. ValuesAlong(next, key, value, k)
  BY <1>1, ValueUnfolds
<1>3. RM!Found(k, Null) = Absent
  BY <1>2, FoundView DEF ValuesAlong
<1>4. ASSUME NEW n \in Nodes, key[n] = k PROVE RM!Found(k, n) = value[n]
  BY <1>2, <1>4, FoundView DEF ValuesAlong
<1>5. ASSUME NEW n \in Nodes, key[n] # k PROVE RM!Found(k, n) = RM!Found(k, next[n])
  <2>1. ValueIn(next, key, value, k, n) = ValueIn(next, key, value, k, next[n])
    BY <1>2, <1>5 DEF ValuesAlong
  <2>2. PICK m : m = next[n]
    OBVIOUS
  <2>3. RM!Found(k, n) = RM!Found(k, m)
    BY <2>1, <2>2, FoundView
  <2> QED
    BY <2>2, <2>3
<1> QED
  BY <1>3, <1>4, <1>5

LEMMA ReaderHolds ==
  ASSUME Constants, RM!StructureInv, RM!StructureInv', RM!VisibleInv, RM!HeldInv, UNCHANGED hash_fn_, NEW rd \in Readers,
         RM!ReaderStep(rd) \/ (\E k \in Keys : RM!Get(rd, k))
  PROVE  ReadersHold'
<1>1. MapStays
  BY DEF MapStays, RM!ReaderStep, RM!Pin, RM!LoadRetired, RM!LoadTable, RM!LoadBucket, RM!Visit, RM!Leave, RM!Get, RM!nodes
<1>2. /\ held \in [Readers -> SUBSET (Values \cup {Absent})]
      /\ result \in [Readers -> Values \cup {Absent, None}]
      /\ \A a \in Readers : HeldFor(a)
  BY HeldParts DEF ReadersHold
<1>3. /\ None \notin Keys /\ None \notin Values /\ Absent # None
      /\ rkey \in [Readers -> Keys \cup {None}] /\ current \in [Readers -> Nodes \cup {Null}]
      /\ rtable \in [Readers -> RM!Tables \cup {RM!NoTable}]
      /\ rpc \in [Readers -> {"idle", "table", "bucket", "node", "leave"}]
      /\ \A k \in Keys : RM!Holds(k) \in Values \cup {Absent}
  BY HoldsValues DEF Constants, RM!ConstantsApart, RM!StructureInv, RM!TypeOK, HoldsTyped
<1>4. ASSUME rpc[rd] \in {"table", "bucket", "node"}
      PROVE  rkey[rd] \in Keys /\ held[rd] \in SUBSET (Values \cup {Absent})
  BY <1>2, <1>3, <1>4 DEF HeldFor
<1>5. CASE \E k \in Keys : RM!Get(rd, k)
  <2>1. PICK k \in Keys : RM!Get(rd, k)
    BY <1>5
  <2>2. /\ rpc[rd] = "idle" /\ rkey' = [rkey EXCEPT ![rd] = k] /\ rpc' = [rpc EXCEPT ![rd] = "table"]
        /\ held' = [held EXCEPT ![rd] = {RM!Holds(k)}]
        /\ UNCHANGED <<rtable, current, result>>
    BY <2>1 DEF RM!Get
  <2>3. HeldFor(rd)'
    <3>1. rkey'[rd] = k /\ rpc'[rd] = "table" /\ result'[rd] = None /\ held'[rd] = {RM!Holds(k)}
      BY <1>2, <1>3, <2>2 DEF HeldFor
    <3>2. RM!Holds(k)' = RM!Holds(k)
      BY <1>1, WalkStays
    <3>3. RM!Holds(rkey[rd])' = RM!Holds(k)'
      BY <3>1
    <3> QED
      BY <1>3, <3>1, <3>2, <3>3 DEF HeldFor
  <2>4. ASSUME NEW a \in Readers \ {rd} PROVE HeldFor(a)'
    <3>1. /\ rpc'[a] = rpc[a] /\ rkey'[a] = rkey[a] /\ rtable'[a] = rtable[a] /\ current'[a] = current[a]
          /\ result'[a] = result[a] /\ held'[a] = held[a]
      BY <1>2, <1>3, <2>2
    <3> QED
      BY <1>1, <1>2, <3>1, HeldStays
  <2>5. /\ held' \in [Readers -> SUBSET (Values \cup {Absent})]
        /\ result' \in [Readers -> Values \cup {Absent, None}]
    BY <1>2, <1>3, <2>2
  <2> QED
    BY <2>3, <2>4, <2>5 DEF ReadersHold
<1>6. CASE RM!LoadTable(rd)
  <2>1. /\ rpc[rd] = "table" /\ rtable' = [rtable EXCEPT ![rd] = visible] /\ RM!TableFor(rd, visible) /\ rpc' = [rpc EXCEPT ![rd] = "bucket"]
        /\ UNCHANGED <<rkey, current, result, held>>
    BY <1>6 DEF RM!LoadTable
  <2>2. HeldFor(rd)'
    <3>1. rkey'[rd] = rkey[rd] /\ rpc'[rd] = "bucket" /\ result'[rd] = None /\ held'[rd] = held[rd]
          /\ rtable'[rd] = visible
      BY <1>2, <1>3, <2>1 DEF HeldFor
    <3>2. PICK k \in Keys : k = rkey[rd]
      BY <1>4, <2>1
    <3>3. RM!Holds(k) \in held[rd]
      BY <1>2, <1>3, <3>2 DEF HeldFor
    <3>11. table_ # RM!NoTable /\ table_ \in RM!Tables
      <4>1. rd \in RM!InCriticalSection
        BY <2>1 DEF RM!InCriticalSection
      <4> QED
        BY <4>1 DEF RM!StructureInv, RM!WriterInv, RM!TypeOK
    <3>4. PICK t \in RM!Tables : t = visible
      BY <3>11, VisibleIsTable
    <3>5. PICK h : h = buckets[t][RM!Bucket(k, t)]
      OBVIOUS
    <3>6. RM!Holds(k) = RM!Found(k, h)
      <4>1. ~RM!Dead(visible)
        BY <2>1 DEF RM!TableFor, RM!Stands, RM!Dead
      <4>2. VisibleHolds
        BY HeldParts
      <4> QED
        BY <3>4, <3>5, <3>11, <4>1, <4>2 DEF VisibleHolds
    <3>7. RM!Found(k, h)' \in held'[rd] /\ RM!Holds(k)' \in held'[rd]
      BY <1>1, <3>1, <3>3, <3>6, WalkStays
    <3>8. h = buckets'[rtable'[rd]][RM!Bucket(rkey[rd], rtable[rd])']
      <4>1. RM!Bucket(k, t)' = RM!Bucket(k, t) /\ buckets' = buckets
        BY <1>1, WalkStays DEF MapStays
      <4>2. RM!Bucket(rkey[rd], rtable[rd])' = RM!Bucket(k, t)'
        BY <3>1, <3>2, <3>4
      <4> QED
        BY <3>1, <3>4, <3>5, <4>1, <4>2
    <3>9. RM!Found(rkey[rd], buckets[rtable[rd]][RM!Bucket(rkey[rd], rtable[rd])])' \in held'[rd]
      BY <3>1, <3>2, <3>7, <3>8
    <3>10. RM!Holds(rkey[rd])' \in held'[rd]
      BY <3>1, <3>2, <3>7
    <3> QED
      BY <1>3, <3>1, <3>2, <3>9, <3>10 DEF HeldFor
  <2>3. ASSUME NEW a \in Readers \ {rd} PROVE HeldFor(a)'
    <3>1. /\ rpc'[a] = rpc[a] /\ rkey'[a] = rkey[a] /\ rtable'[a] = rtable[a] /\ current'[a] = current[a]
          /\ result'[a] = result[a] /\ held'[a] = held[a]
      BY <1>3, <2>1
    <3> QED
      BY <1>1, <1>2, <3>1, HeldStays
  <2> QED
    BY <1>2, <2>1, <2>2, <2>3 DEF ReadersHold
<1>7. CASE RM!LoadBucket(rd)
  <2>1. /\ rpc[rd] = "bucket" /\ rpc' = [rpc EXCEPT ![rd] = "node"]
        /\ current' = [current EXCEPT ![rd] = buckets[rtable[rd]][RM!Bucket(rkey[rd], rtable[rd])]]
        /\ UNCHANGED <<rkey, rtable, result, held>>
    BY <1>7 DEF RM!LoadBucket
  <2>2. HeldFor(rd)'
    <3>1. rkey'[rd] = rkey[rd] /\ rpc'[rd] = "node" /\ result'[rd] = None /\ held'[rd] = held[rd]
      BY <1>2, <1>3, <2>1 DEF HeldFor
    <3>2. PICK k \in Keys : k = rkey[rd]
      BY <1>4, <2>1
    <3>3. PICK h : h = buckets[rtable[rd]][RM!Bucket(k, rtable[rd])]
      OBVIOUS
    <3>4. current'[rd] = h
      BY <1>3, <2>1, <3>2, <3>3
    <3>5. RM!Found(k, h) \in held[rd] /\ RM!Holds(k) \in held[rd]
      BY <1>2, <1>3, <2>1, <3>2, <3>3 DEF HeldFor
    <3>6. RM!Found(k, h)' \in held'[rd] /\ RM!Holds(k)' \in held'[rd]
      BY <1>1, <3>1, <3>5, WalkStays
    <3>7. RM!Found(rkey[rd], current[rd])' \in held'[rd] /\ RM!Holds(rkey[rd])' \in held'[rd]
      BY <3>1, <3>2, <3>4, <3>6
    <3> QED
      BY <1>3, <3>1, <3>2, <3>7 DEF HeldFor
  <2>3. ASSUME NEW a \in Readers \ {rd} PROVE HeldFor(a)'
    <3>1. /\ rpc'[a] = rpc[a] /\ rkey'[a] = rkey[a] /\ rtable'[a] = rtable[a] /\ current'[a] = current[a]
          /\ result'[a] = result[a] /\ held'[a] = held[a]
      BY <1>3, <2>1
    <3> QED
      BY <1>1, <1>2, <3>1, HeldStays
  <2> QED
    BY <1>2, <2>1, <2>2, <2>3 DEF ReadersHold
<1>8. CASE RM!Visit(rd)
  <2>1. rpc[rd] = "node"
    BY <1>8 DEF RM!Visit
  <2>2. PICK k \in Keys : k = rkey[rd]
    BY <1>4, <2>1
  <2>3. PICK n \in Nodes \cup {Null} : n = current[rd]
    BY <1>3
  <2>4. RM!Found(k, n) \in held[rd] /\ RM!Holds(k) \in held[rd] /\ result[rd] = None
    BY <1>2, <1>3, <2>1, <2>2, <2>3 DEF HeldFor
  <2>5. CASE n # Null /\ key[n] # k
    <3>1. current' = [current EXCEPT ![rd] = next[n]] /\ UNCHANGED <<rpc, rkey, rtable, result, held>>
      BY <1>8, <2>2, <2>3, <2>5 DEF RM!Visit
    <3>2. HeldFor(rd)'
      <4>1. PICK m : m = next[n]
        OBVIOUS
      <4>2. RM!Found(k, m) = RM!Found(k, n)
        <5>1. n \in Nodes
          BY <2>5
        <5> QED
          BY <2>5, <4>1, <5>1, FoundAlong
      <4>3. RM!Found(k, m)' \in held'[rd] /\ RM!Holds(k)' \in held'[rd]
        BY <1>1, <2>4, <3>1, <4>2, WalkStays
      <4>4. RM!Found(rkey[rd], current[rd])' \in held'[rd] /\ RM!Holds(rkey[rd])' \in held'[rd]
        BY <1>3, <2>2, <3>1, <4>1, <4>3
      <4> QED
        BY <1>3, <2>1, <2>2, <2>4, <3>1, <4>4 DEF HeldFor
    <3>3. ASSUME NEW a \in Readers \ {rd} PROVE HeldFor(a)'
      <4>1. /\ rpc'[a] = rpc[a] /\ rkey'[a] = rkey[a] /\ rtable'[a] = rtable[a] /\ current'[a] = current[a]
            /\ result'[a] = result[a] /\ held'[a] = held[a]
        BY <1>3, <2>1, <3>1
      <4> QED
        BY <1>1, <1>2, <4>1, HeldStays
    <3> QED
      BY <1>2, <3>1, <3>2, <3>3 DEF ReadersHold
  <2>6. CASE ~(n # Null /\ key[n] # k)
    <3> DEFINE w == IF n = Null THEN Absent ELSE value[n]
    <3>1. RM!Finish(rd, w)
      BY <1>8, <2>2, <2>3, <2>6 DEF RM!Visit
    <3>2. w = RM!Found(k, n)
      BY <2>6, FoundAlong
    <3>3. w \in Values \cup {Absent}
      BY <1>2, <2>4, <3>2
    <3> HIDE DEF w
    <3>4. /\ result' = [result EXCEPT ![rd] = w] /\ rkey' = [rkey EXCEPT ![rd] = None]
          /\ held' = [held EXCEPT ![rd] = {}] /\ rpc' = [rpc EXCEPT ![rd] = "leave"]
          /\ rtable' = [rtable EXCEPT ![rd] = RM!NoTable] /\ current' = [current EXCEPT ![rd] = Null]
      BY <3>1 DEF RM!Finish
    <3>5. HeldFor(rd)'
      <4>1. rkey'[rd] = None /\ rpc'[rd] = "leave" /\ result'[rd] = w /\ w # None
        BY <1>2, <1>3, <3>3, <3>4
      <4> QED
        BY <4>1 DEF HeldFor
    <3>6. ASSUME NEW a \in Readers \ {rd} PROVE HeldFor(a)'
      <4>1. /\ rpc'[a] = rpc[a] /\ rkey'[a] = rkey[a] /\ rtable'[a] = rtable[a] /\ current'[a] = current[a]
            /\ result'[a] = result[a] /\ held'[a] = held[a]
        BY <1>2, <1>3, <2>1, <3>1, <3>4
      <4> QED
        BY <1>1, <1>2, <4>1, HeldStays
    <3>7. /\ held' \in [Readers -> SUBSET (Values \cup {Absent})]
          /\ result' \in [Readers -> Values \cup {Absent, None}]
      BY <1>2, <3>3, <3>4
    <3> QED
      BY <3>5, <3>6, <3>7 DEF ReadersHold
  <2> QED
    BY <2>5, <2>6
<1>9. CASE RM!Leave(rd)
  <2>1. /\ rpc[rd] = "leave" /\ rpc' = [rpc EXCEPT ![rd] = "idle"] /\ result' = [result EXCEPT ![rd] = None]
        /\ UNCHANGED <<rkey, rtable, current, held>>
    BY <1>9 DEF RM!Leave
  <2>2. HeldFor(rd)'
    <3>1. rkey'[rd] = None /\ rpc'[rd] = "idle" /\ result'[rd] = None
      BY <1>2, <1>3, <2>1 DEF HeldFor
    <3> QED
      BY <3>1 DEF HeldFor
  <2>3. ASSUME NEW a \in Readers \ {rd} PROVE HeldFor(a)'
    <3>1. /\ rpc'[a] = rpc[a] /\ rkey'[a] = rkey[a] /\ rtable'[a] = rtable[a] /\ current'[a] = current[a]
          /\ result'[a] = result[a] /\ held'[a] = held[a]
      BY <1>2, <1>3, <2>1
    <3> QED
      BY <1>1, <1>2, <3>1, HeldStays
  <2>4. result' \in [Readers -> Values \cup {Absent, None}]
    BY <1>2, <2>1
  <2> QED
    BY <1>2, <2>1, <2>2, <2>3, <2>4 DEF ReadersHold
<1>10. CASE RM!Pin(rd)
  <2>1. UNCHANGED <<rpc, rkey, rtable, current, result, held>>
    BY <1>10 DEF RM!Pin, RM!readers
  <2> QED
    BY <1>1, <2>1, QuietHolds
<1>11. CASE RM!LoadRetired(rd)
  <2>1. RM!Abandon({rd}) /\ rpc[rd] = "table" /\ {rd} \in SUBSET Readers
    BY <1>11 DEF RM!LoadRetired
  <2> QED
    BY <1>1, <2>1, AbandonHolds, HeldParts
<1> QED
  BY <1>5, <1>6, <1>7, <1>8, <1>9, <1>10, <1>11 DEF RM!ReaderStep

(* Whatever table readers load, if it has not been given back, they find   *)
(* what the map holds: the old one is read between Resize's store and the  *)
(* next store of the writer only.                                          *)
LEMMA VisibleSame ==
  ASSUME Constants, RM!StructureInv, RM!StructureInv', VisibleHolds, MapStays, UNCHANGED visible,
         RM!Dead(visible) => RM!Dead(visible)'
  PROVE  VisibleHolds'
<1>1. SUFFICES ASSUME table_ # RM!NoTable, ~RM!Dead(visible), NEW k \in Keys
               PROVE  RM!Found(k, buckets[visible][RM!Bucket(k, visible)])' = RM!Holds(k)'
  BY DEF VisibleHolds, MapStays, RM!NoTable
<1>2. PICK h : h = buckets[visible][RM!Bucket(k, visible)]
  OBVIOUS
<1>3. RM!Found(k, h) = RM!Holds(k)
  BY <1>1, <1>2 DEF VisibleHolds
<1>4. PICK t : t = visible /\ t = visible'
  OBVIOUS
<1>5. buckets'[visible'][RM!Bucket(k, visible)'] = h
  <2>1. RM!Bucket(k, t)' = RM!Bucket(k, t)
    BY WalkStays
  <2>2. RM!Bucket(k, visible)' = RM!Bucket(k, t)'
    BY <1>4
  <2> QED
    BY <1>2, <1>4, <2>1, <2>2 DEF MapStays
<1>6. RM!Found(k, h)' = RM!Holds(k)'
  BY <1>3, WalkStays
<1> QED
  BY <1>5, <1>6

LEMMA VisibleShortens ==
  ASSUME Constants, RM!StructureInv, RM!StructureInv', VisibleHolds, UNCHANGED <<hash_fn_, visible>>,
         visible \in RM!Tables, table_ # RM!NoTable, ~RM!Dead(visible), buckets'[visible] = buckets[visible],
         WalksShorter, \A k \in Keys : RM!Holds(k)' = RM!Holds(k)
  PROVE  VisibleHolds'
<1>1. SUFFICES ASSUME NEW k \in Keys
               PROVE  RM!Found(k, buckets[visible][RM!Bucket(k, visible)])' = RM!Holds(k)'
  BY DEF VisibleHolds
<1>2. PICK t \in RM!Tables : t = visible /\ t = visible'
  OBVIOUS
<1>3. PICK h \in Nodes \cup {Null} : h = buckets[t][RM!Bucket(k, t)]
  BY BucketInTable DEF RM!StructureInv, RM!TypeOK
<1>4. RM!Found(k, h) = RM!Holds(k)
  BY <1>2, <1>3 DEF VisibleHolds
<1>5. RM!Bucket(k, t)' = RM!Bucket(k, t) /\ RM!Tables' = RM!Tables
  BY DEF RM!Bucket, RM!SizeOf, RM!Tables
<1>6. h \in Kept \cup {Null}
  <2>1. CASE h = Null
    BY <2>1
  <2>2. CASE h # Null
    <3>1. h \in RM!NodesOf(t)
      BY <1>3, <2>2, TableNodes, BucketInTable DEF RM!StructureInv
    <3>2. h \in RM!NodesOf(t)'
      <4>1. h = buckets'[t][RM!Bucket(k, t)]
        BY <1>2, <1>3
      <4>2. RM!Bucket(k, t) \in DOMAIN buckets'[t]
        BY <1>2, BucketInTable DEF RM!StructureInv
      <4>3. RM!NodesOf(t)' = NodesIn(next', buckets', t)
        BY Views
      <4>4. PICK rank \in [Nodes -> Nat] : Descends(next', rank)
        BY RankedNext DEF Ranked, Descends
      <4>5. h \in ReachIn(next', h)
        BY <2>2, <4>4, ReachUnfolds DEF Descends
      <4> QED
        BY <4>1, <4>2, <4>3, <4>5 DEF NodesIn
    <3>3. h \in allocated /\ h \in allocated'
      BY <1>5, <2>2, <3>1, <3>2 DEF RM!StructureInv, RM!PlacesInv
    <3> QED
      BY <3>3 DEF Kept
  <2> QED
    BY <2>1, <2>2
<1>7. RM!Found(k, h)' = RM!Holds(k)'
  BY <1>4, <1>6 DEF WalksShorter
<1>8. buckets'[visible'][RM!Bucket(k, visible)'] = h
  <2>1. RM!Bucket(k, visible)' = RM!Bucket(k, t)'
    BY <1>2
  <2> QED
    BY <1>2, <1>3, <1>5, <2>1
<1> QED
  BY <1>7, <1>8

LEMMA GcSpares ==
  ASSUME Constants, RM!StructureInv, RM!Gc, visible \in RM!Tables, ~RM!Dead(visible)', table_ # RM!NoTable
  PROVE  buckets'[visible] = buckets[visible] /\ ~RM!Dead(visible)
<1> DEFINE past == {x \in retired : x[2] = {}}
           objects == {x[1] : x \in past}
<1>1. /\ UNCHANGED <<table_, visible, wpc>> /\ retired' = retired \ past
      /\ buckets' = [t \in RM!Tables |-> IF t \in objects \cap RM!Tables THEN [j \in DOMAIN buckets[t] |-> Null]
                                         ELSE buckets[t]]
  BY DEF RM!Gc, RM!Delete, RM!G!Reclaim, RM!writer
<1>2. visible \notin objects
  <2> SUFFICES ASSUME NEW x \in past, x[1] = visible PROVE RM!Dead(visible)'
    OBVIOUS
  <2>1. ~RM!Stands(visible)
    BY DEF RM!StructureInv, RM!WriterInv
  <2>2. \A y \in retired' : y[1] # visible
    BY <1>1 DEF RM!StructureInv, RM!PlacesInv
  <2> QED
    BY <1>1, <2>1, <2>2 DEF RM!Dead, RM!Stands
<1>3. ~RM!Dead(visible)
  BY <1>1 DEF RM!Dead
<1> QED
  BY <1>1, <1>2, <1>3

LEMMA VisibleStays ==
  ASSUME Constants, RM!StructureInv, RM!StructureInv', RM!VisibleInv, RM!VisibleInv', VisibleHolds, RM!Next
  PROVE  VisibleHolds'
<1>1. UNCHANGED hash_fn_ /\ RM!Tables' = RM!Tables /\ RM!NoTable' = RM!NoTable
  BY DEF RM!Next, RM!Tables, RM!NoTable
<1>2. ASSUME visible' = table_' PROVE VisibleHolds'
  <2> SUFFICES ASSUME table_' # RM!NoTable, NEW k \in Keys
               PROVE  RM!Found(k, buckets[visible][RM!Bucket(k, visible)])' = RM!Holds(k)'
    BY <1>1 DEF VisibleHolds
  <2>1. table_' \in RM!Tables
    BY <1>1 DEF RM!StructureInv, RM!TypeOK
  <2>2. PICK t \in RM!Tables : t = table_' /\ t = visible'
    BY <1>2, <2>1
  <2>3. RM!Holds(k)' = RM!Found(k, buckets[t][RM!Bucket(k, t)])'
    BY <1>1, <2>2, HoldsHeadNext DEF HeadsFound
  <2>4. PICK h : h = buckets'[t][RM!Bucket(k, t)']
    OBVIOUS
  <2>5. RM!Bucket(k, visible)' = RM!Bucket(k, t)'
    BY <2>2
  <2> QED
    BY <2>2, <2>3, <2>4, <2>5
<1>3. ASSUME NEW k \in Keys, NEW v \in Values, RM!Resize(k, v) PROVE VisibleHolds'
  <2>1. /\ visible = table_ /\ visible' = visible /\ table_ \in RM!Tables /\ table_ # RM!NoTable
        /\ buckets'[visible] = buckets[visible]
    <3>1. visible = table_ /\ visible' = visible
      BY <1>3 DEF RM!Resize, RM!VisibleInv
    <3>2. PICK N, olds, copy : Copying(N, olds, copy)
      BY <1>1, <1>3, ResizeCopies
    <3>3. table_ \in RM!Tables /\ table_ # RM!NoTable /\ table_ # table_ + 1
      BY <3>2 DEF Copying, RM!Tables, RM!NoTable, Constants, RM!TablesHaveBuckets
    <3>4. buckets'[table_] = buckets[table_]
      BY <3>2, <3>3 DEF Copying, RM!StructureInv, RM!TypeOK
    <3> QED
      BY <3>1, <3>3, <3>4
  <2>2. WalksShorter /\ \A l \in Keys : RM!Holds(l)' = RM!Holds(l)
    BY <1>1, <1>3, ResizeWalks, ResizeMaps DEF WalksKept
  <2>3. ~RM!Dead(visible)
    BY <2>1 DEF RM!Dead
  <2> QED
    BY <1>1, <2>1, <2>2, <2>3, VisibleShortens
<1>4. CASE RM!Gc
  <2>1. UNCHANGED <<visible, table_>>
    BY <1>4 DEF RM!Gc
  <2> SUFFICES ASSUME table_ # RM!NoTable, ~RM!Dead(visible)' PROVE VisibleHolds'
    BY <1>1, <2>1 DEF VisibleHolds
  <2>2. visible \in RM!Tables
    BY VisibleIsTable DEF RM!StructureInv, RM!TypeOK
  <2>3. buckets'[visible] = buckets[visible] /\ ~RM!Dead(visible)
    BY <1>4, <2>2, GcSpares
  <2>4. WalksShorter /\ \A l \in Keys : RM!Holds(l)' = RM!Holds(l)
    BY <1>1, <1>4, GcWalks, GcMaps DEF WalksKept
  <2> QED
    BY <1>1, <2>1, <2>2, <2>3, <2>4, VisibleShortens
<1>5. CASE RM!RetireTable
  <2>1. MapStays /\ UNCHANGED visible /\ wpc = "retireTable"
    BY <1>1, <1>5 DEF RM!RetireTable, MapStays, RM!nodes
  <2>2. ~RM!Dead(visible)
    BY <2>1 DEF RM!Dead, RM!VisibleInv
  <2> QED
    BY <2>1, <2>2, VisibleSame
<1>6. ASSUME NEW a \in Readers, RM!ReaderStep(a) \/ \E k \in Keys : RM!Get(a, k) PROVE VisibleHolds'
  <2>1. MapStays /\ UNCHANGED <<visible, wpc>> /\ \A x \in retired' : \E y \in retired : x[1] = y[1]
    <3>1. CASE RM!Pin(a) \/ RM!LoadTable(a) \/ RM!LoadBucket(a)
      BY <1>1, <3>1 DEF MapStays, RM!Pin, RM!LoadTable, RM!LoadBucket, RM!G!Enter, RM!nodes, RM!writer, RM!periods
    <3>2. CASE RM!Visit(a)
      BY <1>1, <3>2 DEF MapStays, RM!Visit, RM!nodes, RM!writer, RM!periods
    <3>3. CASE RM!LoadRetired(a) \/ RM!Leave(a)
      BY <1>1, <3>3 DEF MapStays, RM!LoadRetired, RM!Leave, RM!G!Leave, RM!nodes, RM!writer
    <3>4. CASE \E k \in Keys : RM!Get(a, k)
      BY <1>1, <3>4 DEF MapStays, RM!Get, RM!nodes, RM!writer, RM!periods
    <3> QED
      BY <1>6, <3>1, <3>2, <3>3, <3>4 DEF RM!ReaderStep
  <2>2. RM!Dead(visible) => RM!Dead(visible)'
    BY <2>1 DEF RM!Dead, MapStays
  <2> QED
    BY <2>1, <2>2, VisibleSame
<1>7. CASE RM!Publish \/ RM!Destroy
  BY <1>2, <1>7 DEF RM!Publish, RM!Destroy
<1>8. ASSUME RM!Count \/ RM!Uncount \/ RM!Retire \/ \E k \in Keys : RM!Remove(k) PROVE VisibleHolds'
  <2>1. wpc' \notin {"retireTable", "splice"}
    BY <1>8 DEF RM!Count, RM!Uncount, RM!Retire, RM!Remove
  <2> QED
    BY <1>2, <2>1 DEF RM!VisibleInv
<1>9. ASSUME NEW k \in Keys, NEW v \in Values, RM!Replace(k, v) \/ RM!Insert(k, v) PROVE VisibleHolds'
  <2>1. wpc' \notin {"retireTable", "splice"}
    BY <1>9 DEF RM!Replace, RM!Insert
  <2> QED
    BY <1>2, <2>1 DEF RM!VisibleInv
<1> QED
  BY <1>3, <1>4, <1>5, <1>6, <1>7, <1>8, <1>9 DEF RM!Next, RM!Put

LEMMA HeldInit ==
  ASSUME Constants, RM!Init
  PROVE  RM!HeldInv
<1>1. \A a \in Readers : rpc[a] = "idle" /\ rkey[a] = None /\ result[a] = None
  BY DEF RM!Init
<1>2. /\ held \in [Readers -> SUBSET (Values \cup {Absent})]
      /\ result \in [Readers -> Values \cup {Absent, None}]
  BY DEF RM!Init
<1>3. ReadersHold
  BY <1>1, <1>2 DEF ReadersHold, HeldFor
<1>4. VisibleHolds
  <2>1. visible = table_ /\ table_ \in RM!Tables
    BY DEF RM!Init, Constants, RM!TablesHaveBuckets, RM!Tables
  <2> QED
    BY <2>1, HoldsHead DEF VisibleHolds, HeadsFound
<1> QED
  BY <1>3, <1>4, HeldParts

-----------------------------------------------------------------------------
(* Every step is one of the map's, or none of them.                        *)
MapNow == [k \in Keys |-> RM!Holds(k)]

LEMMA MapInitial ==
  ASSUME Constants, RM!Init
  PROVE  RM!Map!Init
<1>1. RM!StructureInv
  BY StructureInit
<1>2. table_ = 0 /\ allocated = {}
  BY DEF RM!Init
<1>3. PICK t \in RM!Tables : t = table_
  BY <1>2 DEF Constants, RM!TablesHaveBuckets, RM!Tables
<1>4. RM!NodesOf(t) = {}
  BY <1>1, <1>2, NodesTyped
<1>5. \A k \in Keys : RM!Holds(k) = Absent
  BY <1>1, <1>3, <1>4, HoldsRead DEF HoldsWell
<1> QED
  BY <1>5 DEF RM!Init, RM!Map!Init

(* What a reader's key still holds has been recorded before.               *)
LEMMA HeldSame ==
  ASSUME Constants, RM!StructureInv, RM!HeldInv, HeldGrows, \A k \in Keys : RM!Holds(k)' = RM!Holds(k),
         UNCHANGED <<rkey, result>>
  PROVE  UNCHANGED RM!Map!vars
<1>1. ASSUME NEW a \in Readers PROVE held'[a] = held[a]
  <2>1. CASE rkey[a] = None
    BY <2>1 DEF HeldGrows
  <2>2. CASE rkey[a] # None
    <3>1. PICK k \in Keys : rkey[a] = k
      BY <2>2 DEF RM!StructureInv, RM!TypeOK
    <3>2. RM!Holds(k) \in held[a]
      BY <2>2, <3>1 DEF RM!HeldInv
    <3>3. held'[a] = held[a] \cup {RM!Holds(k)'}
      BY <3>1 DEF HeldGrows
    <3> QED
      BY <3>1, <3>2, <3>3
  <2> QED
    BY <2>1, <2>2
<1>2. held' = held
  BY <1>1 DEF HeldGrows, RM!HeldInv
<1>3. MapNow' = MapNow
  BY DEF MapNow
<1> QED
  BY <1>2, <1>3 DEF RM!Map!vars, MapNow

LEMMA MapSets ==
  ASSUME Constants, RM!StructureInv, RM!HeldInv, HeldGrows, NEW k \in Keys, NEW v,
         RM!Holds(k)' = v, \A l \in Keys \ {k} : RM!Holds(l)' = RM!Holds(l),
         UNCHANGED <<rkey, result>>
  PROVE  RM!Map!Set(k, v)
<1>1. ASSUME NEW a \in Readers PROVE held'[a] = IF rkey[a] = k THEN held[a] \cup {v} ELSE held[a]
  <2>1. CASE rkey[a] = None
    BY <2>1 DEF HeldGrows, Constants, RM!ConstantsApart
  <2>2. CASE rkey[a] # None
    <3>1. PICK l \in Keys : rkey[a] = l
      BY <2>2 DEF RM!StructureInv, RM!TypeOK
    <3>2. RM!Holds(l) \in held[a]
      BY <2>2, <3>1 DEF RM!HeldInv
    <3>3. held'[a] = held[a] \cup {RM!Holds(l)'}
      BY <3>1 DEF HeldGrows
    <3>4. CASE l = k
      BY <3>1, <3>3, <3>4
    <3>5. CASE l # k
      BY <3>1, <3>2, <3>3, <3>5
    <3> QED
      BY <3>4, <3>5
  <2> QED
    BY <2>1, <2>2
<1>2. held' = [a \in Readers |-> IF rkey[a] = k THEN held[a] \cup {v} ELSE held[a]]
  BY <1>1 DEF HeldGrows
<1>3. MapNow' = [MapNow EXCEPT ![k] = v]
  BY DEF MapNow
<1> QED
  BY <1>2, <1>3 DEF RM!Map!Set, MapNow

LEMMA WriterRefines ==
  ASSUME Constants, RM!StructureInv, RM!StructureInv', RM!HeldInv, UNCHANGED hash_fn_,
         WriterStep \/ RM!Destroy
  PROVE  RM!Map!Next \/ UNCHANGED RM!Map!vars
<1>1. HeldGrows /\ UNCHANGED <<rkey, result>>
  BY WriterGrows
<1>2. ASSUME NEW k \in Keys, RM!Remove(k) PROVE RM!Map!Next
  <2>1. RM!Map!Set(k, Absent)
    BY <1>1, <1>2, RemoveMaps, MapSets
  <2> QED
    BY <2>1 DEF RM!Map!Next
<1>3. ASSUME NEW k \in Keys, NEW v \in Values, RM!Insert(k, v) \/ RM!Replace(k, v) PROVE RM!Map!Next
  <2>1. RM!Map!Set(k, v)
    BY <1>1, <1>3, PutMaps, MapSets
  <2> QED
    BY <2>1 DEF RM!Map!Next
<1>4. ASSUME NEW k \in Keys, NEW v \in Values, RM!Resize(k, v) PROVE UNCHANGED RM!Map!vars
  BY <1>1, <1>4, ResizeMaps, HeldSame
<1>5. CASE RM!Count \/ RM!Uncount
  <2>1. UNCHANGED <<table_, buckets, key, value, next>>
    BY <1>5 DEF RM!Count, RM!Uncount, RM!nodes
  <2> QED
    BY <1>1, <2>1, QuietMaps, HeldSame
<1>6. CASE RM!Gc
  BY <1>1, <1>6, GcMaps, HeldSame
<1>7. CASE RM!Destroy
  <2>1. \A a \in Readers : rkey[a] = None
    <3>1. RM!InCriticalSection = {}
      BY <1>7 DEF RM!Destroy
    <3>2. \A a \in Readers : rpc[a] = "idle"
      BY <3>1 DEF RM!InCriticalSection
    <3> QED
      BY <3>2 DEF RM!HeldInv
  <2>2. held' = held
    BY <1>7 DEF RM!Destroy
  <2>3. \A k \in Keys : RM!Holds(k)' = Absent
    BY <1>7, DestroyMaps
  <2>4. RM!Map!Destroy
    BY <1>1, <2>1, <2>2, <2>3 DEF RM!Map!Destroy
  <2> QED
    BY <2>4 DEF RM!Map!Next
<1> QED
  BY <1>2, <1>3, <1>4, <1>5, <1>6, <1>7 DEF WriterStep, RM!Put

LEMMA AbandonRefines ==
  ASSUME Constants, RM!StructureInv, RM!StructureInv', MapStays, NEW S \in SUBSET Readers, RM!Abandon(S)
  PROVE  RM!Map!Next
<1>1. MapNow' = MapNow
  BY WalkStays DEF MapNow
<1>2. RM!Map!Abandon(S)
  BY <1>1 DEF RM!Abandon, RM!Map!Abandon, MapNow
<1> QED
  BY <1>2 DEF RM!Map!Next

LEMMA RetireRefines ==
  ASSUME Constants, RM!StructureInv, RM!StructureInv', UNCHANGED hash_fn_, RetireStep
  PROVE  RM!Map!Next
<1>1. MapStays
  BY DEF MapStays, RetireStep, RM!RetireTable, RM!Retire, RM!nodes
<1>2. PICK S \in SUBSET Readers : RM!Abandon(S)
  BY RetireAbandons
<1> QED
  BY <1>1, <1>2, AbandonRefines

LEMMA ReaderRefines ==
  ASSUME Constants, RM!StructureInv, RM!StructureInv', RM!HeldInv, UNCHANGED hash_fn_, NEW rd \in Readers,
         RM!ReaderStep(rd) \/ (\E k \in Keys : RM!Get(rd, k))
  PROVE  RM!Map!Next \/ UNCHANGED RM!Map!vars
<1>1. MapStays
  BY DEF MapStays, RM!ReaderStep, RM!Pin, RM!LoadTable, RM!LoadRetired, RM!LoadBucket, RM!Visit, RM!Leave, RM!Get, RM!nodes
<1>2. MapNow' = MapNow
  BY <1>1, WalkStays DEF MapNow
<1>3. CASE \E k \in Keys : RM!Get(rd, k)
  <2>1. PICK k \in Keys : RM!Get(rd, k)
    BY <1>3
  <2>2. rkey[rd] = None /\ result[rd] = None
    <3>1. rpc[rd] = "idle"
      BY <2>1 DEF RM!Get
    <3> QED
      BY <3>1 DEF RM!HeldInv
  <2>3. RM!Map!Call(rd, k)
    <3>1. rkey' = [rkey EXCEPT ![rd] = k] /\ held' = [held EXCEPT ![rd] = {RM!Holds(k)}] /\ result' = result
      BY <2>1 DEF RM!Get
    <3>2. MapNow[k] = RM!Holds(k)
      BY DEF MapNow
    <3> QED
      BY <1>2, <2>2, <3>1, <3>2 DEF RM!Map!Call, MapNow
  <2> QED
    BY <2>3 DEF RM!Map!Next
<1>4. CASE RM!Pin(rd) \/ RM!LoadTable(rd) \/ RM!LoadBucket(rd)
  <2>1. UNCHANGED <<rkey, result, held>>
    BY <1>4 DEF RM!Pin, RM!LoadTable, RM!LoadBucket, RM!readers
  <2> QED
    BY <1>2, <2>1 DEF RM!Map!vars, MapNow
<1>5. CASE RM!Visit(rd)
  <2>1. CASE current[rd] # Null /\ key[current[rd]] # rkey[rd]
    <3>1. UNCHANGED <<rkey, result, held>>
      BY <1>5, <2>1 DEF RM!Visit
    <3> QED
      BY <1>2, <3>1 DEF RM!Map!vars, MapNow
  <2>2. CASE ~(current[rd] # Null /\ key[current[rd]] # rkey[rd])
    <3>1. PICK w : w = IF current[rd] = Null THEN Absent ELSE value[current[rd]]
      OBVIOUS
    <3>2. RM!Finish(rd, w)
      BY <1>5, <2>2, <3>1 DEF RM!Visit
    <3>3. PICK k \in Keys, n \in Nodes \cup {Null} : k = rkey[rd] /\ n = current[rd] /\ k # None
      <4>1. rpc[rd] = "node"
        BY <1>5 DEF RM!Visit
      <4>2. rkey[rd] # None
        BY <4>1 DEF RM!HeldInv
      <4> QED
        BY <4>2 DEF RM!StructureInv, RM!TypeOK
    <3>4. RM!Found(k, n) \in held[rd]
      <4>1. rpc[rd] = "node"
        BY <1>5 DEF RM!Visit
      <4> QED
        BY <3>3, <4>1 DEF RM!HeldInv
    <3>5. w = RM!Found(k, n)
      BY <2>2, <3>1, <3>3, FoundAlong
    <3>6. RM!Map!Find(rd, w)
      BY <1>2, <3>2, <3>3, <3>4, <3>5 DEF RM!Finish, RM!Map!Find, MapNow
    <3> QED
      BY <3>4, <3>5, <3>6 DEF RM!Map!Next
  <2> QED
    BY <2>1, <2>2
<1>6. CASE RM!Leave(rd)
  <2>1. result[rd] # None
    <3>1. rpc[rd] = "leave"
      BY <1>6 DEF RM!Leave
    <3> QED
      BY <3>1 DEF RM!HeldInv
  <2>2. RM!Map!Return(rd)
    BY <1>2, <1>6, <2>1 DEF RM!Leave, RM!Map!Return, MapNow
  <2> QED
    BY <2>2 DEF RM!Map!Next
<1>7. CASE RM!LoadRetired(rd)
  <2>1. RM!Abandon({rd}) /\ {rd} \in SUBSET Readers
    BY <1>7 DEF RM!LoadRetired
  <2> QED
    BY <1>1, <2>1, AbandonRefines
<1> QED
  BY <1>3, <1>4, <1>5, <1>6, <1>7 DEF RM!ReaderStep

ReaderActs == \E a \in Readers : RM!ReaderStep(a) \/ \E k \in Keys : RM!Get(a, k)

LEMMA NextIs ==
  RM!Next => UNCHANGED hash_fn_ /\ (WriterStep \/ RM!Destroy \/ RetireStep \/ RM!Publish \/ ReaderActs)
BY DEF RM!Next, WriterStep, RetireStep, ReaderActs

LEMMA PublishKeeps ==
  ASSUME RM!Publish, UNCHANGED hash_fn_
  PROVE  MapStays /\ UNCHANGED <<allocated, rpc, rkey, rtable, current, result, held>>
BY DEF RM!Publish, MapStays, RM!nodes, RM!readers

LEMMA HeldStep ==
  ASSUME Constants, RM!StructureInv, RM!StructureInv', RM!VisibleInv, RM!VisibleInv', RM!HeldInv, RM!Next
  PROVE  RM!HeldInv' /\ (RM!Map!Next \/ UNCHANGED RM!Map!vars)
<1>1. UNCHANGED hash_fn_
  BY NextIs
<1>2. VisibleHolds'
  BY VisibleStays, HeldParts
<1>3. ASSUME ReadersHold' PROVE RM!HeldInv'
  BY <1>2, <1>3, HeldParts
<1>4. CASE WriterStep \/ RM!Destroy
  BY <1>1, <1>3, <1>4, WriterHolds, WriterRefines
<1>5. CASE RetireStep
  BY <1>1, <1>3, <1>5, RetireHolds, RetireRefines
<1>6. CASE RM!Publish
  <2>1. MapStays /\ UNCHANGED <<rpc, rkey, rtable, current, result, held>>
    BY <1>1, <1>6, PublishKeeps
  <2>2. MapNow' = MapNow
    BY <2>1, WalkStays DEF MapNow
  <2>3. UNCHANGED RM!Map!vars
    BY <2>1, <2>2 DEF RM!Map!vars, MapNow
  <2> QED
    BY <1>3, <2>1, <2>3, QuietHolds
<1>7. ASSUME NEW a \in Readers, RM!ReaderStep(a) \/ \E k \in Keys : RM!Get(a, k)
      PROVE  RM!HeldInv' /\ (RM!Map!Next \/ UNCHANGED RM!Map!vars)
  BY <1>1, <1>3, <1>7, ReaderHolds, ReaderRefines
<1> QED
  BY <1>4, <1>5, <1>6, <1>7, NextIs DEF ReaderActs

LEMMA HeldStutter ==
  ASSUME Constants, RM!StructureInv, RM!StructureInv', RM!HeldInv, UNCHANGED rcu
  PROVE  RM!HeldInv' /\ UNCHANGED RM!Map!vars
<1>1. /\ MapStays
      /\ UNCHANGED <<rpc, rkey, rtable, current, result, held>>
  BY DEF MapStays, rcu
<1>2. ReadersHold'
  BY <1>1, QuietHolds
<1>3. VisibleHolds'
  <2>1. RM!Dead(visible) => RM!Dead(visible)'
    BY DEF rcu, RM!Dead
  <2> QED
    BY <1>1, <2>1, VisibleSame, HeldParts DEF rcu
<1>4. RM!HeldInv'
  BY <1>2, <1>3, HeldParts
<1>5. MapNow' = MapNow
  BY <1>1, WalkStays DEF MapNow
<1> QED
  BY <1>1, <1>4, <1>5 DEF RM!Map!vars, MapNow

(* Put and Remove take effect at once, Resize and the collector change     *)
(* nothing that is seen, and Get returns what its key held at some moment  *)
(* of the call, whatever happens to the chain it walks.                    *)
THEOREM MapRefinesConcurrentMap == MCSpec => ImplementsMap
<1>1. Constants
  BY MapConstants DEF Constants
<1>2. MCInit => RM!HeldInv /\ RM!Map!Init
  BY <1>1, HeldInit, MapInitial DEF MCInit
<1>3. RM!StructureInv /\ RM!StructureInv' /\ RM!VisibleInv /\ RM!VisibleInv' /\ RM!HeldInv /\ [MCNext]_all
        => RM!HeldInv' /\ [RM!Map!Next]_RM!Map!vars
  <2> SUFFICES ASSUME RM!StructureInv, RM!StructureInv', RM!VisibleInv, RM!VisibleInv', RM!HeldInv, [MCNext]_all
               PROVE  RM!HeldInv' /\ (RM!Map!Next \/ UNCHANGED RM!Map!vars)
    OBVIOUS
  <2>1. CASE RM!Next
    BY <1>1, <2>1, HeldStep
  <2>2. CASE UNCHANGED rcu
    BY <1>1, <2>2, HeldStutter
  <2> QED
    BY <2>1, <2>2 DEF MCNext, all
<1> QED
  BY <1>2, <1>3, MapStructure, PTL DEF MCSpec, ImplementsMap, RM!ImplementsMap, RM!Map!Spec

-----------------------------------------------------------------------------
(* No reader's walk grows, and each of its steps leaves a key behind.      *)
LEMMA AheadView ==
  ASSUME NEW a
  PROVE  /\ RM!KeysAhead(a) = KeysIn(next, key, current[a])
         /\ RM!KeysAhead(a)' = KeysIn(next', key', current'[a])
<1>1. ASSUME NEW n PROVE RM!Reach(n) = ReachIn(next, n) /\ RM!Reach(n)' = ReachIn(next', n)
  BY DEF RM!Reach, ReachIn
<1>2. PICK n : n = current[a]
  OBVIOUS
<1>3. RM!KeysAhead(a) = KeysIn(next, key, current[a])
  BY <1>1, <1>2 DEF RM!KeysAhead, KeysIn
<1>4. PICK m : m = current'[a]
  OBVIOUS
<1>5. RM!Reach(current[a])' = ReachIn(next', current'[a])
  BY <1>1, <1>4
<1>6. RM!KeysAhead(a)' = KeysIn(next', key', current'[a])
  BY <1>5 DEF RM!KeysAhead, KeysIn
<1> QED
  BY <1>3, <1>6

WalkHolds == table_ # RM!NoTable =>
  \A n \in allocated : key[n] \in Keys /\ key[n] \notin KeysIn(next, key, next[n])

LEMMA WalkView == RM!WalkInv <=> WalkHolds
<1>1. ASSUME NEW n PROVE RM!Reach(n) = ReachIn(next, n)
  BY DEF RM!Reach, ReachIn
<1>2. ASSUME NEW n PROVE {key[m] : m \in RM!Reach(next[n])} = KeysIn(next, key, next[n])
  BY <1>1 DEF KeysIn
<1> QED
  BY <1>2 DEF RM!WalkInv, WalkHolds

TablesWalk == \A t \in RM!Tables : \A n \in RM!NodesOf(t) :
  key[n] \in Keys /\ key[n] \notin KeysIn(next, key, next[n])

LEMMA TablesWalkDown == RM!StructureInv => TablesWalk
<1> SUFFICES ASSUME RM!StructureInv, NEW t \in RM!Tables, NEW n \in RM!NodesOf(t)
             PROVE  key[n] \in Keys /\ key[n] \notin KeysIn(next, key, next[n])
  BY DEF TablesWalk
<1>1. Constants
  BY MapConstants DEF Constants
<1>2. PICK rank \in [Nodes -> Nat] : Descends(next, rank)
  BY RankedAlways DEF Ranked
<1>3. n \in Nodes /\ key[n] \in Keys
  BY <1>1, NodesTyped
<1>4. ASSUME NEW m \in ReachIn(next, next[n]) PROVE key[m] # key[n]
  <2>1. next[n] \in Nodes
    <3>1. next[n] \in Nodes \cup {Null} /\ ReachIn(next, Null) = {}
      BY <1>2, <1>3, ReachUnfolds DEF Descends
    <3> QED
      BY <1>4, <3>1
  <2>2. rank[m] <= rank[next[n]] /\ m \in Nodes /\ rank[next[n]] < rank[n]
    BY <1>2, <1>3, <2>1, ReachDown DEF Descends
  <2>3. m # n
    <3>1. rank[m] \in Nat /\ rank[n] \in Nat /\ rank[next[n]] \in Nat
      BY <1>3, <2>1, <2>2
    <3> QED
      BY <2>2, <3>1
  <2>4. m \in RM!NodesOf(t)
    <3>1. RM!NodesOf(t) \in SUBSET Nodes /\ ClosedIn(next, RM!NodesOf(t))
      BY <1>1, TableNodes DEF RM!StructureInv
    <3>2. next[n] \in RM!NodesOf(t)
      BY <1>2, <2>1, <3>1 DEF ClosedIn, Descends
    <3> QED
      BY <1>2, <3>1, <3>2, ReachLeast
  <2> QED
    BY <2>3, <2>4 DEF RM!StructureInv, RM!ChainsInv
<1> QED
  BY <1>3, <1>4 DEF KeysIn

LEMMA TablesWalkNext == RM!StructureInv' => TablesWalk'
BY TablesWalkDown, PTL

LEMMA WalkKept ==
  ASSUME RM!StructureInv', WalkHolds, table_ # RM!NoTable, WalksKept
  PROVE  WalkHolds'
<1>1. ASSUME NEW n \in allocated', n \in allocated
      PROVE  key'[n] \in Keys /\ key'[n] \notin KeysIn(next', key', next'[n])
  <2>1. n \in Kept
    BY <1>1 DEF Kept
  <2>2. key[n] \in Keys /\ key[n] \notin KeysIn(next, key, next[n])
    BY <1>1 DEF WalkHolds
  <2> QED
    BY <2>1, <2>2 DEF WalksKept, WalksShorter
<1>2. ASSUME NEW n \in allocated', n \notin allocated
      PROVE  key'[n] \in Keys /\ key'[n] \notin KeysIn(next', key', next'[n])
  <2>1. PICK t \in RM!Tables : n \in RM!NodesOf(t)'
    BY <1>2 DEF WalksKept, NewInTables
  <2>2. RM!Tables' = RM!Tables
    BY DEF RM!Tables
  <2> QED
    BY <2>1, <2>2, TablesWalkNext DEF TablesWalk
<1> QED
  BY <1>1, <1>2 DEF WalkHolds

LEMMA ReaderKeeps ==
  ASSUME NEW a \in Readers, RM!ReaderStep(a) \/ \E k \in Keys : RM!Get(a, k)
  PROVE  UNCHANGED <<table_, buckets, key, value, next, allocated>>
<1>1. CASE RM!Pin(a) \/ RM!LoadTable(a) \/ RM!LoadRetired(a) \/ RM!LoadBucket(a)
  BY <1>1 DEF RM!Pin, RM!LoadTable, RM!LoadRetired, RM!LoadBucket, RM!nodes
<1>2. CASE RM!Visit(a) \/ RM!Leave(a) \/ \E k \in Keys : RM!Get(a, k)
  BY <1>2 DEF RM!Visit, RM!Leave, RM!Get, RM!nodes
<1> QED
  BY <1>1, <1>2 DEF RM!ReaderStep

LEMMA WalkStep ==
  ASSUME Constants, RM!StructureInv, RM!StructureInv', WalkHolds, RM!Next
  PROVE  WalkHolds'
<1>1. UNCHANGED hash_fn_
  BY NextIs
<1>2. CASE WriterStep
  <2>1. CASE table_ = RM!NoTable
    <3>1. table_' = table_
      <4>1. wpc = "idle" /\ table_ \notin RM!Tables
        BY <1>1, <2>1 DEF RM!StructureInv, RM!WriterInv, Constants, RM!TablesHaveBuckets, RM!Tables, RM!NoTable
      <4>2. ASSUME NEW k \in Keys PROVE ~RM!Remove(k)
        BY <2>1 DEF RM!Remove
      <4>3. ASSUME NEW k \in Keys, NEW v \in Values PROVE ~RM!Put(k, v)
        <5>1. ~RM!Splices(k, v)
          BY <2>1, <4>1 DEF RM!Splices
        <5>2. table_ \notin 0 .. Doublings - 1
          BY <2>1 DEF RM!NoTable
        <5> QED
          BY <5>1, <5>2 DEF RM!Put, RM!Resize, RM!Replace, RM!Insert
      <4>4. ~RM!Count /\ ~RM!Uncount
        BY <4>1 DEF RM!Count, RM!Uncount
      <4>5. RM!Gc
        BY <1>2, <4>2, <4>3, <4>4 DEF WriterStep
      <4> QED
        BY <4>5 DEF RM!Gc
    <3> QED
      BY <2>1, <3>1 DEF WalkHolds, RM!NoTable
  <2>2. CASE table_ # RM!NoTable
    BY <1>1, <1>2, <2>2, WriterWalks, WalkKept
  <2> QED
    BY <2>1, <2>2
<1>3. CASE RM!Destroy
  BY <1>3 DEF RM!Destroy, WalkHolds, RM!NoTable
<1>4. CASE ReaderActs
  <2>1. UNCHANGED <<table_, key, next, allocated>>
    BY <1>4, ReaderKeeps DEF ReaderActs, MapStays
  <2> QED
    BY <2>1 DEF WalkHolds, RM!NoTable
<1>5. CASE RetireStep \/ RM!Publish
  <2>1. UNCHANGED <<table_, key, next, allocated>>
    BY <1>5 DEF RetireStep, RM!RetireTable, RM!Retire, RM!Publish, RM!nodes
  <2> QED
    BY <2>1 DEF WalkHolds, RM!NoTable
<1> QED
  BY <1>2, <1>3, <1>4, <1>5, NextIs

Shortens(a) ==
  rpc[a] = "node" /\ rpc'[a] \notin {"leave", "idle"} =>
    /\ rpc'[a] = "node" /\ RM!KeysAhead(a)' \subseteq RM!KeysAhead(a)
    /\ current'[a] # current[a] => key[current[a]] \notin RM!KeysAhead(a)'

LEMMA EachStepShortens ==
  ASSUME Constants, RM!StructureInv, RM!StructureInv', WalkHolds, RM!Next, NEW a \in Readers
  PROVE  Shortens(a)
<1> SUFFICES ASSUME rpc[a] = "node", rpc'[a] \notin {"leave", "idle"}
             PROVE  /\ rpc'[a] = "node"
                    /\ KeysIn(next', key', current'[a]) \subseteq KeysIn(next, key, current[a])
                    /\ current'[a] # current[a] => key[current[a]] \notin KeysIn(next', key', current'[a])
  BY AheadView DEF Shortens
<1>1. UNCHANGED hash_fn_
  BY NextIs
<1>2. a \in RM!InCriticalSection /\ table_ # RM!NoTable
  BY DEF RM!InCriticalSection, RM!StructureInv, RM!WriterInv
<1>3. PICK n \in Nodes \cup {Null} : n = current[a]
  BY DEF RM!StructureInv, RM!TypeOK
<1>4. n # Null => n \in Nodes /\ RM!NodeFor(a, n)
  BY <1>3 DEF RM!StructureInv, RM!ProtectedInv
<1>5. CASE WriterStep
  <2>1. rpc' = rpc /\ current' = current
    BY <1>5 DEF WriterStep, RM!Remove, RM!Put, RM!Resize, RM!Replace, RM!Insert,
       RM!Count, RM!Uncount, RM!Gc, RM!readers
  <2>2. n \in Kept \cup {Null} /\ WalksShorter
    BY <1>1, <1>2, <1>4, <1>5, WriterWalks DEF WalksKept, NodesKept
  <2>3. KeysIn(next', key', n) \subseteq KeysIn(next, key, n)
    BY <2>2 DEF WalksShorter
  <2> QED
    BY <1>3, <2>1, <2>3
<1>6. CASE RM!Destroy
  BY <1>2, <1>6 DEF RM!Destroy
<1>7. CASE ReaderActs
  <2>1. next' = next /\ key' = key
    BY <1>7, ReaderKeeps DEF ReaderActs
  <2>2. CASE rpc'[a] = rpc[a] /\ current'[a] = current[a]
    BY <2>1, <2>2
  <2>3. CASE ~(rpc'[a] = rpc[a] /\ current'[a] = current[a])
    <3>1. RM!Visit(a)
      <4>1. PICK b \in Readers : RM!ReaderStep(b) \/ \E k \in Keys : RM!Get(b, k)
        BY <1>7 DEF ReaderActs
      <4>2. rpc \in [Readers -> {"idle", "table", "bucket", "node", "leave"}]
            /\ current \in [Readers -> Nodes \cup {Null}]
        BY DEF RM!StructureInv, RM!TypeOK
      <4>3. ASSUME b # a PROVE rpc'[a] = rpc[a] /\ current'[a] = current[a]
        <5>1. CASE RM!Pin(b) \/ RM!LoadTable(b) \/ RM!LoadBucket(b)
          BY <4>2, <4>3, <5>1 DEF RM!Pin, RM!LoadTable, RM!LoadBucket, RM!readers
        <5>2. CASE RM!LoadRetired(b)
          BY <4>2, <4>3, <5>2 DEF RM!LoadRetired, RM!Abandon
        <5>3. CASE RM!Visit(b)
          BY <4>2, <4>3, <5>3 DEF RM!Visit, RM!Finish
        <5>4. CASE RM!Leave(b) \/ \E k \in Keys : RM!Get(b, k)
          BY <4>2, <4>3, <5>4 DEF RM!Leave, RM!Get
        <5> QED
          BY <4>1, <5>1, <5>2, <5>3, <5>4 DEF RM!ReaderStep
      <4>4. b = a
        BY <2>3, <4>3
      <4>5. ~RM!Pin(a)
        BY <2>3 DEF RM!Pin, RM!readers
      <4> QED
        BY <4>1, <4>4, <4>5 DEF RM!ReaderStep, RM!LoadTable, RM!LoadRetired, RM!LoadBucket, RM!Leave, RM!Get
    <3>2. n # Null /\ rpc' = rpc /\ current' = [current EXCEPT ![a] = next[n]]
      <4>1. CASE n # Null /\ key[n] # rkey[a]
        BY <1>3, <3>1, <4>1 DEF RM!Visit
      <4>2. CASE ~(n # Null /\ key[n] # rkey[a])
        <5>1. rpc' = [rpc EXCEPT ![a] = "leave"]
          BY <1>3, <3>1, <4>2 DEF RM!Visit, RM!Finish
        <5>2. rpc'[a] = "leave"
          BY <5>1 DEF RM!StructureInv, RM!TypeOK
        <5> QED
          BY <5>2
      <4> QED
        BY <4>1, <4>2
    <3>3. n \in Nodes /\ n \in allocated /\ current'[a] = next[n] /\ rpc'[a] = "node"
      BY <1>4, <3>2, ProtectedAllocated DEF RM!StructureInv, RM!TypeOK
    <3>4. key[n] \notin KeysIn(next, key, next[n])
      BY <1>2, <3>3 DEF WalkHolds
    <3>5. KeysIn(next, key, n) = {key[n]} \cup KeysIn(next, key, next[n])
      <4>1. PICK rank \in [Nodes -> Nat] : Descends(next, rank)
        BY RankedAlways DEF Ranked
      <4>2. KeysAlong(next, key)
        BY <4>1, KeysUnfold
      <4> QED
        BY <3>3, <4>2 DEF KeysAlong
    <3> QED
      BY <1>3, <2>1, <3>3, <3>4, <3>5
  <2> QED
    BY <2>2, <2>3
<1>8. CASE RetireStep \/ RM!Publish
  <2>1. next' = next /\ key' = key
    BY <1>8 DEF RetireStep, RM!RetireTable, RM!Retire, RM!Publish, RM!nodes
  <2>2. rpc'[a] = rpc[a] /\ current'[a] = current[a]
    <3>1. CASE RM!Publish
      BY <3>1 DEF RM!Publish, RM!readers
    <3>2. CASE RetireStep
      <4>1. PICK S \in SUBSET Readers : RM!Abandon(S)
        BY <3>2, RetireAbandons
      <4> QED
        BY <4>1 DEF RM!Abandon
    <3> QED
      BY <1>8, <3>1, <3>2
  <2> QED
    BY <2>1, <2>2
<1> QED
  BY <1>5, <1>6, <1>7, <1>8, NextIs

(* "100% wait-free": whatever the writers do, the keys a Get has still to  *)
(* walk past only become fewer, and each of its steps leaves one behind.   *)
THEOREM GetsAreWaitFree == MCSpec => WaitFree
<1>1. Constants
  BY MapConstants DEF Constants
<1>2. MCInit => WalkHolds
  BY DEF MCInit, RM!Init, WalkHolds
<1>3. RM!StructureInv /\ RM!StructureInv' /\ WalkHolds /\ [MCNext]_all
        => WalkHolds' /\ [RM!WalksShorten]_RM!vars
  <2> SUFFICES ASSUME RM!StructureInv, RM!StructureInv', WalkHolds, [MCNext]_all
               PROVE  WalkHolds' /\ (RM!WalksShorten \/ UNCHANGED RM!vars)
    OBVIOUS
  <2>1. CASE RM!Next
    BY <1>1, <2>1, WalkStep, EachStepShortens DEF RM!WalksShorten, Shortens
  <2>2. CASE UNCHANGED rcu
    <3>1. UNCHANGED RM!vars /\ UNCHANGED <<table_, key, next, allocated>>
      BY <2>2 DEF rcu, RM!vars, RM!nodes, RM!writer, RM!readers, RM!periods
    <3> QED
      BY <3>1 DEF WalkHolds, RM!NoTable
  <2> QED
    BY <2>1, <2>2 DEF MCNext, all
<1> QED
  BY <1>2, <1>3, MapStructure, PTL DEF MCSpec, WaitFree, RM!WaitFree
===============================================================================
