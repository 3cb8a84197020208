------------------------------- MODULE Facts -------------------------------
(***************************************************************************)
(* Facts the proofs of several modules rest on: induction on the natural   *)
(* numbers and on prefixes, without operator parameters so that they can   *)
(* be cited, and what the operators of Diags do to a store.                *)
(***************************************************************************)
EXTENDS Diags, Integers, FiniteSetTheorems, TLAPS

(* Every inhabited set of natural numbers has a least element: as many     *)
(* numbers as lie below all of it.                                         *)
LEMMA LeastNumber ==
    ASSUME NEW T \in SUBSET Nat, T # {}
    PROVE  \E x \in T : \A y \in T : x <= y
<1>1. PICK t \in T : TRUE
  OBVIOUS
<1> DEFINE Below == {n \in 0 .. t : \A y \in T : n < y}
           k == Cardinality(Below)
<1>2. t \in Nat
  OBVIOUS
<1>3. IsFiniteSet(0 .. t)
  BY <1>2, FS_Interval
<1>4. IsFiniteSet(Below) /\ Below \in SUBSET (0 .. t)
  BY <1>3, FS_Subset
<1>5. k \in Nat
  BY <1>4, FS_CardinalityType
<1>6. ASSUME NEW a \in Below
      PROVE  a < k
  <2>1. 0 .. a \subseteq Below /\ a \in Nat
    BY <1>2
  <2>2. Cardinality(0 .. a) = a + 1
    BY <2>1, FS_Interval
  <2>3. Cardinality(0 .. a) <= k
    BY <2>1, <1>4, FS_Subset
  <2> HIDE DEF k
  <2> QED
    BY <2>1, <2>2, <2>3, <1>5
<1>7. Below \subseteq 0 .. (k - 1)
  BY <1>5, <1>6, <1>4, <1>2
<1>8. IsFiniteSet(0 .. (k - 1)) /\ Cardinality(0 .. (k - 1)) = k
  <2> HIDE DEF k
  <2> QED
    BY <1>5, FS_Interval
<1>9. Below = 0 .. (k - 1)
  BY <1>7, <1>8, FS_Subset
<1>10. k \notin Below /\ t \notin Below
  <2>1. t \notin Below
    BY <1>2
  <2> HIDE DEF k, Below
  <2> QED
    BY <2>1, <1>9, <1>5
<1>11. k <= t
  <2> HIDE DEF k, Below
  <2> QED
    BY <1>10, <1>9, <1>5, <1>2
<1>12. PICK y \in T : y <= k
  <2> HIDE DEF k
  <2> QED
    BY <1>10, <1>11, <1>5, <1>2
<1>13. \A z \in T : k <= z
  <2>1. CASE k = 0
    <3> HIDE DEF k
    <3> QED
      BY <2>1
  <2>2. CASE k # 0
    <3>1. k - 1 \in Below
      <4> HIDE DEF k, Below
      <4> QED
        BY <2>2, <1>9, <1>5
    <3>2. \A z \in T : k - 1 < z
      BY <3>1
    <3> HIDE DEF k
    <3> QED
      BY <3>2, <1>5
  <2> QED
    BY <2>1, <2>2
<1> HIDE DEF k
<1> QED
  BY <1>12, <1>13, <1>5

(* Induction: a set that holds 0, and with each number the next one, holds *)
(* all of them.                                                            *)
LEMMA Induction ==
    ASSUME NEW S, 0 \in S, \A n \in Nat : n \in S => n + 1 \in S
    PROVE  Nat \subseteq S
<1> SUFFICES ASSUME Nat \ S # {}
             PROVE  FALSE
  OBVIOUS
<1>1. PICK x \in Nat \ S : \A y \in Nat \ S : x <= y
  BY LeastNumber
<1>2. x - 1 \in Nat /\ x - 1 \in S
  BY <1>1
<1> QED
  BY <1>2

(* Induction over all smaller numbers.                                     *)
LEMMA StrongInduction ==
    ASSUME NEW S, \A n \in Nat : 0 .. n - 1 \subseteq S => n \in S
    PROVE  Nat \subseteq S
<1> SUFFICES ASSUME Nat \ S # {}
             PROVE  FALSE
  OBVIOUS
<1>1. PICK x \in Nat \ S : \A y \in Nat \ S : x <= y
  BY LeastNumber
<1>2. 0 .. x - 1 \subseteq S
  BY <1>1
<1> QED
  BY <1>2

(* f is defined by recursion along a .. b: its value at the lower end is   *)
(* base, each further one is computed from the one before.                 *)
Recursion(f, base, step, a, b) ==
    f[a] = base /\ \A k \in a + 1 .. b : f[k] = step[<<k, f[k - 1]>>]

(* There is such a function.                                               *)
LEMMA RecursionExists ==
    ASSUME NEW S, NEW base \in S, NEW a \in Int, NEW b \in Int, a <= b,
           NEW step \in [(a .. b) \X S -> S]
    PROVE  \E f \in [a .. b -> S] : Recursion(f, base, step, a, b)
<1> DEFINE Solution(n) == \E f \in [a .. a + n -> S] :
                             /\ f[a] = base
                             /\ \A k \in a + 1 .. a + n : f[k] = step[<<k, f[k - 1]>>]
           Solved == {n \in Nat : a + n <= b => Solution(n)}
<1>1. 0 \in Solved
  <2>1. [k \in a .. a + 0 |-> base] \in [a .. a + 0 -> S]
    OBVIOUS
  <2>2. [k \in a .. a + 0 |-> base][a] = base
    OBVIOUS
  <2>3. a + 1 .. a + 0 = {}
    OBVIOUS
  <2>4. Solution(0)
    BY <2>1, <2>2, <2>3
  <2> HIDE DEF Solution
  <2> QED
    BY <2>4
<1>2. ASSUME NEW n \in Nat, n \in Solved
      PROVE  n + 1 \in Solved
  <2> SUFFICES ASSUME a + (n + 1) <= b
               PROVE  Solution(n + 1)
    OBVIOUS
  <2>1. PICK f \in [a .. a + n -> S] :
               /\ f[a] = base
               /\ \A k \in a + 1 .. a + n : f[k] = step[<<k, f[k - 1]>>]
    BY <1>2
  <2> DEFINE last == step[<<a + (n + 1), f[a + n]>>]
             g == [k \in a .. a + (n + 1) |-> IF k <= a + n THEN f[k] ELSE last]
  <2>2. last \in S
    BY <2>1
  <2> HIDE DEF last
  <2>3. g \in [a .. a + (n + 1) -> S] /\ g[a] = base
    BY <2>1, <2>2
  <2>4. ASSUME NEW k \in a + 1 .. a + (n + 1)
        PROVE  g[k] = step[<<k, g[k - 1]>>]
    <3>1. CASE k <= a + n
      <4>1. g[k] = f[k] /\ g[k - 1] = f[k - 1] /\ k \in a + 1 .. a + n
        BY <3>1
      <4> HIDE DEF g
      <4> QED
        BY <4>1, <2>1
    <3>2. CASE k = a + (n + 1)
      <4>1. g[k] = last /\ g[k - 1] = f[a + n]
        BY <3>2
      <4> HIDE DEF g
      <4> QED
        BY <4>1, <3>2 DEF last
    <3> QED
      BY <3>1, <3>2
  <2> HIDE DEF g
  <2> QED
    BY <2>3, <2>4
<1> HIDE DEF Solved
<1>3. Nat \subseteq Solved
  BY <1>1, <1>2, Induction
<1>4. b - a \in Nat /\ a + (b - a) = b
  OBVIOUS
<1>5. Solution(b - a)
  <2>1. b - a \in Solved
    BY <1>3, <1>4
  <2> HIDE DEF Solution
  <2>2. a + (b - a) <= b => Solution(b - a)
    BY <2>1, Zenon DEF Solved
  <2> QED
    BY <2>2, <1>4
<1> QED
  BY <1>4, <1>5 DEF Recursion

StepsAlike(f, g, a, b) ==
    f[a] = g[a] /\ \A k \in a + 1 .. b : f[k - 1] = g[k - 1] => f[k] = g[k]

Alike(f, g, a, b) == \A k \in a .. b : f[k] = g[k]

(* Two functions that start alike and go on alike are alike.               *)
LEMMA RecursionAgrees ==
    ASSUME NEW f, NEW g, NEW a \in Int, NEW b \in Int, StepsAlike(f, g, a, b)
    PROVE  Alike(f, g, a, b)
<1> DEFINE AlikeAt == {n \in Nat : a + n <= b => f[a + n] = g[a + n]}
<1>1. 0 \in AlikeAt
  BY DEF StepsAlike
<1>2. ASSUME NEW n \in Nat, n \in AlikeAt
      PROVE  n + 1 \in AlikeAt
  <2> SUFFICES ASSUME a + (n + 1) <= b
               PROVE  f[a + (n + 1)] = g[a + (n + 1)]
    OBVIOUS
  <2>1. a + (n + 1) \in a + 1 .. b /\ (a + (n + 1)) - 1 = a + n /\ a + n <= b
    OBVIOUS
  <2>2. f[a + n] = g[a + n]
    BY <1>2, <2>1
  <2> QED
    BY <2>1, <2>2 DEF StepsAlike
<1> HIDE DEF AlikeAt
<1>3. Nat \subseteq AlikeAt
  BY <1>1, <1>2, Induction
<1>4. ASSUME NEW k \in a .. b
      PROVE  f[k] = g[k]
  <2>1. k - a \in Nat /\ a + (k - a) = k
    OBVIOUS
  <2> QED
    BY <2>1, <1>3 DEF AlikeAt
<1> QED
  BY <1>4 DEF Alike

(* f is defined by descent along a .. b: its value at the upper end is     *)
(* base, each other one is computed from a value higher up.                *)
Descent(f, base, step, jump, a, b) ==
    f[b] = base /\ \A k \in a .. b - 1 : f[k] = step[<<k, f[jump[k]]>>]

(* There is such a function.                                               *)
LEMMA DescentExists ==
    ASSUME NEW S, NEW base \in S, NEW a \in Int, NEW b \in Int, a <= b,
           NEW jump, \A k \in a .. b - 1 : jump[k] \in k + 1 .. b,
           NEW step \in [(a .. b) \X S -> S]
    PROVE  \E f \in [a .. b -> S] : Descent(f, base, step, jump, a, b)
<1> DEFINE Solution(n) == \E f \in [b - n .. b -> S] :
                             /\ f[b] = base
                             /\ \A k \in b - n .. b - 1 : f[k] = step[<<k, f[jump[k]]>>]
           Solved == {n \in Nat : a <= b - n => Solution(n)}
<1>1. 0 \in Solved
  <2>1. [k \in b - 0 .. b |-> base] \in [b - 0 .. b -> S]
    OBVIOUS
  <2>2. [k \in b - 0 .. b |-> base][b] = base
    OBVIOUS
  <2>3. b - 0 .. b - 1 = {}
    OBVIOUS
  <2>4. Solution(0)
    BY <2>1, <2>2, <2>3
  <2> HIDE DEF Solution
  <2> QED
    BY <2>4
<1>2. ASSUME NEW n \in Nat, n \in Solved
      PROVE  n + 1 \in Solved
  <2> SUFFICES ASSUME a <= b - (n + 1)
               PROVE  Solution(n + 1)
    OBVIOUS
  <2>1. PICK f \in [b - n .. b -> S] :
               /\ f[b] = base
               /\ \A k \in b - n .. b - 1 : f[k] = step[<<k, f[jump[k]]>>]
    BY <1>2
  <2> DEFINE low == b - (n + 1)
             first == step[<<low, f[jump[low]]>>]
             g == [k \in low .. b |-> IF k = low THEN first ELSE f[k]]
  <2>2. first \in S
    <3>1. low \in a .. b - 1 /\ low \in a .. b
      OBVIOUS
    <3>2. jump[low] \in b - n .. b
      BY <3>1
    <3> HIDE DEF low
    <3> QED
      BY <2>1, <3>1, <3>2
  <2>3. g \in [low .. b -> S] /\ g[b] = base
    <3> HIDE DEF first
    <3> QED
      BY <2>1, <2>2
  <2>4. ASSUME NEW k \in low .. b - 1
        PROVE  g[k] = step[<<k, g[jump[k]]>>]
    <3>1. jump[k] \in k + 1 .. b /\ jump[k] # low /\ jump[k] \in low .. b
      OBVIOUS
    <3>2. g[jump[k]] = f[jump[k]]
      BY <3>1
    <3>3. CASE k = low
      <4>1. g[k] = first /\ k \in low .. b
        BY <3>3
      <4>2. first = step[<<k, f[jump[k]]>>]
        BY <3>3
      <4> HIDE DEF g, first, low
      <4> QED
        BY <4>1, <4>2, <3>2
    <3>4. CASE k # low
      <4>1. k \in b - n .. b - 1 /\ g[k] = f[k]
        BY <3>4
      <4> HIDE DEF g
      <4> QED
        BY <4>1, <3>2, <2>1
    <3> QED
      BY <3>3, <3>4
  <2> HIDE DEF g
  <2> QED
    BY <2>3, <2>4
<1> HIDE DEF Solved
<1>3. Nat \subseteq Solved
  BY <1>1, <1>2, Induction
<1>4. b - a \in Nat /\ b - (b - a) = a
  OBVIOUS
<1>5. Solution(b - a)
  <2>1. b - a \in Solved
    BY <1>3, <1>4
  <2> HIDE DEF Solution
  <2>2. a <= b - (b - a) => Solution(b - a)
    BY <2>1, Zenon DEF Solved
  <2> QED
    BY <2>2, <1>4
<1> QED
  BY <1>4, <1>5 DEF Descent

-----------------------------------------------------------------------------

(* The stores with entries in E and a max in M.                            *)
Stores(E, M) ==
    [entries : Seq(E), cap : Nat, max : M, nerrs : Nat, nwarnings : Nat]

(* A new store is one.                                                     *)
LEMMA DiagsInitType ==
    ASSUME NEW E, NEW M, NEW max \in M
    PROVE  DiagsInit(max) \in Stores(E, M)
BY DEF DiagsInit, Stores

(* Counting changes one counter and nothing else.                          *)
LEMMA CountedType ==
    ASSUME NEW E, NEW M, NEW diags \in Stores(E, M), NEW severity
    PROVE  /\ Counted(diags, severity) \in Stores(E, M)
           /\ Counted(diags, severity).entries = diags.entries
           /\ Counted(diags, severity).cap = diags.cap
           /\ Counted(diags, severity).max = diags.max
           /\ Counted(diags, severity).nerrs =
                diags.nerrs + (IF severity = "warning" THEN 0 ELSE 1)
           /\ Counted(diags, severity).nwarnings =
                diags.nwarnings + (IF severity = "warning" THEN 1 ELSE 0)
<1>1. CASE severity = "warning"
  BY <1>1 DEF Counted, Stores
<1>2. CASE severity # "warning"
  BY <1>2 DEF Counted, Stores
<1> QED
  BY <1>1, <1>2

(* The next capacity is a number.                                          *)
LEMMA GrownCapType ==
    ASSUME NEW E, NEW M, M \subseteq Nat, NEW diags \in Stores(E, M)
    PROVE  GrownCap(diags) \in Nat
<1>1. diags.cap \in Nat /\ diags.max \in Nat
  BY DEF Stores
<1>2. DIAGS_INITIAL_CAP \in Nat
  BY InitialCapAssumption
<1> QED
  BY <1>1, <1>2 DEF GrownCap

(* A push keeps a store a store, with the same max, and bumps the one      *)
(* counter of its severity.                                                *)
LEMMA DiagsPushType ==
    ASSUME NEW E, NEW M, M \subseteq Nat,
           NEW diags \in Stores(E, M), NEW entry \in E
    PROVE  /\ DiagsPushImpl(diags, entry) \in Stores(E, M)
           /\ DiagsPushImpl(diags, entry).max = diags.max
           /\ DiagsPushImpl(diags, entry).nerrs =
                diags.nerrs + (IF entry.severity = "warning" THEN 0 ELSE 1)
           /\ DiagsPushImpl(diags, entry).nwarnings =
                diags.nwarnings + (IF entry.severity = "warning" THEN 1 ELSE 0)
<1> DEFINE counted == Counted(diags, entry.severity)
<1>1. /\ counted \in Stores(E, M)
      /\ counted.entries = diags.entries /\ counted.cap = diags.cap
      /\ counted.max = diags.max
      /\ counted.nerrs = diags.nerrs + (IF entry.severity = "warning" THEN 0 ELSE 1)
      /\ counted.nwarnings = diags.nwarnings + (IF entry.severity = "warning" THEN 1 ELSE 0)
  BY CountedType
<1> HIDE DEF counted
<1>2. GrownCap(counted) \in Nat
  BY <1>1, GrownCapType
<1>3. Append(counted.entries, entry) \in Seq(E)
  BY <1>1 DEF Stores
<1>4. /\ Stored(counted, entry) \in Stores(E, M)
      /\ Stored(counted, entry).max = counted.max
      /\ Stored(counted, entry).nerrs = counted.nerrs
      /\ Stored(counted, entry).nwarnings = counted.nwarnings
  BY <1>1, <1>2, <1>3 DEF Stored, Stores
<1> QED
  BY <1>1, <1>4 DEF DiagsPushImpl, counted

(* What a push does to entries and cap: nothing at capacity, otherwise the *)
(* entry goes to the end.                                                  *)
LEMMA DiagsPushEntries ==
    ASSUME NEW E, NEW M, M \subseteq Nat,
           NEW diags \in Stores(E, M), NEW entry \in E
    PROVE  LET pushed == DiagsPushImpl(diags, entry) IN
           IF AtCapacity(diags)
           THEN pushed.entries = diags.entries /\ pushed.cap = diags.cap
           ELSE /\ pushed.entries = Append(diags.entries, entry)
                /\ pushed.cap = IF Len(diags.entries) = diags.cap THEN GrownCap(diags)
                                                                  ELSE diags.cap
<1> DEFINE counted == Counted(diags, entry.severity)
<1>1. /\ counted \in Stores(E, M)
      /\ counted.entries = diags.entries /\ counted.cap = diags.cap
      /\ counted.max = diags.max
  BY CountedType
<1> HIDE DEF counted
<1>2. GrownCap(counted) = GrownCap(diags)
  BY <1>1 DEF GrownCap
<1>3. /\ Stored(counted, entry).entries = Append(diags.entries, entry)
      /\ Stored(counted, entry).cap =
           IF Len(diags.entries) = diags.cap THEN GrownCap(diags) ELSE diags.cap
  BY <1>1, <1>2 DEF Stored, Stores
<1> QED
  BY <1>1, <1>3 DEF DiagsPushImpl, counted

(* Growing makes room for one more entry and stays within max.             *)
LEMMA GrownCapFits ==
    ASSUME NEW E, NEW M, M \subseteq Nat, NEW diags \in Stores(E, M),
           ~ AtCapacity(diags), Len(diags.entries) = diags.cap
    PROVE  /\ GrownCap(diags) \in Nat
           /\ GrownCap(diags) > diags.cap
           /\ diags.max > 0 => GrownCap(diags) <= diags.max
<1>1. diags.cap \in Nat /\ diags.max \in Nat /\ Len(diags.entries) \in Nat
  BY DEF Stores
<1>2. DIAGS_INITIAL_CAP \in Nat /\ DIAGS_INITIAL_CAP > 0
  BY InitialCapAssumption
<1>3. diags.max > 0 => diags.cap < diags.max
  BY <1>1 DEF AtCapacity
<1>4. CASE diags.cap = 0
  BY <1>1, <1>2, <1>3, <1>4 DEF GrownCap
<1>5. CASE diags.cap # 0
  BY <1>1, <1>2, <1>3, <1>5 DEF GrownCap
<1> QED
  BY <1>4, <1>5
=============================================================================
