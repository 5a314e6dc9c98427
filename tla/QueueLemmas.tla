----------------------------- MODULE QueueLemmas -----------------------------
(***************************************************************************)
(* Facts about the queues of distinct ids that several models use (the     *)
(* idle queue of the arrival-rate coordinator, the waiters of the in-flight*)
(* semaphore and of the lifecycle lock).                                   *)
(***************************************************************************)
EXTENDS Waiters, FiniteSetTheorems, TLAPS

\* v is somewhere in the queue s.
In(s, v) == \E i \in 1..Len(s) : s[i] = v

\* No id is in the queue s twice.
Distinct(s) == \A i, j \in 1..Len(s) : s[i] = s[j] => i = j

\* Sending an id that is not in a queue keeps its ids distinct.
LEMMA AppendFacts ==
  ASSUME NEW S, NEW s \in Seq(S), NEW x \in S, Distinct(s), ~In(s, x)
  PROVE  /\ Append(s, x) \in Seq(S) /\ Distinct(Append(s, x))
         /\ \A v \in S : In(Append(s, x), v) <=> In(s, v) \/ v = x
<1>1. /\ Append(s, x) \in Seq(S) /\ Len(s) \in Nat /\ Len(Append(s, x)) = Len(s) + 1
      /\ Append(s, x)[Len(s) + 1] = x
      /\ \A i \in 1..Len(s) : Append(s, x)[i] = s[i]
  OBVIOUS
<1>2. Distinct(Append(s, x))
  BY <1>1 DEF Distinct, In
<1>3. ASSUME NEW v \in S PROVE In(Append(s, x), v) <=> In(s, v) \/ v = x
  BY <1>1 DEF In
<1> QED
  BY <1>1, <1>2, <1>3

\* Receiving from a queue of distinct ids removes the head and nothing else.
LEMMA TailFacts ==
  ASSUME NEW S, NEW s \in Seq(S), s # <<>>, Distinct(s)
  PROVE  /\ Tail(s) \in Seq(S) /\ Distinct(Tail(s))
         /\ Head(s) \in S /\ In(s, Head(s))
         /\ \A v \in S : In(Tail(s), v) <=> In(s, v) /\ v # Head(s)
<1>1. /\ Tail(s) \in Seq(S) /\ Len(s) \in Nat \ {0} /\ Len(Tail(s)) = Len(s) - 1
      /\ Head(s) = s[1] /\ Head(s) \in S
      /\ \A i \in 1..Len(s) - 1 : Tail(s)[i] = s[i + 1]
  OBVIOUS
<1>2. Distinct(Tail(s))
  BY <1>1 DEF Distinct
<1>3. In(s, Head(s))
  BY <1>1 DEF In
<1>4. ASSUME NEW v \in S PROVE In(Tail(s), v) <=> In(s, v) /\ v # Head(s)
  <2>1. In(Tail(s), v) => In(s, v) /\ v # Head(s)
    BY <1>1 DEF In, Distinct
  <2>2. ASSUME In(s, v), v # Head(s) PROVE In(Tail(s), v)
    <3>1. PICK i \in 1..Len(s) : s[i] = v
      BY <2>2 DEF In
    <3>2. i - 1 \in 1..Len(Tail(s)) /\ Tail(s)[i - 1] = v
      BY <1>1, <2>2, <3>1
    <3> QED
      BY <3>2 DEF In
  <2> QED
    BY <2>1, <2>2
<1> QED
  BY <1>1, <1>2, <1>3, <1>4

\* Dropping a waiting future takes it, and nothing else, out of the queue.
LEMMA WithoutFacts ==
  ASSUME NEW S, NEW s \in Seq(S), NEW x \in S, Distinct(s), In(s, x)
  PROVE  /\ Without(s, x) \in Seq(S) /\ Distinct(Without(s, x))
         /\ \A v \in S : In(Without(s, x), v) <=> In(s, v) /\ v # x
         /\ Head(s) # x => Without(s, x) # <<>> /\ Head(Without(s, x)) = Head(s)
<1> DEFINE p == CHOOSE i \in 1..Len(s) : s[i] = x
<1>1. p \in 1..Len(s) /\ s[p] = x
  BY DEF In
<1>2. Len(s) \in Nat /\ \A i \in 1..Len(s) : s[i] \in S
  OBVIOUS
<1>w. Without(s, x) = [i \in 1..Len(s) - 1 |-> IF i < p THEN s[i] ELSE s[i + 1]]
  BY DEF Without
<1> HIDE DEF p
<1>3. Without(s, x) \in Seq(S) /\ Len(Without(s, x)) = Len(s) - 1
  <2>1. Len(s) - 1 \in Nat
    BY <1>1, <1>2
  <2>2. \A i \in 1..Len(s) - 1 : (IF i < p THEN s[i] ELSE s[i + 1]) \in S
    BY <1>1, <1>2
  <2> QED
    BY <1>w, <2>1, <2>2
<1>4. \A i \in 1..Len(s) - 1 : Without(s, x)[i] = IF i < p THEN s[i] ELSE s[i + 1]
  BY <1>w
<1>5. Distinct(Without(s, x))
  BY <1>1, <1>2, <1>3, <1>4 DEF Distinct
<1>6. ASSUME NEW v \in S PROVE In(Without(s, x), v) <=> In(s, v) /\ v # x
  <2>1. ASSUME In(Without(s, x), v) PROVE In(s, v) /\ v # x
    <3>1. PICK i \in 1..Len(s) - 1 : Without(s, x)[i] = v
      BY <1>3, <2>1 DEF In
    <3>2. CASE i < p
      BY <1>1, <1>2, <1>4, <3>1, <3>2 DEF In, Distinct
    <3>3. CASE ~(i < p)
      BY <1>1, <1>2, <1>4, <3>1, <3>3 DEF In, Distinct
    <3> QED
      BY <3>2, <3>3
  <2>2. ASSUME In(s, v), v # x PROVE In(Without(s, x), v)
    <3>1. PICK i \in 1..Len(s) : s[i] = v
      BY <2>2 DEF In
    <3>2. CASE i < p
      BY <1>1, <1>2, <1>3, <1>4, <3>1, <3>2 DEF In
    <3>3. CASE i > p
      <4>1. i - 1 \in 1..Len(s) - 1 /\ Without(s, x)[i - 1] = v
        BY <1>1, <1>2, <1>4, <3>1, <3>3
      <4> QED
        BY <1>3, <4>1 DEF In
    <3> QED
      BY <1>1, <1>2, <2>2, <3>1, <3>2, <3>3
  <2> QED
    BY <2>1, <2>2
<1>7. ASSUME Head(s) # x PROVE Without(s, x) # <<>> /\ Head(Without(s, x)) = Head(s)
  <2>1. p # 1 /\ Len(s) - 1 \in Nat \ {0} /\ Head(s) = s[1]
    BY <1>1, <1>2, <1>7
  <2>2. Without(s, x)[1] = s[1]
    BY <1>1, <1>4, <2>1
  <2> QED
    BY <1>3, <2>1, <2>2
<1> QED
  BY <1>3, <1>5, <1>6, <1>7

\* Queueing behind others leaves the head where it is.
LEMMA AppendHead ==
  ASSUME NEW S, NEW s \in Seq(S), NEW x \in S, s # <<>>
  PROVE  Append(s, x) # <<>> /\ Head(Append(s, x)) = Head(s)
  OBVIOUS

-----------------------------------------------------------------------------
(* How often a value is in a queue.                                        *)

Places(s, v) == {i \in 1..Len(s) : s[i] = v}
Occurs(s, v) == Cardinality(Places(s, v))

\* A queue has finitely many places.
LEMMA PlacesFinite ==
  ASSUME NEW S, NEW s \in Seq(S), NEW v
  PROVE  IsFiniteSet(Places(s, v)) /\ Occurs(s, v) \in Nat
<1>1. IsFiniteSet(1..Len(s))
  BY FS_Interval
<1>2. IsFiniteSet(Places(s, v))
  BY <1>1, FS_Subset DEF Places
<1> QED
  BY <1>2, FS_CardinalityType DEF Occurs

\* A set of places keeps its size when it is moved.
LEMMA ShiftedSize ==
  ASSUME NEW A \in SUBSET Int, IsFiniteSet(A), NEW n \in Int
  PROVE  IsFiniteSet({i + n : i \in A}) /\ Cardinality({i + n : i \in A}) = Cardinality(A)
<1> DEFINE B == {i + n : i \in A}
           f == [i \in A |-> i + n]
<1>1. f \in Bijection(A, B)
  BY DEF Bijection, Injection, Surjection, IsInjective
<1>2. ExistsBijection(A, B)
  BY <1>1 DEF ExistsBijection
<1> QED
  BY <1>2, FS_Bijection

\* Joining two queues adds up what they hold.
LEMMA OccursConcat ==
  ASSUME NEW S, NEW s \in Seq(S), NEW t \in Seq(S), NEW v
  PROVE  Occurs(s \o t, v) = Occurs(s, v) + Occurs(t, v)
<1> DEFINE A == Places(s, v)
           B == Places(t, v)
           C == {i + Len(s) : i \in B}
<1>1. /\ s \o t \in Seq(S) /\ Len(s) \in Nat /\ Len(t) \in Nat /\ Len(s \o t) = Len(s) + Len(t)
      /\ \A i \in 1..Len(s) : (s \o t)[i] = s[i]
      /\ \A i \in 1..Len(t) : (s \o t)[i + Len(s)] = t[i]
  OBVIOUS
<1>2. Places(s \o t, v) = A \cup C
  <2>1. ASSUME NEW i \in Places(s \o t, v) PROVE i \in A \cup C
    <3>1. i \in 1..Len(s) + Len(t) /\ (s \o t)[i] = v
      BY <1>1, <2>1 DEF Places
    <3>2. CASE i <= Len(s)
      BY <1>1, <3>1, <3>2 DEF Places
    <3>3. CASE i > Len(s)
      <4>1. i - Len(s) \in 1..Len(t) /\ i = (i - Len(s)) + Len(s)
        BY <1>1, <3>1, <3>3
      <4>2. t[i - Len(s)] = v
        BY <1>1, <3>1, <4>1
      <4> QED
        BY <4>1, <4>2 DEF Places
    <3> QED
      BY <1>1, <3>1, <3>2, <3>3
  <2>2. ASSUME NEW i \in A PROVE i \in Places(s \o t, v)
    BY <1>1, <2>2 DEF Places
  <2>3. ASSUME NEW i \in C PROVE i \in Places(s \o t, v)
    BY <1>1, <2>3 DEF Places
  <2> QED
    BY <2>1, <2>2, <2>3
<1>3. A \cap C = {}
  BY <1>1 DEF Places
<1>4. /\ IsFiniteSet(A) /\ IsFiniteSet(B) /\ Cardinality(A) \in Nat /\ Cardinality(B) \in Nat
  BY PlacesFinite DEF Occurs
<1>b. B \in SUBSET Int
  BY DEF Places
<1>5. IsFiniteSet(C) /\ Cardinality(C) = Cardinality(B)
  <2>1. Len(s) \in Int
    BY <1>1
  <2> HIDE DEF B
  <2> QED
    BY <1>4, <1>b, <2>1, ShiftedSize
<1>6. Cardinality(A \cup C) = Cardinality(A) + Cardinality(C) - Cardinality(A \cap C)
  BY <1>4, <1>5, FS_Union
<1>7. Cardinality(A \cap C) = 0
  BY <1>3, FS_EmptySet
<1> QED
  BY <1>2, <1>4, <1>5, <1>6, <1>7 DEF Occurs

\* A queue of one.
LEMMA OccursOne ==
  ASSUME NEW x, NEW v
  PROVE  Occurs(<<x>>, v) = IF x = v THEN 1 ELSE 0
<1>1. x = v => Places(<<x>>, v) = {1}
  BY DEF Places
<1>2. x # v => Places(<<x>>, v) = {}
  BY DEF Places
<1> QED
  BY <1>1, <1>2, FS_EmptySet, FS_Singleton DEF Occurs

\* The empty queue.
LEMMA OccursEmpty ==
  ASSUME NEW v
  PROVE  Occurs(<<>>, v) = 0
<1>1. Places(<<>>, v) = {}
  BY DEF Places
<1> QED
  BY <1>1, FS_EmptySet DEF Occurs

\* Sending adds one occurrence of what is sent.
LEMMA OccursAppend ==
  ASSUME NEW S, NEW s \in Seq(S), NEW x \in S, NEW v
  PROVE  Occurs(Append(s, x), v) = Occurs(s, v) + (IF x = v THEN 1 ELSE 0)
<1>1. Append(s, x) = s \o <<x>> /\ <<x>> \in Seq(S)
  OBVIOUS
<1>2. Occurs(s \o <<x>>, v) = Occurs(s, v) + Occurs(<<x>>, v)
  BY <1>1, OccursConcat
<1>3. Occurs(<<x>>, v) = IF x = v THEN 1 ELSE 0
  BY OccursOne
<1>4. Occurs(Append(s, x), v) = Occurs(s \o <<x>>, v)
  BY <1>1
<1> QED
  BY <1>2, <1>3, <1>4

\* Receiving takes one occurrence of the head away.
LEMMA OccursTail ==
  ASSUME NEW S, NEW s \in Seq(S), s # <<>>, NEW v
  PROVE  Occurs(s, v) = Occurs(Tail(s), v) + (IF Head(s) = v THEN 1 ELSE 0)
<1>1. /\ s = <<Head(s)>> \o Tail(s) /\ <<Head(s)>> \in Seq(S) /\ Tail(s) \in Seq(S)
  OBVIOUS
<1>2. Occurs(<<Head(s)>> \o Tail(s), v) = Occurs(<<Head(s)>>, v) + Occurs(Tail(s), v)
  BY <1>1, OccursConcat
<1>3. Occurs(<<Head(s)>>, v) = IF Head(s) = v THEN 1 ELSE 0
  BY OccursOne
<1>4. Occurs(Tail(s), v) \in Nat
  BY <1>1, PlacesFinite
<1>5. Occurs(s, v) = Occurs(<<Head(s)>> \o Tail(s), v)
  BY <1>1
<1> QED
  BY <1>2, <1>3, <1>4, <1>5

-----------------------------------------------------------------------------
(* What is in a queue, of whatever ids.                                     *)

\* What a queue holds after another was joined to it.
LEMMA InConcat ==
  ASSUME NEW S, NEW s \in Seq(S), NEW t \in Seq(S)
  PROVE  /\ s \o t \in Seq(S) /\ Len(s \o t) = Len(s) + Len(t)
         /\ \A i \in 1..Len(s) : (s \o t)[i] = s[i]
         /\ \A i \in 1..Len(t) : (s \o t)[Len(s) + i] = t[i]
         /\ \A v : In(s \o t, v) <=> In(s, v) \/ In(t, v)
<1>1. /\ s \o t \in Seq(S) /\ Len(s) \in Nat /\ Len(t) \in Nat /\ Len(s \o t) = Len(s) + Len(t)
      /\ \A i \in 1..Len(s) : (s \o t)[i] = s[i]
      /\ \A i \in 1..Len(t) : (s \o t)[Len(s) + i] = t[i]
  OBVIOUS
<1>2. ASSUME NEW v PROVE In(s \o t, v) <=> In(s, v) \/ In(t, v)
  <2>1. ASSUME In(s \o t, v) PROVE In(s, v) \/ In(t, v)
    <3>1. PICK i \in 1..Len(s) + Len(t) : (s \o t)[i] = v
      BY <1>1, <2>1 DEF In
    <3>2. CASE i <= Len(s)
      BY <1>1, <3>1, <3>2 DEF In
    <3>3. CASE i > Len(s)
      <4>1. i - Len(s) \in 1..Len(t) /\ Len(s) + (i - Len(s)) = i
        BY <1>1, <3>1, <3>3
      <4> QED
        BY <1>1, <3>1, <4>1 DEF In
    <3> QED
      BY <1>1, <3>1, <3>2, <3>3
  <2>2. ASSUME In(s, v) PROVE In(s \o t, v)
    BY <1>1, <2>2 DEF In
  <2>3. ASSUME In(t, v) PROVE In(s \o t, v)
    <3>1. PICK i \in 1..Len(t) : t[i] = v
      BY <2>3 DEF In
    <3>2. Len(s) + i \in 1..Len(s) + Len(t) /\ (s \o t)[Len(s) + i] = v
      BY <1>1, <3>1
    <3> QED
      BY <1>1, <3>2 DEF In
  <2> QED
    BY <2>1, <2>2, <2>3
<1> QED
  BY <1>1, <1>2

\* What a queue holds after an element was sent.
LEMMA InAppend ==
  ASSUME NEW S, NEW s \in Seq(S), NEW x \in S
  PROVE  Append(s, x) \in Seq(S) /\ \A v : In(Append(s, x), v) <=> In(s, v) \/ v = x
  BY DEF In

\* What a queue holds after its head was received.
LEMMA InTail ==
  ASSUME NEW S, NEW s \in Seq(S), s # <<>>
  PROVE  /\ Tail(s) \in Seq(S) /\ Head(s) \in S /\ In(s, Head(s))
         /\ \A v : In(Tail(s), v) => In(s, v)
  BY DEF In
==============================================================================
