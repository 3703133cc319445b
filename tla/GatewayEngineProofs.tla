------------------------- MODULE GatewayEngineProofs -------------------------
(***************************************************************************)
(* What holds of the calls of the gateway engine for every set of targets, *)
(* bindings, clients and limits: the inductive invariant of a call between *)
(* its steps, and the properties of what calls return that follow from it. *)
(*                                                                         *)
(* The invariant says of a call under way                                  *)
(*   - where it stands (Located): which bindings of the current target are *)
(*     left,                                                               *)
(*   - what the state being read is (Building): the first bindings of the  *)
(*     target, summed up, and nothing ahead of the logs,                   *)
(*   - that an ack or a snapshot is covered by what is read after it       *)
(*     (AckHeld, SnapshotHeld),                                            *)
(*   - which results and rejections there are (CatchingUp, Reported).      *)
(*                                                                         *)
(* The first part is about data: counting in sequences, FlattenSeq, and    *)
(* the minimum and maximum of sets, by induction over the sets of numbers  *)
(* they hold for.                                                          *)
(***************************************************************************)
EXTENDS GatewayEngine, FiniteSetTheorems, SequenceTheorems, WellFoundedInduction, TLAPS

-----------------------------------------------------------------------------
(* Induction over the natural numbers, for a set of them.                  *)
LEMMA SetInduction ==
    ASSUME NEW T \in SUBSET Nat, 0 \in T, \A n \in T : n + 1 \in T
    PROVE  T = Nat
  <1> DEFINE R == {p \in Nat \X Nat : p[1] < p[2]}
             U == Nat \ T
  <1>1. SUFFICES ASSUME U # {} PROVE FALSE
    OBVIOUS
  <1>2. IsWellFoundedOn(R, Nat)
    BY NatLessThanWellFounded, SMT DEF OpToRel
  <1>3. \A x, y \in Nat : <<x, y>> \in R <=> x < y
    OBVIOUS
  <1>4. U \subseteq Nat
    OBVIOUS
  <1> HIDE DEF R, U
  <1>5. PICK x \in U : \A y \in U : <<y, x>> \notin R
    BY <1>1, <1>2, <1>4, WFMin
  <1> USE DEF U
  <1>6. x \in Nat /\ x # 0
    BY <1>5
  <1>7. x - 1 \in Nat /\ x - 1 < x /\ (x - 1) + 1 = x
    BY <1>6
  <1>8. x - 1 \notin U
    BY <1>3, <1>5, <1>6, <1>7
  <1> QED BY <1>5, <1>6, <1>7, <1>8

(* A set of numbers below a bound has a greatest one, and Max is it.       *)
LEMMA MaxOfBounded ==
    ASSUME NEW S \in SUBSET Nat, S # {}, NEW n \in Nat, \A x \in S : x <= n
    PROVE  Max(S) \in S /\ \A x \in S : x <= Max(S)
  <1> DEFINE HasMax(U) == \E x \in U : \A y \in U : x >= y
             T == {m \in Nat : \A U \in SUBSET S : (U # {} /\ \A x \in U : x <= m) => HasMax(U)}
  <1>1. 0 \in T
    <2>1. ASSUME NEW U \in SUBSET S, U # {}, \A x \in U : x <= 0
          PROVE  HasMax(U)
      <3>1. PICK x : x \in U
        BY <2>1
      <3>2. \A y \in U : y = 0
        BY <2>1
      <3> QED BY <3>1, <3>2
    <2> QED BY <2>1
  <1>2. ASSUME NEW m \in T PROVE m + 1 \in T
    <2>1. ASSUME NEW U \in SUBSET S, U # {}, \A x \in U : x <= m + 1
          PROVE  HasMax(U)
      <3>1. CASE m + 1 \in U
        BY <2>1, <3>1
      <3>2. CASE m + 1 \notin U
        <4>1. \A x \in U : x <= m
          BY <2>1, <3>2
        <4> QED BY <4>1, <2>1
      <3> QED BY <3>1, <3>2
    <2> QED BY <2>1
  <1>3. T = Nat
    <2>1. T \in SUBSET Nat
      OBVIOUS
    <2> HIDE DEF T
    <2> QED BY <1>1, <1>2, <2>1, SetInduction
  <1>4. HasMax(S)
    BY <1>3
  <1> QED BY <1>4 DEF Max

-----------------------------------------------------------------------------
(* How often a value is in a sequence.                                     *)
Places(s, x) == {i \in 1..Len(s) : s[i] = x}
CountIn(s, x) == Cardinality(Places(s, x))

(* A value is in a sequence a number of times.                             *)
LEMMA PlacesFinite ==
    ASSUME NEW V, NEW s \in Seq(V), NEW x
    PROVE  IsFiniteSet(Places(s, x)) /\ CountIn(s, x) \in Nat
  <1>1. Len(s) \in Nat
    BY LenProperties
  <1>2. IsFiniteSet(1..Len(s))
    BY <1>1, FS_Interval
  <1>3. IsFiniteSet(Places(s, x))
    BY <1>2, FS_Subset DEF Places
  <1> QED BY <1>3, FS_CardinalityType DEF CountIn

(* Concatenation adds the counts.                                          *)
LEMMA CountOfConcat ==
    ASSUME NEW V, NEW s \in Seq(V), NEW t \in Seq(V), NEW x
    PROVE  CountIn(s \o t, x) = CountIn(s, x) + CountIn(t, x)
  <1> DEFINE A == Places(s, x)
             B == Places(t, x)
             C == {i \in 1..(Len(s) + Len(t)) : i > Len(s) /\ t[i - Len(s)] = x}
             f == [i \in B |-> i + Len(s)]
  <1>1. /\ Len(s) \in Nat /\ Len(t) \in Nat /\ Len(s \o t) = Len(s) + Len(t)
        /\ \A i \in 1 .. Len(s) + Len(t) : (s \o t)[i] =
                     IF i <= Len(s) THEN s[i] ELSE t[i - Len(s)]
    BY LenProperties, ConcatProperties
  <1>2. Places(s \o t, x) = A \cup C
    BY <1>1 DEF Places
  <1>3. A \cap C = {}
    BY <1>1 DEF Places
  <1>4. f \in Bijection(B, C)
    <2>1. f \in [B -> C]
      BY <1>1 DEF Places
    <2>2. \A i, j \in B : f[i] = f[j] => i = j
      BY <1>1 DEF Places
    <2>3. \A c \in C : \E i \in B : f[i] = c
      <3> TAKE c \in C
      <3>1. c - Len(s) \in B /\ f[c - Len(s)] = c
        BY <1>1 DEF Places
      <3> QED BY <3>1
    <2> HIDE DEF B, C, f
    <2> QED BY <2>1, <2>2, <2>3 DEF Bijection, Injection, Surjection, IsInjective
  <1>5. IsFiniteSet(A) /\ IsFiniteSet(B) /\ Cardinality(A) \in Nat /\ Cardinality(B) \in Nat
    BY PlacesFinite DEF CountIn
  <1> HIDE DEF A, B, C, f
  <1>6. IsFiniteSet(C) /\ Cardinality(C) = Cardinality(B)
    BY <1>4, <1>5, FS_Bijection DEF ExistsBijection
  <1>7. Cardinality(A \cup C) = Cardinality(A) + Cardinality(C) - Cardinality(A \cap C)
    BY <1>5, <1>6, FS_Union
  <1>8. Cardinality(A \cap C) = 0
    BY <1>3, FS_EmptySet
  <1>9. Cardinality(A \cup C) = Cardinality(A) + Cardinality(B)
    BY <1>5, <1>6, <1>7, <1>8
  <1> QED BY <1>2, <1>9 DEF CountIn, A, B

(* A sequence of one value has it once.                                    *)
LEMMA CountOfOne ==
    ASSUME NEW y, NEW x
    PROVE  CountIn(<<y>>, x) = IF y = x THEN 1 ELSE 0
  <1>1. Places(<<y>>, x) = IF y = x THEN {1} ELSE {}
    BY DEF Places
  <1> QED BY <1>1, FS_EmptySet, FS_Singleton DEF CountIn

(* Appending a value counts it once more.                                  *)
LEMMA CountOfAppend ==
    ASSUME NEW V, NEW s \in Seq(V), NEW y \in V, NEW x
    PROVE  CountIn(Append(s, y), x) = CountIn(s, x) + (IF y = x THEN 1 ELSE 0)
  <1>1. Append(s, y) = s \o <<y>> /\ <<y>> \in Seq(V)
    BY AppendIsConcat
  <1>2. CountIn(s \o <<y>>, x) = CountIn(s, x) + CountIn(<<y>>, x)
    BY <1>1, CountOfConcat
  <1>3. CountIn(<<y>>, x) = IF y = x THEN 1 ELSE 0
    BY CountOfOne
  <1> QED BY <1>1, <1>2, <1>3

(* Taking the first value off counts it once less.                         *)
LEMMA CountOfTail ==
    ASSUME NEW V, NEW s \in Seq(V), s # <<>>, NEW x
    PROVE  CountIn(s, x) = (IF s[1] = x THEN 1 ELSE 0) + CountIn(Tail(s), x)
  <1>1. /\ s[1] \in V /\ Tail(s) \in Seq(V) /\ Len(Tail(s)) = Len(s) - 1 /\ Len(s) \in Nat \ {0}
        /\ \A i \in 1 .. Len(Tail(s)) : Tail(s)[i] = s[i+1]
    BY HeadTailProperties, EmptySeq, ElementOfSeq
  <1>2. <<s[1]>> \in Seq(V)
    BY <1>1
  <1>3. s = <<s[1]>> \o Tail(s)
    <2> DEFINE u == <<s[1]>> \o Tail(s)
    <2>1. /\ u \in Seq(V) /\ Len(u) = 1 + Len(Tail(s))
          /\ \A i \in 1 .. (1 + Len(Tail(s))) :
                u[i] = IF i <= 1 THEN s[1] ELSE Tail(s)[i - 1]
      <3>1. Len(<<s[1]>>) = 1 /\ <<s[1]>>[1] = s[1]
        OBVIOUS
      <3> QED BY <1>1, <1>2, <3>1, ConcatProperties
    <2> HIDE DEF u
    <2>2. Len(s) = Len(u) /\ \A i \in 1..Len(s) : s[i] = u[i]
      BY <1>1, <2>1
    <2>3. s = u
      BY <2>1, <2>2, SeqEqual
    <2> QED BY <2>3 DEF u
  <1>4. CountIn(<<s[1]>> \o Tail(s), x) = CountIn(<<s[1]>>, x) + CountIn(Tail(s), x)
    BY <1>1, <1>2, CountOfConcat
  <1> QED BY <1>3, <1>4, CountOfOne

-----------------------------------------------------------------------------
(* Flattening is what its recursion says, one sequence after the other.    *)
FlattenUpTo(seqs, n, f) ==
    f = [i \in 1..n |-> IF i = 1 THEN seqs[i] ELSE f[i - 1] \o seqs[i]]

(* For every length there is a function that flattens so far.              *)
LEMMA FlattenDefined ==
    ASSUME NEW seqs, NEW n \in Nat
    PROVE  \E f : FlattenUpTo(seqs, n, f)
  <1> DEFINE T == {m \in Nat : \E f : FlattenUpTo(seqs, m, f)}
  <1>1. 0 \in T
    <2>1. FlattenUpTo(seqs, 0, [i \in {} |-> 0])
      BY DEF FlattenUpTo
    <2> QED BY <2>1
  <1>2. ASSUME NEW m \in T PROVE m + 1 \in T
    <2>1. PICK f : FlattenUpTo(seqs, m, f)
      OBVIOUS
    <2> DEFINE g == [i \in 1..(m + 1) |->
                        IF i <= m THEN f[i] ELSE IF i = 1 THEN seqs[i] ELSE f[i - 1] \o seqs[i]]
    <2>2. \A i \in 1..m : f[i] = IF i = 1 THEN seqs[i] ELSE f[i - 1] \o seqs[i]
      BY <2>1 DEF FlattenUpTo
    <2>3. \A i \in 1..(m + 1) : g[i] = IF i = 1 THEN seqs[i] ELSE g[i - 1] \o seqs[i]
      <3> TAKE i \in 1..(m + 1)
      <3>1. CASE i <= m
        BY <2>2, <3>1
      <3>2. CASE i = m + 1
        BY <2>2, <3>2
      <3> QED BY <3>1, <3>2
    <2>4. FlattenUpTo(seqs, m + 1, g)
      BY <2>3, Zenon DEF FlattenUpTo
    <2> QED BY <2>4
  <1>3. T = Nat
    <2>1. T \in SUBSET Nat
      OBVIOUS
    <2> HIDE DEF T
    <2> QED BY <1>1, <1>2, <2>1, SetInduction
  <1> QED BY <1>3

(* Flattenings of two sequences agree as far as the sequences do.          *)
LEMMA FlattenUnique ==
    ASSUME NEW s, NEW t, NEW m \in Nat, NEW n \in Nat, m <= n, \A i \in 1..m : s[i] = t[i],
           NEW f, FlattenUpTo(s, m, f), NEW g, FlattenUpTo(t, n, g)
    PROVE  \A i \in 1..m : f[i] = g[i]
  <1>1. /\ \A i \in 1..m : f[i] = IF i = 1 THEN s[i] ELSE f[i - 1] \o s[i]
        /\ \A i \in 1..n : g[i] = IF i = 1 THEN t[i] ELSE g[i - 1] \o t[i]
    BY DEF FlattenUpTo
  <1> DEFINE T == {k \in Nat : k \in 1..m => f[k] = g[k]}
  <1>2. 0 \in T
    OBVIOUS
  <1>3. ASSUME NEW k \in T PROVE k + 1 \in T
    <2>1. SUFFICES ASSUME k + 1 \in 1..m PROVE f[k + 1] = g[k + 1]
      OBVIOUS
    <2>2. k + 1 \in 1..n /\ s[k + 1] = t[k + 1]
      BY <2>1
    <2>3. CASE k = 0
      BY <1>1, <2>1, <2>2, <2>3
    <2>4. CASE k # 0
      <3>1. k \in 1..m /\ f[k] = g[k] /\ (k + 1) - 1 = k /\ k + 1 # 1
        BY <2>1, <2>4
      <3> QED BY <1>1, <2>1, <2>2, <3>1
    <2> QED BY <2>3, <2>4
  <1>4. T = Nat
    <2>1. T \in SUBSET Nat
      OBVIOUS
    <2> HIDE DEF T
    <2> QED BY <1>2, <1>3, <2>1, SetInduction
  <1> QED BY <1>4

(* FlattenSeq is the last value of such a function.                        *)
LEMMA FlattenOf ==
    ASSUME NEW V, NEW s \in Seq(V), s # <<>>
    PROVE  \E f : FlattenUpTo(s, Len(s), f) /\ FlattenSeq(s) = f[Len(s)]
  <1>1. Len(s) \in Nat \ {0}
    BY EmptySeq
  <1>2. \E f : FlattenUpTo(s, Len(s), f)
    BY <1>1, FlattenDefined
  <1> QED BY <1>1, <1>2 DEF FlattenSeq, FlattenUpTo

(* What is appended comes last when flattened.                             *)
LEMMA FlattenOfAppend ==
    ASSUME NEW V, NEW s \in Seq(V), NEW x \in V
    PROVE  FlattenSeq(Append(s, x)) = IF s = <<>> THEN x ELSE FlattenSeq(s) \o x
  <1> DEFINE t == Append(s, x)
             n == Len(s)
  <1>1. /\ t \in Seq(V) /\ t # <<>> /\ Len(t) = n + 1 /\ n \in Nat
        /\ \A i \in 1..n : t[i] = s[i]
        /\ t[n + 1] = x
    BY AppendProperties, LenProperties
  <1> HIDE DEF t
  <1>2. PICK g : FlattenUpTo(t, n + 1, g) /\ FlattenSeq(t) = g[n + 1]
    BY <1>1, FlattenOf
  <1>3. g[n + 1] = IF n + 1 = 1 THEN t[n + 1] ELSE g[(n + 1) - 1] \o t[n + 1]
    <2>1. \A i \in 1..(n + 1) : g[i] = IF i = 1 THEN t[i] ELSE g[i - 1] \o t[i]
      BY <1>2 DEF FlattenUpTo
    <2>2. n + 1 \in 1..(n + 1)
      BY <1>1
    <2> HIDE DEF n
    <2> QED BY <2>1, <2>2
  <1>4. CASE s = <<>>
    BY <1>1, <1>2, <1>3, <1>4 DEF t
  <1>5. CASE s # <<>>
    <2>1. PICK f : FlattenUpTo(s, n, f) /\ FlattenSeq(s) = f[n]
      BY <1>5, FlattenOf
    <2>2. n \in Nat \ {0} /\ n <= n + 1 /\ n \in 1..n /\ (n + 1) - 1 = n
      BY <1>5, EmptySeq
    <2>3. f[n] = g[n]
      <3> HIDE DEF n
      <3>0. n + 1 \in Nat /\ \A i \in 1..n : s[i] = t[i]
        BY <1>1
      <3>1. \A i \in 1..n : f[i] = g[i]
        BY <1>1, <1>2, <2>1, <2>2, <3>0, FlattenUnique
      <3> QED BY <2>2, <3>1
    <2> QED BY <1>1, <1>2, <1>3, <1>5, <2>1, <2>2, <2>3 DEF t
  <1> QED BY <1>4, <1>5

-----------------------------------------------------------------------------
(* A target state whose top-level numbers sum up the bindings it has so    *)
(* far: the least cursor, the greatest head, the least boundary that is    *)
(* set.                                                                    *)
Aggregated(st) ==
    /\ \A b \in Range(st.bindings) :
          /\ st.cursorSeq <= b.cursorSeq /\ b.headSeq <= st.headSeq
          /\ b.retainedSeqStart > 0 =>
                st.retainedSeqStart > 0 /\ st.retainedSeqStart <= b.retainedSeqStart
    /\ IF Range(st.bindings) = {} THEN st.cursorSeq = 0 /\ st.headSeq = 0
       ELSE /\ \E b \in Range(st.bindings) : b.cursorSeq = st.cursorSeq
            /\ \E b \in Range(st.bindings) : b.headSeq = st.headSeq
    /\ st.retainedSeqStart > 0 =>
          \E b \in Range(st.bindings) : b.retainedSeqStart = st.retainedSeqStart

(* The values of a sequence after an append.                               *)
LEMMA RangeOfAppend ==
    ASSUME NEW V, NEW s \in Seq(V), NEW x \in V
    PROVE  Range(Append(s, x)) = Range(s) \cup {x} /\ Range(s) \subseteq V
  <1>1. /\ DOMAIN s = 1..Len(s) /\ Len(s) \in Nat /\ \A i \in 1..Len(s) : s[i] \in V
        /\ Append(s, x) \in Seq(V) /\ Len(Append(s, x)) = Len(s) + 1
        /\ \A i \in 1..Len(s) : Append(s, x)[i] = s[i]
        /\ Append(s, x)[Len(s) + 1] = x
    BY AppendProperties, LenProperties, ElementOfSeq
  <1>2. DOMAIN Append(s, x) = 1..(Len(s) + 1)
    BY <1>1, LenProperties
  <1> DEFINE t == Append(s, x)
             n == Len(s)
  <1> HIDE DEF t, n
  <1>3. /\ n \in Nat /\ DOMAIN s = 1..n /\ DOMAIN t = 1..(n + 1) /\ t[n + 1] = x
        /\ \A i \in 1..n : t[i] = s[i] /\ s[i] \in V
    BY <1>1, <1>2 DEF t, n
  <1>4. Range(t) = Range(s) \cup {x} /\ Range(s) \subseteq V
    BY <1>3 DEF Range
  <1> QED BY <1>4 DEF t

(* Only the empty sequence has no values.                                  *)
LEMMA RangeEmpty ==
    ASSUME NEW V, NEW s \in Seq(V)
    PROVE  Range(s) = {} <=> s = <<>>
  <1>1. DOMAIN s = 1..Len(s) /\ Len(s) \in Nat /\ (s # <<>> => Len(s) \in Nat \ {0})
    BY LenProperties, EmptySeq
  <1>2. s # <<>> => s[1] \in Range(s)
    BY <1>1 DEF Range
  <1>3. s = <<>> => Range(s) = {}
    BY <1>1 DEF Range
  <1> QED BY <1>2, <1>3

(* A member that no other is below is the minimum.                         *)
LEMMA MinIs ==
    ASSUME NEW S \in SUBSET Nat, NEW m \in S, \A x \in S : m <= x
    PROVE  Min(S) = m
  <1>1. Min(S) \in S /\ \A x \in S : Min(S) <= x
    BY DEF Min
  <1> DEFINE a == Min(S)
  <1> HIDE DEF a
  <1>2. a \in Nat /\ m \in Nat /\ a <= m /\ m <= a
    BY <1>1 DEF a
  <1>3. a = m
    BY <1>2
  <1> QED BY <1>3 DEF a

(* A member that no other is above is the maximum.                         *)
LEMMA MaxIs ==
    ASSUME NEW S \in SUBSET Nat, NEW m \in S, \A x \in S : x <= m
    PROVE  Max(S) = m
  <1>1. Max(S) \in S /\ \A x \in S : Max(S) >= x
    BY DEF Max
  <1> DEFINE a == Max(S)
  <1> HIDE DEF a
  <1>2. a \in Nat /\ m \in Nat /\ a <= m /\ m <= a
    BY <1>1 DEF a
  <1>3. a = m
    BY <1>2
  <1> QED BY <1>3 DEF a

(* A target state begins with no binding.                                  *)
LEMMA NewStateFacts ==
    ASSUME NEW t \in SyncTarget
    PROVE  /\ NewState(t) \in TargetState /\ NewState(t).target = t
           /\ NewState(t).bindings = <<>> /\ Aggregated(NewState(t))
  <1>1. Range(<<>>) = {}
    BY DEF Range
  <1>2. <<>> \in Seq(TargetBindingState)
    OBVIOUS
  <1> QED BY <1>1, <1>2 DEF NewState, TargetState, Aggregated

(* One more binding keeps the sums up to date.                             *)
LEMMA AggregateFacts ==
    ASSUME NEW st \in TargetState, Aggregated(st), NEW b \in TargetBindingState
    PROVE  /\ Aggregate(st, b) \in TargetState /\ Aggregated(Aggregate(st, b))
           /\ Aggregate(st, b).target = st.target
           /\ Aggregate(st, b).bindings = Append(st.bindings, b)
  <1> DEFINE new == Aggregate(st, b)
             B == Range(st.bindings)
  <1>1. /\ st = [target |-> st.target, cursorSeq |-> st.cursorSeq, headSeq |-> st.headSeq,
                 retainedSeqStart |-> st.retainedSeqStart, bindings |-> st.bindings]
        /\ st.target \in SyncTarget /\ st.cursorSeq \in Nat /\ st.headSeq \in Nat
        /\ st.retainedSeqStart \in Nat /\ st.bindings \in Seq(TargetBindingState)
    BY DEF TargetState
  <1>2. b.cursorSeq \in Nat /\ b.headSeq \in Nat /\ b.retainedSeqStart \in Nat
    BY DEF TargetBindingState
  <1>3. /\ new.target = st.target /\ new.bindings = Append(st.bindings, b)
        /\ new.cursorSeq = IF st.bindings = <<>> \/ b.cursorSeq < st.cursorSeq
                           THEN b.cursorSeq ELSE st.cursorSeq
        /\ new.headSeq = IF b.headSeq > st.headSeq THEN b.headSeq ELSE st.headSeq
        /\ new.retainedSeqStart =
              IF b.retainedSeqStart > 0
                 /\ (st.retainedSeqStart = 0 \/ b.retainedSeqStart < st.retainedSeqStart)
              THEN b.retainedSeqStart ELSE st.retainedSeqStart
        /\ new = [target |-> new.target, cursorSeq |-> new.cursorSeq, headSeq |-> new.headSeq,
                  retainedSeqStart |-> new.retainedSeqStart, bindings |-> new.bindings]
    BY DEF Aggregate
  <1>4. Append(st.bindings, b) \in Seq(TargetBindingState)
    BY <1>1, AppendProperties
  <1>5. new.cursorSeq \in Nat /\ new.headSeq \in Nat /\ new.retainedSeqStart \in Nat
    BY <1>1, <1>2, <1>3
  <1> HIDE DEF new
  <1>6. new \in TargetState
    BY <1>1, <1>3, <1>4, <1>5 DEF TargetState
  <1>7. Range(new.bindings) = B \cup {b} /\ (B = {} <=> st.bindings = <<>>)
        /\ B \subseteq TargetBindingState
    BY <1>1, <1>3, RangeOfAppend, RangeEmpty
  <1>8. \A x \in B : x.cursorSeq \in Nat /\ x.headSeq \in Nat /\ x.retainedSeqStart \in Nat
    BY <1>7 DEF TargetBindingState
  <1>9. /\ \A x \in B : /\ st.cursorSeq <= x.cursorSeq /\ x.headSeq <= st.headSeq
                        /\ x.retainedSeqStart > 0 =>
                            st.retainedSeqStart > 0 /\ st.retainedSeqStart <= x.retainedSeqStart
        /\ IF B = {} THEN st.cursorSeq = 0 /\ st.headSeq = 0
           ELSE /\ \E x \in B : x.cursorSeq = st.cursorSeq
                /\ \E x \in B : x.headSeq = st.headSeq
        /\ st.retainedSeqStart > 0 => \E x \in B : x.retainedSeqStart = st.retainedSeqStart
    BY DEF Aggregated
  <1> HIDE DEF B
  <1>10. \A x \in B \cup {b} :
            /\ new.cursorSeq <= x.cursorSeq /\ x.headSeq <= new.headSeq
            /\ x.retainedSeqStart > 0 =>
                  new.retainedSeqStart > 0 /\ new.retainedSeqStart <= x.retainedSeqStart
    BY <1>1, <1>2, <1>3, <1>7, <1>8, <1>9
  <1>11. (\E x \in B \cup {b} : x.cursorSeq = new.cursorSeq)
         /\ (\E x \in B \cup {b} : x.headSeq = new.headSeq)
    BY <1>1, <1>2, <1>3, <1>7, <1>8, <1>9
  <1>12. new.retainedSeqStart > 0 =>
            \E x \in B \cup {b} : x.retainedSeqStart = new.retainedSeqStart
    BY <1>1, <1>2, <1>3, <1>9
  <1>13. Aggregated(new)
    BY <1>7, <1>10, <1>11, <1>12 DEF Aggregated
  <1> QED BY <1>3, <1>6, <1>13 DEF new

(* The sums are the minimum and the maximum over all bindings, which is    *)
(* what a reader of the state takes them for.                              *)
LEMMA AggregatedIsExact ==
    ASSUME NEW st \in TargetState, Aggregated(st), st.bindings # <<>>
    PROVE  LET boundaries == {b.retainedSeqStart : b \in Range(st.bindings)} \ {0}
           IN  /\ st.cursorSeq = Min({b.cursorSeq : b \in Range(st.bindings)})
               /\ st.headSeq = Max({b.headSeq : b \in Range(st.bindings)})
               /\ st.retainedSeqStart = IF boundaries = {} THEN 0 ELSE Min(boundaries)
  <1> DEFINE B == Range(st.bindings)
             C == {b.cursorSeq : b \in B}
             H == {b.headSeq : b \in B}
             R == {b.retainedSeqStart : b \in B} \ {0}
  <1>1. /\ st.cursorSeq \in Nat /\ st.headSeq \in Nat /\ st.retainedSeqStart \in Nat
        /\ st.bindings \in Seq(TargetBindingState)
    BY DEF TargetState
  <1>2. B # {} /\ B \subseteq TargetBindingState
    <2>1. B \in SUBSET TargetBindingState
      BY <1>1, RangeOfSeq
    <2> QED BY <1>1, <2>1, RangeEmpty
  <1>3. \A x \in B : x.cursorSeq \in Nat /\ x.headSeq \in Nat /\ x.retainedSeqStart \in Nat
    BY <1>2 DEF TargetBindingState
  <1>4. /\ \A x \in B : /\ st.cursorSeq <= x.cursorSeq /\ x.headSeq <= st.headSeq
                        /\ x.retainedSeqStart > 0 =>
                            st.retainedSeqStart > 0 /\ st.retainedSeqStart <= x.retainedSeqStart
        /\ \E x \in B : x.cursorSeq = st.cursorSeq
        /\ \E x \in B : x.headSeq = st.headSeq
        /\ st.retainedSeqStart > 0 => \E x \in B : x.retainedSeqStart = st.retainedSeqStart
    BY <1>2 DEF Aggregated
  <1> HIDE DEF B
  <1>5. C \subseteq Nat /\ H \subseteq Nat /\ R \subseteq Nat /\ \A r \in R : r > 0
    BY <1>3
  <1>6. /\ st.cursorSeq \in C /\ \A c \in C : st.cursorSeq <= c
        /\ st.headSeq \in H /\ \A h \in H : h <= st.headSeq
    BY <1>4
  <1>7. IF st.retainedSeqStart > 0
        THEN st.retainedSeqStart \in R /\ \A r \in R : st.retainedSeqStart <= r
        ELSE R = {}
    BY <1>1, <1>3, <1>4
  <1> HIDE DEF C, H, R
  <1>8. st.cursorSeq = Min(C)
    BY <1>5, <1>6, MinIs
  <1>9. st.headSeq = Max(H)
    BY <1>5, <1>6, MaxIs
  <1>10. st.retainedSeqStart = IF R = {} THEN 0 ELSE Min(R)
    <2>1. CASE st.retainedSeqStart > 0
      BY <1>5, <1>7, <2>1, MinIs
    <2>2. CASE ~(st.retainedSeqStart > 0)
      BY <1>1, <1>7, <2>2
    <2> QED BY <2>1, <2>2
  <1> QED BY <1>8, <1>9, <1>10 DEF B, C, H, R

-----------------------------------------------------------------------------
(* What holds of a call between its steps.  The committed cursors and the  *)
(* heads are parameters, so that it can be said of the next state too.     *)
Rpcs == {"open", "gatewayCatchUp", "modifySubscription", "gatewayAck", "gatewayGetLatestSnapshot"}
SelectingRpcs == {"gatewayAck", "gatewayGetLatestSnapshot"}
Stages == {"resolve", "commit", "snapshot", "cursor", "head", "ask", "answer"}
Binding == [key : BindingKeys, stream : Streams]
Inputs == UNION {SyncGatewayService[rpc].input : rpc \in Rpcs}

CallRecord ==
    [rpc : Rpcs, input : Inputs, stage : Stages, targets : Seq(SyncTarget),
     bindings : Seq(Binding), cursorRead : Nat, state : TargetState \cup {Absent},
     selected : Binding \cup {Absent}, snapshotSeq : Nat, states : Seq(TargetState),
     results : Seq(GatewayCatchUpResult), rejected : Seq(TargetRejection)]

(* A state with the first bindings of its target, and one with all.        *)
Partial(st) ==
    /\ st \in TargetState /\ st.target \in DOMAIN BindingsOf /\ Aggregated(st)
    /\ Len(st.bindings) <= Len(BindingsOf[st.target])
    /\ \A j \in 1..Len(st.bindings) :
          /\ st.bindings[j].bindingKey = BindingsOf[st.target][j].key
          /\ st.bindings[j].cursorSeq <= st.bindings[j].headSeq

Complete(st) == Partial(st) /\ Len(st.bindings) = Len(BindingsOf[st.target])

(* Nothing in a state is ahead of the logs.                                *)
Past(st, cur, hd) ==
    \A j \in 1..Len(st.bindings) :
        /\ st.bindings[j].cursorSeq <= cur[<<Subscriber, BindingsOf[st.target][j].stream>>]
        /\ st.bindings[j].headSeq <= hd[BindingsOf[st.target][j].stream]

CoversAck(st, b, seq) ==
    \A j \in 1..Len(st.bindings) :
        BindingsOf[st.target][j] = b => st.bindings[j].cursorSeq >= seq

CoversSnapshot(st, b, seq) ==
    \A j \in 1..Len(st.bindings) :
        BindingsOf[st.target][j] = b => st.bindings[j].headSeq >= seq

(* A result belongs to one binding of its state, and its batch fits it.    *)
ResultFits(r) ==
    /\ Complete(r.state) /\ r.state.target = r.target
    /\ \E j \in 1..Len(BindingsOf[r.target]) :
          /\ BindingsOf[r.target][j].key = r.bindingKey
          /\ r.batch # Absent =>
                /\ r.batch.events # <<>> => r.batch.seqStart > r.state.bindings[j].cursorSeq
                /\ r.batch.final => r.batch.seq >= r.state.bindings[j].headSeq

Basic(q, cl) ==
    /\ q \in CallRecord /\ q.rpc \in cl.rpcs /\ q.input \in SyncGatewayService[q.rpc].input
    /\ q.targets # <<>>
    /\ \A i \in 1..Len(q.states) : Complete(q.states[i])
    /\ \A i \in 1..Len(q.results) : ResultFits(q.results[i])

(* Where the call is: the bindings that are left of its current target.    *)
Located(q) ==
    /\ q.stage = "commit" => q.rpc = "gatewayAck"
    /\ q.stage = "snapshot" => q.rpc = "gatewayGetLatestSnapshot"
    /\ q.stage \in {"ask", "answer"} => q.rpc = "gatewayCatchUp"
    /\ q.stage # "resolve" =>
          /\ q.targets[1] \in DOMAIN BindingsOf /\ q.bindings # <<>>
          /\ Len(q.bindings) <= Len(BindingsOf[q.targets[1]])
          /\ \A j \in 1..Len(q.bindings) :
                q.bindings[j] = BindingsOf[q.targets[1]]
                                  [Len(BindingsOf[q.targets[1]]) - Len(q.bindings) + j]

(* The state that is being read.                                           *)
Building(q, cur, hd) ==
    q.stage \in {"commit", "snapshot", "cursor", "head"} =>
        /\ Partial(q.state) /\ Past(q.state, cur, hd) /\ q.state.target = q.targets[1]
        /\ Len(q.state.bindings) + Len(q.bindings) = Len(BindingsOf[q.targets[1]])
        /\ q.stage \in {"commit", "snapshot"} => q.state.bindings = <<>>
        /\ q.stage = "head" => q.cursorRead <= cur[<<Subscriber, q.bindings[1].stream>>]

(* Calls for one binding: it is the one that was asked for, and what was   *)
(* committed or found is covered by what is read after it.                 *)
Selected(q) ==
    q.rpc \in SelectingRpcs =>
        /\ q.targets = <<q.input.target>> /\ q.states = <<>>
        /\ q.stage # "resolve" => q.selected \in SelectBinding(q.input.target, q.input.bindingKey)

AckHeld(q, cur) ==
    q.rpc = "gatewayAck" /\ q.stage \in {"cursor", "head"} =>
        /\ cur[<<Subscriber, q.selected.stream>>] >= q.input.seq
        /\ CoversAck(q.state, q.selected, q.input.seq)
        /\ q.stage = "head" /\ q.bindings[1] = q.selected => q.cursorRead >= q.input.seq

SnapshotHeld(q, hd) ==
    q.rpc = "gatewayGetLatestSnapshot" /\ q.stage \in {"cursor", "head"} =>
        /\ hd[q.selected.stream] >= q.snapshotSeq
        /\ CoversSnapshot(q.state, q.selected, q.snapshotSeq)

(* How far a catch-up is: the names of its results are those of the        *)
(* bindings of the targets it is done with, and of the first bindings of   *)
(* the current one.                                                        *)
Name == SyncTarget \X BindingKeys
Names(results) == [i \in 1..Len(results) |-> <<results[i].target, results[i].bindingKey>>]
NamesOf(t) == [j \in 1..Len(BindingsOf[t]) |-> <<t, BindingsOf[t][j].key>>]
Expected(ts) == FlattenSeq([i \in 1..Len(ts) |-> NamesOf(ts[i])])

LeftOf(rest, all) ==
    /\ Len(rest) <= Len(all)
    /\ \A j \in 1..Len(rest) : rest[j] = all[Len(all) - Len(rest) + j]
DoneOf(rest, all) == SubSeq(all, 1, Len(all) - Len(rest))

CaughtUp(q, rest) ==
    q.rpc = "gatewayCatchUp" =>
        LeftOf(rest, q.input.targets) /\ Names(q.results) = Expected(DoneOf(rest, q.input.targets))

CatchingUp(q, cur, hd) ==
    /\ q.stage \notin {"ask", "answer"} => CaughtUp(q, q.targets)
    /\ q.stage \in {"ask", "answer"} =>
          LET done == Expected(DoneOf(q.targets, q.input.targets))
              names == NamesOf(q.targets[1])
          IN  /\ LeftOf(q.targets, q.input.targets) /\ done \in Seq(Name)
              /\ Names(q.results) = done \o SubSeq(names, 1, Len(names) - Len(q.bindings))
              /\ q.states # <<>> /\ Last(q.states).target = q.targets[1]
              /\ Past(Last(q.states), cur, hd)

(* The request of a binding: from a cursor that its state does not exceed. *)
Requested(q, hd, asked) ==
    q.stage = "answer" =>
        /\ asked.phase = "asked" /\ asked.stream = q.bindings[1].stream
        /\ asked.limit \in Nat /\ asked.from \in Nat /\ asked.from <= hd[asked.stream]
        /\ Last(q.states).bindings
             [Len(BindingsOf[q.targets[1]]) - Len(q.bindings) + 1].cursorSeq <= asked.from

(* Every target to add is accepted, rejected or still to come.             *)
TargetsIn(s) == [i \in 1..Len(s) |-> s[i].target]

Reported(q, rest) ==
    q.rpc = "modifySubscription" =>
        \A t : CountIn(TargetsIn(q.states), t) + CountIn(TargetsIn(q.rejected), t)
                 + CountIn(rest, t) = CountIn(q.input.addTargets, t)

CallFits(q, cl, cur, hd, asked) ==
    /\ Basic(q, cl) /\ Located(q) /\ Building(q, cur, hd) /\ Selected(q)
    /\ AckHeld(q, cur) /\ SnapshotHeld(q, hd)
    /\ CatchingUp(q, cur, hd) /\ Requested(q, hd, asked) /\ Reported(q, q.targets)

(* A call that is done with its current target.                            *)
Finished(q, cl) ==
    /\ Basic(q, cl) /\ CaughtUp(q, Tail(q.targets)) /\ Reported(q, Tail(q.targets))
    /\ q.rpc \in SelectingRpcs =>
          /\ q.targets = <<q.input.target>>
          /\ q.selected \in SelectBinding(q.input.target, q.input.bindingKey)
          /\ Len(q.states) = 1 /\ q.states[1].target = q.input.target
    /\ q.rpc = "gatewayAck" => CoversAck(q.states[1], q.selected, q.input.seq)
    /\ q.rpc = "gatewayGetLatestSnapshot" =>
          CoversSnapshot(q.states[1], q.selected, q.snapshotSeq)

(* What holds of an answer.                                                *)
OutputFits(rpc, input, output) ==
    /\ output \in SyncGatewayService[rpc].output
    /\ rpc = "open" => \A i \in 1..Len(output.targets) : Complete(output.targets[i])
    /\ rpc = "modifySubscription" =>
          /\ \A i \in 1..Len(output.added) : Complete(output.added[i])
          /\ \A t : CountIn(TargetsIn(output.added), t) + CountIn(TargetsIn(output.rejected), t)
                      = CountIn(input.addTargets, t)
    /\ rpc = "gatewayCatchUp" =>
          /\ \A i \in 1..Len(output.results) : ResultFits(output.results[i])
          /\ Names(output.results) = Expected(input.targets)
    /\ rpc \in SelectingRpcs => Complete(output.state) /\ output.state.target = input.target
    /\ rpc = "gatewayAck" =>
          \E b \in SelectBinding(input.target, input.bindingKey) :
             CoversAck(output.state, b, input.seq)
    /\ rpc = "gatewayGetLatestSnapshot" =>
          \E b \in SelectBinding(input.target, input.bindingKey) :
             /\ output.snapshot.bindingKey = b.key
             /\ CoversSnapshot(output.state, b, output.snapshot.seq)

ReplyFits(r) ==
    r # Absent =>
        /\ r.rpc \in Rpcs /\ r.input \in SyncGatewayService[r.rpc].input
        /\ r.output # Failed => OutputFits(r.rpc, r.input, r.output)

Numbers ==
    /\ head \in [Streams -> Nat] /\ retained \in [Streams -> Nat]
    /\ cursor \in [Subscribers \X Streams -> Nat]
    /\ \A s \in Streams : head[s] <= MaxSeq
    /\ \A u \in Subscribers, s \in Streams : cursor[<<u, s>>] <= head[s]
    /\ snapshots \in [Streams -> SUBSET Nat]
    /\ \A s \in Streams : \A seq \in snapshots[s] : 1 <= seq /\ seq <= head[s]
    /\ DOMAIN request = {Session} /\ allowed \subseteq DOMAIN BindingsOf /\ client \in Clients

CallOK == call = Idle \/ CallFits(call, client, cursor, head, request[Session])

Inv == Numbers /\ CallOK /\ ReplyFits(reply)

-----------------------------------------------------------------------------
(* The bindings of a target the product knows.                             *)
LEMMA TargetFacts ==
    ASSUME NEW t \in DOMAIN BindingsOf
    PROVE  /\ t \in SyncTarget /\ BindingsOf[t] \in Seq(Binding)
           /\ Len(BindingsOf[t]) \in Nat \ {0} /\ DOMAIN BindingsOf[t] = 1..Len(BindingsOf[t])
           /\ \A j \in 1..Len(BindingsOf[t]) :
                 /\ BindingsOf[t][j] \in Binding /\ BindingsOf[t][j].key \in BindingKeys
                 /\ BindingsOf[t][j].stream \in Streams
           /\ \A i, j \in 1..Len(BindingsOf[t]) :
                 BindingsOf[t][i].key = BindingsOf[t][j].key => i = j
  <1>1. /\ t \in SyncTarget /\ BindingsOf[t] \in Seq(Binding) /\ BindingsOf[t] # <<>>
        /\ \A i, j \in DOMAIN BindingsOf[t] :
                BindingsOf[t][i].key = BindingsOf[t][j].key => i = j
    BY GatewayAssumption DEF Binding
  <1>2. Len(BindingsOf[t]) \in Nat \ {0} /\ DOMAIN BindingsOf[t] = 1..Len(BindingsOf[t])
    BY <1>1, EmptySeq, LenProperties
  <1>3. \A j \in 1..Len(BindingsOf[t]) : BindingsOf[t][j] \in Binding
    BY <1>1, ElementOfSeq
  <1>4. \A b \in Binding : b.key \in BindingKeys /\ b.stream \in Streams
    BY DEF Binding
  <1> QED BY <1>1, <1>2, <1>3, <1>4

(* A binding key stands for one binding, as resolveBindings makes sure.    *)
LEMMA SelectionUnique ==
    ASSUME NEW t \in DOMAIN BindingsOf, NEW key,
           NEW a \in SelectBinding(t, key), NEW b \in SelectBinding(t, key)
    PROVE  a = b /\ a \in Binding
  <1> DEFINE B == BindingsOf[t]
  <1>1. /\ Len(B) \in Nat \ {0} /\ DOMAIN B = 1..Len(B)
        /\ \A j \in 1..Len(B) : B[j] \in Binding
        /\ \A i, j \in 1..Len(B) : B[i].key = B[j].key => i = j
    BY TargetFacts
  <1>2. PICK i \in 1..Len(B) : a = B[i] /\ (a.key = key \/ Len(B) = 1)
    BY <1>1 DEF SelectBinding, Range
  <1>3. PICK j \in 1..Len(B) : b = B[j] /\ (b.key = key \/ Len(B) = 1)
    BY <1>1 DEF SelectBinding, Range
  <1> HIDE DEF B
  <1>4. i = j
    BY <1>1, <1>2, <1>3
  <1> QED BY <1>1, <1>2, <1>3, <1>4

(* A selected binding is one of the target's.                              *)
LEMMA SelectionPlace ==
    ASSUME NEW t \in DOMAIN BindingsOf, NEW key, NEW b \in SelectBinding(t, key)
    PROVE  \E j \in 1..Len(BindingsOf[t]) : BindingsOf[t][j] = b
  BY TargetFacts DEF SelectBinding, Range

(* The parts of a target state.                                            *)
LEMMA StateFacts ==
    ASSUME NEW st \in TargetState
    PROVE  /\ st.bindings \in Seq(TargetBindingState) /\ Len(st.bindings) \in Nat
           /\ DOMAIN st.bindings = 1..Len(st.bindings)
           /\ \A j \in 1..Len(st.bindings) :
                 /\ st.bindings[j] \in TargetBindingState
                 /\ st.bindings[j].cursorSeq \in Nat /\ st.bindings[j].headSeq \in Nat
  <1>1. st.bindings \in Seq(TargetBindingState)
    BY DEF TargetState
  <1>2. \A j \in 1..Len(st.bindings) : st.bindings[j] \in TargetBindingState
    BY <1>1, ElementOfSeq
  <1>3. \A b \in TargetBindingState : b.cursorSeq \in Nat /\ b.headSeq \in Nat
    BY DEF TargetBindingState
  <1> QED BY <1>1, <1>2, <1>3, LenProperties

(* In a complete state a binding is found by its key.                      *)
LEMMA BindingFound ==
    ASSUME NEW st, Complete(st), NEW j \in 1..Len(BindingsOf[st.target])
    PROVE  BindingIn(st, BindingsOf[st.target][j].key) = st.bindings[j]
  <1> DEFINE B == BindingsOf[st.target]
             S == st.bindings
             n == Len(B)
  <1>1. /\ st \in TargetState /\ st.target \in DOMAIN BindingsOf /\ Len(S) = n
        /\ \A i \in 1..n : S[i].bindingKey = B[i].key
    BY DEF Complete, Partial
  <1>2. DOMAIN S = 1..n
    BY <1>1, StateFacts
  <1>3. \A i, k \in 1..n : B[i].key = B[k].key => i = k
    BY <1>1, TargetFacts
  <1>4. j \in 1..n
    OBVIOUS
  <1> HIDE DEF B, S, n
  <1>5. S[j] \in Range(S) /\ S[j].bindingKey = B[j].key
    BY <1>1, <1>2, <1>4 DEF Range
  <1>6. \A b \in Range(S) : b.bindingKey = B[j].key => b = S[j]
    BY <1>1, <1>2, <1>3, <1>4 DEF Range
  <1>7. (CHOOSE b \in Range(S) : b.bindingKey = B[j].key) = S[j]
    BY <1>5, <1>6
  <1> QED BY <1>7 DEF BindingIn, B, S

(* A binding that is read extends the state.                               *)
LEMMA StateExtended ==
    ASSUME NEW cur, NEW hd, NEW st, Partial(st), Past(st, cur, hd),
           NEW n \in Nat, n = Len(st.bindings) + 1, n <= Len(BindingsOf[st.target]),
           NEW b, b = BindingsOf[st.target][n],
           NEW shown \in TargetBindingState, shown.bindingKey = b.key,
           shown.cursorSeq <= cur[<<Subscriber, b.stream>>], shown.headSeq = hd[b.stream],
           shown.cursorSeq <= shown.headSeq
    PROVE  LET new == Aggregate(st, shown)
           IN  /\ Partial(new) /\ Past(new, cur, hd) /\ new.target = st.target
               /\ Len(new.bindings) = n
               /\ \A x, seq : CoversAck(st, x, seq) /\ (x = b => shown.cursorSeq >= seq)
                                 => CoversAck(new, x, seq)
               /\ \A x, seq : CoversSnapshot(st, x, seq) /\ (x = b => shown.headSeq >= seq)
                                 => CoversSnapshot(new, x, seq)
  <1> DEFINE new == Aggregate(st, shown)
             S == st.bindings
             N == new.bindings
             B == BindingsOf[st.target]
  <1>1. /\ st \in TargetState /\ st.target \in DOMAIN BindingsOf /\ Aggregated(st)
        /\ \A j \in 1..Len(S) : S[j].bindingKey = B[j].key /\ S[j].cursorSeq <= S[j].headSeq
    BY DEF Partial
  <1>2. /\ new \in TargetState /\ Aggregated(new) /\ new.target = st.target
        /\ N = Append(S, shown)
    BY <1>1, AggregateFacts
  <1>3. S \in Seq(TargetBindingState) /\ Len(S) \in Nat
    BY <1>1, StateFacts
  <1>4. /\ Len(N) = n /\ N[n] = shown /\ \A j \in 1..(n - 1) : N[j] = S[j]
    BY <1>2, <1>3, AppendProperties
  <1>5. \A j \in 1..n : j = n \/ j \in 1..(n - 1)
    OBVIOUS
  <1>6. n - 1 = Len(S) /\ n <= Len(B) /\ b = B[n]
    BY <1>3
  <1>7. \A j \in 1..Len(S) : /\ S[j].cursorSeq <= cur[<<Subscriber, B[j].stream>>]
                             /\ S[j].headSeq <= hd[B[j].stream]
    BY DEF Past
  <1>s. /\ shown.headSeq <= hd[b.stream]
        /\ shown.cursorSeq <= cur[<<Subscriber, b.stream>>]
    <2>1. shown.headSeq \in Nat
      BY DEF TargetBindingState
    <2> QED BY <2>1
  <1> HIDE DEF new, S, N, B
  <1>8. Partial(new)
    <2>1. \A j \in 1..n : N[j].bindingKey = B[j].key /\ N[j].cursorSeq <= N[j].headSeq
      BY <1>1, <1>4, <1>5, <1>6
    <2> QED BY <1>1, <1>2, <1>4, <1>6, <2>1 DEF Partial, N, B
  <1>9. Past(new, cur, hd)
    <2>1. \A j \in 1..n : /\ N[j].cursorSeq <= cur[<<Subscriber, B[j].stream>>]
                          /\ N[j].headSeq <= hd[B[j].stream]
      BY <1>4, <1>5, <1>6, <1>7, <1>s
    <2> QED BY <1>2, <1>4, <2>1 DEF Past, N, B
  <1>10. ASSUME NEW x, NEW seq, CoversAck(st, x, seq), x = b => shown.cursorSeq >= seq
         PROVE  CoversAck(new, x, seq)
    <2>1. \A j \in 1..Len(S) : B[j] = x => S[j].cursorSeq >= seq
      BY <1>10 DEF CoversAck, S, B
    <2>2. \A j \in 1..n : B[j] = x => N[j].cursorSeq >= seq
      BY <1>4, <1>5, <1>6, <1>10, <2>1
    <2> QED BY <1>2, <1>4, <2>2 DEF CoversAck, N, B
  <1>11. ASSUME NEW x, NEW seq, CoversSnapshot(st, x, seq), x = b => shown.headSeq >= seq
         PROVE  CoversSnapshot(new, x, seq)
    <2>1. \A j \in 1..Len(S) : B[j] = x => S[j].headSeq >= seq
      BY <1>11 DEF CoversSnapshot, S, B
    <2>2. \A j \in 1..n : B[j] = x => N[j].headSeq >= seq
      BY <1>4, <1>5, <1>6, <1>11, <2>1
    <2> QED BY <1>2, <1>4, <2>2 DEF CoversSnapshot, N, B
  <1> QED BY <1>2, <1>4, <1>8, <1>9, <1>10, <1>11 DEF new, N

-----------------------------------------------------------------------------
(* The inputs of the rpcs.                                                 *)
LEMMA RpcFacts ==
    \A rpc \in Rpcs : SyncGatewayService[rpc].input \subseteq Inputs
  BY DEF Inputs

(* A call is the record of its fields, each of its kind.                   *)
LEMMA CallFields ==
    ASSUME NEW q \in CallRecord
    PROVE  /\ q = [rpc |-> q.rpc, input |-> q.input, stage |-> q.stage, targets |-> q.targets,
                   bindings |-> q.bindings, cursorRead |-> q.cursorRead, state |-> q.state,
                   selected |-> q.selected, snapshotSeq |-> q.snapshotSeq,
                   states |-> q.states, results |-> q.results, rejected |-> q.rejected]
           /\ q.rpc \in Rpcs /\ q.input \in Inputs /\ q.stage \in Stages
           /\ q.targets \in Seq(SyncTarget) /\ q.bindings \in Seq(Binding)
           /\ q.cursorRead \in Nat /\ q.state \in TargetState \cup {Absent}
           /\ q.selected \in Binding \cup {Absent} /\ q.snapshotSeq \in Nat
           /\ q.states \in Seq(TargetState) /\ q.results \in Seq(GatewayCatchUpResult)
           /\ q.rejected \in Seq(TargetRejection)
  BY DEF CallRecord

(* A record of fields of these kinds is a call.                            *)
LEMMA CallBuilt ==
    ASSUME NEW rpc \in Rpcs, NEW input \in Inputs, NEW stage \in Stages,
           NEW targets \in Seq(SyncTarget), NEW bindings \in Seq(Binding),
           NEW cursorRead \in Nat, NEW state \in TargetState \cup {Absent},
           NEW selected \in Binding \cup {Absent}, NEW snapshotSeq \in Nat,
           NEW states \in Seq(TargetState), NEW results \in Seq(GatewayCatchUpResult),
           NEW rejected \in Seq(TargetRejection)
    PROVE  [rpc |-> rpc, input |-> input, stage |-> stage, targets |-> targets,
            bindings |-> bindings, cursorRead |-> cursorRead, state |-> state,
            selected |-> selected, snapshotSeq |-> snapshotSeq, states |-> states,
            results |-> results, rejected |-> rejected] \in CallRecord
  BY DEF CallRecord

(* A call that is under way is not the idle one.                           *)
LEMMA Busy ==
    ASSUME NEW cl, NEW cur, NEW hd, NEW asked, NEW q, CallFits(q, cl, cur, hd, asked)
    PROVE  q.stage # "idle" /\ q # Idle /\ q \in CallRecord
  <1>1. q \in CallRecord
    BY DEF CallFits, Basic
  <1>2. q.stage \in Stages
    BY <1>1, CallFields
  <1>3. q.stage # "idle"
    BY <1>2 DEF Stages
  <1>4. Idle.stage = "idle"
    BY DEF Idle
  <1> QED BY <1>1, <1>3, <1>4

(* Before the first call.                                                  *)
LEMMA GatewayInit == Init => Inv
  <1> SUFFICES ASSUME Init PROVE Inv
    OBVIOUS
  <1>1. Numbers
    BY GatewayAssumption DEF Init, Log!Init, Numbers
  <1>2. call = Idle /\ reply = Absent
    BY DEF Init
  <1> QED BY <1>1, <1>2 DEF Inv, CallOK, ReplyFits

-----------------------------------------------------------------------------
(* The logs and cursors move forward: what was read stays behind them.     *)
LEMMA PastStays ==
    ASSUME NEW cur, NEW hd, NEW cur2, NEW hd2, NEW st \in TargetState,
           Past(st, cur, hd), st.target \in DOMAIN BindingsOf,
           Len(st.bindings) <= Len(BindingsOf[st.target]),
           \A s \in Streams : /\ cur[<<Subscriber, s>>] \in Nat /\ cur2[<<Subscriber, s>>] \in Nat
                              /\ cur[<<Subscriber, s>>] <= cur2[<<Subscriber, s>>]
                              /\ hd[s] \in Nat /\ hd2[s] \in Nat /\ hd[s] <= hd2[s]
    PROVE  Past(st, cur2, hd2)
  <1> SUFFICES ASSUME NEW j \in 1..Len(st.bindings)
               PROVE  /\ st.bindings[j].cursorSeq
                          <= cur2[<<Subscriber, BindingsOf[st.target][j].stream>>]
                      /\ st.bindings[j].headSeq <= hd2[BindingsOf[st.target][j].stream]
    BY DEF Past
  <1> DEFINE s == BindingsOf[st.target][j].stream
  <1>1. st.bindings[j].cursorSeq \in Nat /\ st.bindings[j].headSeq \in Nat /\ s \in Streams
    <2>1. j \in 1..Len(BindingsOf[st.target])
      BY StateFacts, TargetFacts
    <2> QED BY <2>1, StateFacts, TargetFacts
  <1>2. st.bindings[j].cursorSeq <= cur[<<Subscriber, s>>] /\ st.bindings[j].headSeq <= hd[s]
    BY DEF Past
  <1> HIDE DEF s
  <1>3. st.bindings[j].cursorSeq <= cur2[<<Subscriber, s>>] /\ st.bindings[j].headSeq <= hd2[s]
    BY <1>1, <1>2
  <1> QED BY <1>3 DEF s

(* What a call for one binding has selected.                               *)
LEMMA SelectedFacts ==
    ASSUME NEW q, Located(q), Selected(q), q.rpc \in SelectingRpcs, q.stage # "resolve"
    PROVE  /\ q.input.target \in DOMAIN BindingsOf /\ q.targets[1] = q.input.target
           /\ q.selected \in Binding /\ q.selected.stream \in Streams
           /\ q.selected.key \in BindingKeys
  <1>1. /\ q.targets = <<q.input.target>> /\ q.targets[1] \in DOMAIN BindingsOf
        /\ q.selected \in SelectBinding(q.input.target, q.input.bindingKey)
    BY DEF Located, Selected
  <1>2. q.targets[1] = q.input.target
    BY <1>1
  <1>3. q.selected \in Binding
    BY <1>1, <1>2, SelectionUnique
  <1> QED BY <1>1, <1>2, <1>3 DEF Binding

(* The fields of the inputs.                                               *)
LEMMA InputFacts ==
    /\ \A input \in SyncGatewayService["gatewayAck"].input :
          input.seq \in Nat /\ input.target \in SyncTarget
    /\ \A input \in SyncGatewayService["gatewayGetLatestSnapshot"].input :
          input.target \in SyncTarget /\ input.payloadType \in PayloadTypes
    /\ \A input \in SyncGatewayService["gatewayCatchUp"].input :
          /\ input.targets \in Seq(SyncTarget) /\ input.limitPerTarget \in Nat
          /\ input.totalLimitPerTarget \in Nat
    /\ \A input \in SyncGatewayService["modifySubscription"].input :
          input.addTargets \in Seq(SyncTarget)
    /\ \A input \in SyncGatewayService["open"].input : input.targets \in Seq(SyncTarget)
  BY DEF SyncGatewayService, GatewayAckRequest, GatewayGetLatestSnapshotRequest,
         GatewayCatchUpRequest, ModifySubscriptionRequest, OpenRequest

(* A call under way fits what the logs and cursors have become.            *)
LEMMA CallStays ==
    ASSUME NEW cl, NEW cur, NEW hd, NEW cur2, NEW hd2, NEW asked, NEW q,
           CallFits(q, cl, cur, hd, asked),
           \A s \in Streams : /\ cur[<<Subscriber, s>>] \in Nat /\ cur2[<<Subscriber, s>>] \in Nat
                              /\ cur[<<Subscriber, s>>] <= cur2[<<Subscriber, s>>]
                              /\ hd[s] \in Nat /\ hd2[s] \in Nat /\ hd[s] <= hd2[s]
    PROVE  CallFits(q, cl, cur2, hd2, asked)
  <1>1. /\ Basic(q, cl) /\ Located(q) /\ Building(q, cur, hd) /\ Selected(q)
        /\ AckHeld(q, cur) /\ SnapshotHeld(q, hd)
        /\ CatchingUp(q, cur, hd) /\ Requested(q, hd, asked) /\ Reported(q, q.targets)
    BY DEF CallFits
  <1>2. q \in CallRecord /\ q.input \in SyncGatewayService[q.rpc].input
    BY <1>1 DEF Basic
  <1>3. q.stage # "resolve" => q.bindings[1] \in Binding /\ q.bindings[1].stream \in Streams
    <2>1. SUFFICES ASSUME q.stage # "resolve" PROVE q.bindings[1] \in Binding
      BY DEF Binding
    <2>2. q.bindings \in Seq(Binding) /\ q.bindings # <<>>
      BY <1>1, <1>2, <2>1, CallFields DEF Located
    <2> QED BY <2>2, EmptySeq, ElementOfSeq
  <1>4. Building(q, cur2, hd2)
    <2>1. SUFFICES ASSUME q.stage \in {"commit", "snapshot", "cursor", "head"}
                   PROVE  Building(q, cur2, hd2)
      BY DEF Building
    <2>2. /\ Partial(q.state) /\ Past(q.state, cur, hd) /\ q.state.target = q.targets[1]
          /\ q.stage = "head" => q.cursorRead <= cur[<<Subscriber, q.bindings[1].stream>>]
      BY <1>1, <2>1 DEF Building
    <2>3. Past(q.state, cur2, hd2)
      BY <2>2, PastStays DEF Partial
    <2>4. q.cursorRead \in Nat
      BY <1>2, CallFields
    <2>5. q.stage = "head" => q.cursorRead <= cur2[<<Subscriber, q.bindings[1].stream>>]
      BY <1>3, <2>2, <2>4
    <2> QED BY <1>1, <2>1, <2>2, <2>3, <2>5 DEF Building
  <1>5. AckHeld(q, cur2)
    <2>1. SUFFICES ASSUME q.rpc = "gatewayAck", q.stage \in {"cursor", "head"}
                   PROVE  cur2[<<Subscriber, q.selected.stream>>] >= q.input.seq
      BY <1>1 DEF AckHeld
    <2>2. cur[<<Subscriber, q.selected.stream>>] >= q.input.seq
      BY <1>1, <2>1 DEF AckHeld
    <2>3. q.selected.stream \in Streams /\ q.input.seq \in Nat
      BY <1>1, <1>2, <2>1, SelectedFacts, InputFacts DEF SelectingRpcs
    <2> QED BY <2>2, <2>3
  <1>6. SnapshotHeld(q, hd2)
    <2>1. SUFFICES ASSUME q.rpc = "gatewayGetLatestSnapshot", q.stage \in {"cursor", "head"}
                   PROVE  hd2[q.selected.stream] >= q.snapshotSeq
      BY <1>1 DEF SnapshotHeld
    <2>2. hd[q.selected.stream] >= q.snapshotSeq
      BY <1>1, <2>1 DEF SnapshotHeld
    <2>3. q.selected.stream \in Streams /\ q.snapshotSeq \in Nat
      BY <1>1, <1>2, <2>1, SelectedFacts, CallFields DEF SelectingRpcs
    <2>4. /\ hd[q.selected.stream] \in Nat /\ hd2[q.selected.stream] \in Nat
          /\ hd[q.selected.stream] <= hd2[q.selected.stream]
      BY <2>3
    <2> QED BY <2>2, <2>3, <2>4
  <1>7. CatchingUp(q, cur2, hd2)
    <2>1. SUFFICES ASSUME q.stage \in {"ask", "answer"} PROVE Past(Last(q.states), cur2, hd2)
      BY <1>1 DEF CatchingUp
    <2>2. q.states # <<>> /\ Past(Last(q.states), cur, hd)
      BY <1>1, <2>1 DEF CatchingUp
    <2>3. Complete(Last(q.states))
      <3>1. q.states \in Seq(TargetState) /\ Len(q.states) \in Nat \ {0}
        BY <1>2, <2>2, CallFields, EmptySeq
      <3> QED BY <1>1, <3>1 DEF Basic, Last
    <2> QED BY <2>2, <2>3, PastStays DEF Complete, Partial
  <1>8. Requested(q, hd2, asked)
    <2>1. SUFFICES ASSUME q.stage = "answer" PROVE asked.from <= hd2[asked.stream]
      BY <1>1 DEF Requested
    <2>2. asked.stream = q.bindings[1].stream /\ asked.from \in Nat
          /\ asked.from <= hd[asked.stream]
      BY <1>1, <2>1 DEF Requested
    <2>3. hd[asked.stream] \in Nat /\ hd2[asked.stream] \in Nat
          /\ hd[asked.stream] <= hd2[asked.stream]
      <3>1. asked.stream \in Streams
        BY <1>3, <2>1, <2>2
      <3> QED BY <3>1
    <2> QED BY <2>2, <2>3
  <1> QED BY <1>1, <1>4, <1>5, <1>6, <1>7, <1>8 DEF CallFits

(* The logs grow and are cut, other sessions ack, snapshots are put and    *)
(* access changes: nothing that was read or answered is disturbed.         *)
LEMMA WorldSteps ==
    ASSUME Inv, WorldNext \/ UNCHANGED vars, UNCHANGED client
    PROVE  Inv'
  <1>n. Numbers
    BY DEF Inv
  <1>m. MaxSeq \in Nat /\ Subscriber \in Subscribers
    BY GatewayAssumption
  <1>1. ASSUME NEW s \in Streams, NEW n \in 1..(MaxSeq + 1),
               AppendEvents(s, n) \/ DiscardEvents(s, n)
        PROVE  Numbers' /\ UNCHANGED <<call, reply, cursor, request>>
                 /\ \A r \in Streams : head[r] <= head'[r]
    <2>0. n \in Nat /\ retained[s] \in Nat /\ head[s] \in Nat
      BY <1>1, <1>n, <1>m DEF Numbers
    <2>1. /\ UNCHANGED <<call, reply, cursor, request, snapshots, allowed, client>>
          /\ retained' = [retained EXCEPT ![s] = n]
          /\ UNCHANGED head \/ (head[s] < MaxSeq /\ head' = [head EXCEPT ![s] = @ + 1])
      BY <1>1 DEF AppendEvents, DiscardEvents, Log!Publish, Log!Discard
    <2>2. /\ head' \in [Streams -> Nat] /\ retained' \in [Streams -> Nat]
          /\ \A r \in Streams : head'[r] <= MaxSeq /\ head[r] <= head'[r]
      BY <1>n, <1>m, <2>0, <2>1 DEF Numbers
    <2>3. \A u \in Subscribers, r \in Streams : cursor'[<<u, r>>] <= head'[r]
      <3> TAKE u \in Subscribers, r \in Streams
      <3>1. cursor[<<u, r>>] \in Nat /\ cursor[<<u, r>>] <= head[r] /\ head[r] \in Nat
        BY <1>n DEF Numbers
      <3> QED BY <2>1, <2>2, <3>1
    <2>4. \A r \in Streams : \A seq \in snapshots'[r] : 1 <= seq /\ seq <= head'[r]
      <3> TAKE r \in Streams
      <3> TAKE seq \in snapshots'[r]
      <3>1. seq \in Nat /\ 1 <= seq /\ seq <= head[r] /\ head[r] \in Nat
        BY <1>n, <2>1 DEF Numbers
      <3> QED BY <2>2, <3>1
    <2> QED BY <1>n, <2>1, <2>2, <2>3, <2>4 DEF Numbers
  <1>2. ASSUME NEW s \in Streams, NEW n \in 1..(MaxSeq + 1), AckElsewhere(s, n)
        PROVE  Numbers' /\ UNCHANGED <<call, reply, head, request>>
                 /\ \A r \in Streams : cursor[<<Subscriber, r>>] <= cursor'[<<Subscriber, r>>]
    <2>1. /\ UNCHANGED <<call, reply, head, retained, request, snapshots, allowed, client>>
          /\ cursor' = [cursor EXCEPT ![<<Subscriber, s>>] = n]
          /\ n > cursor[<<Subscriber, s>>] /\ n <= head[s]
      BY <1>2 DEF AckElsewhere, Log!Commit
    <2>2. n \in Nat
      BY <1>2, <1>m
    <2>3. /\ cursor' \in [Subscribers \X Streams -> Nat]
          /\ \A u \in Subscribers, r \in Streams :
                cursor'[<<u, r>>] <= head[r] /\ cursor[<<u, r>>] <= cursor'[<<u, r>>]
      <3>1. cursor' \in [Subscribers \X Streams -> Nat]
        BY <1>n, <2>1, <2>2 DEF Numbers
      <3>2. ASSUME NEW u \in Subscribers, NEW r \in Streams
            PROVE  cursor'[<<u, r>>] <= head[r] /\ cursor[<<u, r>>] <= cursor'[<<u, r>>]
        <4>1. <<u, r>> \in Subscribers \X Streams /\ cursor[<<u, r>>] \in Nat
              /\ cursor[<<u, r>>] <= head[r]
          BY <1>n DEF Numbers
        <4>2. cursor'[<<u, r>>] = IF <<u, r>> = <<Subscriber, s>> THEN n ELSE cursor[<<u, r>>]
          BY <1>n, <2>1, <4>1 DEF Numbers
        <4> QED BY <2>1, <2>2, <4>1, <4>2
      <3> QED BY <3>1, <3>2
    <2> QED BY <1>n, <1>m, <2>1, <2>3 DEF Numbers
  <1>3. ASSUME NEW s \in Streams, NEW n \in 1..(MaxSeq + 1), PutSnapshot(s, n)
        PROVE  Numbers' /\ UNCHANGED <<call, reply, cursor, head, request>>
    <2>1. /\ UNCHANGED <<call, reply, cursor, head, retained, request, allowed, client>>
          /\ n \in 1..head[s] /\ head[s] \in Nat
          /\ snapshots' = [snapshots EXCEPT ![s] = @ \cup {n}]
      BY <1>3, <1>n DEF PutSnapshot, logVars, Numbers
    <2>2. snapshots' \in [Streams -> SUBSET Nat]
      BY <1>n, <2>1 DEF Numbers
    <2>3. \A r \in Streams : \A seq \in snapshots'[r] : 1 <= seq /\ seq <= head[r]
      <3> TAKE r \in Streams
      <3>1. snapshots'[r] = IF r = s THEN snapshots[s] \cup {n} ELSE snapshots[r]
        BY <1>n, <2>1 DEF Numbers
      <3> QED BY <1>n, <2>1, <3>1 DEF Numbers
    <2> QED BY <1>n, <2>1, <2>2, <2>3 DEF Numbers
  <1>4. ASSUME NEW t \in DOMAIN BindingsOf, ChangeAccess(t)
        PROVE  Numbers' /\ UNCHANGED <<call, reply, cursor, head, request>>
    BY <1>4, <1>n DEF ChangeAccess, logVars, Numbers
  <1>5. ASSUME UNCHANGED vars
        PROVE  Numbers' /\ UNCHANGED <<call, reply, cursor, head, request>>
    BY <1>5, <1>n DEF vars, logVars, Numbers
  <1>6. /\ \A s \in Streams : head[s] \in Nat /\ cursor[<<Subscriber, s>>] \in Nat
        /\ Numbers' => \A s \in Streams : head'[s] \in Nat /\ cursor'[<<Subscriber, s>>] \in Nat
    BY <1>n, <1>m DEF Numbers
  <1>7. /\ Numbers' /\ UNCHANGED <<call, reply, request>>
        /\ \A s \in Streams : /\ cursor[<<Subscriber, s>>] <= cursor'[<<Subscriber, s>>]
                              /\ head[s] <= head'[s]
    BY <1>1, <1>2, <1>3, <1>4, <1>5, <1>6 DEF WorldNext
  <1>8. CallOK'
    <2>1. CASE call = Idle
      BY <1>7, <2>1 DEF CallOK, Idle
    <2>2. CASE CallFits(call, client, cursor, head, request[Session])
      <3>1. CallFits(call, client, cursor', head', request[Session])
        BY <1>6, <1>7, <2>2, CallStays
      <3> QED BY <1>7, <3>1 DEF CallOK
    <2> QED BY <2>1, <2>2 DEF Inv, CallOK
  <1> QED BY <1>7, <1>8 DEF Inv, ReplyFits

-----------------------------------------------------------------------------
(* The targets that are left, with and without the first.                  *)
LEMMA TargetsFacts ==
    ASSUME NEW q \in CallRecord, q.targets # <<>>
    PROVE  /\ q.targets \in Seq(SyncTarget) /\ Len(q.targets) \in Nat \ {0}
           /\ q.targets[1] \in SyncTarget
           /\ Tail(q.targets) \in Seq(SyncTarget) /\ Len(Tail(q.targets)) = Len(q.targets) - 1
           /\ \A i \in 1..Len(Tail(q.targets)) : Tail(q.targets)[i] = q.targets[i + 1]
           /\ Len(q.targets) = 1 => Tail(q.targets) = <<>>
           /\ Len(q.targets) # 1 => Tail(q.targets) # <<>>
  <1>1. q.targets \in Seq(SyncTarget)
    BY CallFields
  <1> DEFINE s == q.targets
  <1>2. s \in Seq(SyncTarget) /\ s # <<>>
    BY <1>1
  <1> HIDE DEF s
  <1>3. /\ Len(s) \in Nat \ {0} /\ s[1] \in SyncTarget /\ Tail(s) \in Seq(SyncTarget)
        /\ Len(Tail(s)) = Len(s) - 1 /\ \A i \in 1..Len(Tail(s)) : Tail(s)[i] = s[i + 1]
    BY <1>2, EmptySeq, HeadTailProperties, ElementOfSeq
  <1>4. (Len(s) = 1 => Tail(s) = <<>>) /\ (Len(s) # 1 => Tail(s) # <<>>)
    <2>0. Len(<<>>) = 0
      OBVIOUS
    <2>1. ASSUME Tail(s) = <<>> PROVE Len(Tail(s)) = 0
      BY <2>0, <2>1
    <2>2. Len(Tail(s)) = 0 => Tail(s) = <<>>
      BY <1>3, EmptySeq
    <2> QED BY <1>3, <2>1, <2>2
  <1> QED BY <1>1, <1>3, <1>4 DEF s

(* Once no target is left all are done with.                               *)
LEMMA NamesExpected ==
    ASSUME NEW V, NEW s \in Seq(V), NEW rest, rest = <<>>
    PROVE  DoneOf(rest, s) = s
  <1>1. Len(rest) = 0 /\ Len(s) \in Nat
    BY LenProperties
  <1>2. Len(s) - Len(rest) = Len(s)
    BY <1>1
  <1>3. SubSeq(s, 1, Len(s)) \in Seq(V) /\ Len(SubSeq(s, 1, Len(s))) = Len(s)
        /\ \A i \in 1..Len(s) : SubSeq(s, 1, Len(s))[i] = s[i]
    <2>1. /\ 1 <= Len(s) + 1 /\ Len(s) <= Len(s)
      BY <1>1
    <2> DEFINE n == Len(s)
    <2>2. n \in Nat /\ 1 \in 1..(n + 1) /\ n \in 0..n
      BY <1>1
    <2>3. /\ SubSeq(s, 1, n) \in Seq(V)
          /\ Len(SubSeq(s, 1, n)) = IF 1 <= n THEN n - 1 + 1 ELSE 0
          /\ \A i \in 1 .. n-1+1 : SubSeq(s, 1, n)[i] = s[1+i-1]
      BY <1>1, SubSeqProperties
    <2> QED BY <2>2, <2>3
  <1>4. SubSeq(s, 1, Len(s)) = s
    BY <1>3, SeqEqual
  <1> QED BY <1>2, <1>4 DEF DoneOf

(* The outputs of the rpcs.                                                *)
LEMMA OutputFacts ==
    /\ SyncGatewayService["open"].output = [targets : Seq(TargetState)]
    /\ SyncGatewayService["gatewayCatchUp"].output = [results : Seq(GatewayCatchUpResult)]
    /\ SyncGatewayService["modifySubscription"].output
          = [added : Seq(TargetState), rejected : Seq(TargetRejection)]
    /\ SyncGatewayService["gatewayAck"].output = [state : TargetState]
    /\ SyncGatewayService["gatewayGetLatestSnapshot"].output
          = [snapshot : GatewaySnapshot, state : TargetState]
  BY DEF SyncGatewayService, OpenResponse, GatewayCatchUpResponse, ModifySubscriptionResponse,
         GatewayAckResponse, GatewayGetLatestSnapshotResponse

(* The targets of states.                                                  *)
LEMMA StateTargets ==
    ASSUME NEW s \in Seq(TargetState)
    PROVE  TargetsIn(s) \in Seq(SyncTarget) /\ Len(TargetsIn(s)) = Len(s)
  <1>1. Len(s) \in Nat /\ \A i \in 1..Len(s) : s[i] \in TargetState
    BY LenProperties, ElementOfSeq
  <1>2. \A i \in 1..Len(s) : s[i].target \in SyncTarget
    BY <1>1 DEF TargetState
  <1> QED BY <1>1, <1>2, IsASeq, LenProperties DEF TargetsIn

(* The targets of rejections.                                              *)
LEMMA RejectionTargets ==
    ASSUME NEW s \in Seq(TargetRejection)
    PROVE  TargetsIn(s) \in Seq(SyncTarget) /\ Len(TargetsIn(s)) = Len(s)
  <1>1. Len(s) \in Nat /\ \A i \in 1..Len(s) : s[i] \in TargetRejection
    BY LenProperties, ElementOfSeq
  <1>2. \A i \in 1..Len(s) : s[i].target \in SyncTarget
    BY <1>1 DEF TargetRejection
  <1> QED BY <1>1, <1>2, IsASeq, LenProperties DEF TargetsIn

(* The answer of a call whose last target is done with.                    *)
LEMMA OutputGiven ==
    ASSUME NEW cl, NEW q, Finished(q, cl), Len(q.targets) = 1
    PROVE  OutputFits(q.rpc, q.input, OutputOf(q))
  <1>1. /\ q \in CallRecord /\ q.input \in SyncGatewayService[q.rpc].input /\ q.targets # <<>>
        /\ \A i \in 1..Len(q.states) : Complete(q.states[i])
        /\ \A i \in 1..Len(q.results) : ResultFits(q.results[i])
    BY DEF Finished, Basic
  <1>2. Tail(q.targets) = <<>>
    BY <1>1, TargetsFacts
  <1>f. /\ q.rpc \in Rpcs /\ q.states \in Seq(TargetState) /\ q.snapshotSeq \in Nat
        /\ q.results \in Seq(GatewayCatchUpResult) /\ q.rejected \in Seq(TargetRejection)
    BY <1>1, CallFields
  <1>s. ASSUME q.rpc \in SelectingRpcs
        PROVE  /\ q.selected \in SelectBinding(q.input.target, q.input.bindingKey)
               /\ Complete(q.states[1]) /\ q.states[1].target = q.input.target
               /\ q.states[1] \in TargetState /\ q.selected.key \in BindingKeys
    <2>1. /\ q.selected \in SelectBinding(q.input.target, q.input.bindingKey)
          /\ Len(q.states) = 1 /\ q.states[1].target = q.input.target
      BY <1>s DEF Finished
    <2>2. Complete(q.states[1])
      BY <1>1, <2>1
    <2>3. q.selected \in Binding
      BY <2>1, <2>2, SelectionUnique DEF Complete, Partial
    <2> QED BY <2>1, <2>2, <2>3 DEF Complete, Partial, Binding
  <1>3. CASE q.rpc = "open"
    <2>1. OutputOf(q) = [targets |-> q.states]
      BY <1>3 DEF OutputOf
    <2>2. OutputOf(q) \in SyncGatewayService[q.rpc].output
      BY <1>f, <1>3, <2>1, OutputFacts
    <2> QED BY <1>1, <1>3, <2>1, <2>2 DEF OutputFits, SelectingRpcs
  <1>4. CASE q.rpc = "modifySubscription"
    <2>1. OutputOf(q) = [added |-> q.states, rejected |-> q.rejected]
      BY <1>4 DEF OutputOf
    <2>2. \A t : CountIn(TargetsIn(q.states), t) + CountIn(TargetsIn(q.rejected), t)
                   = CountIn(q.input.addTargets, t)
      <3> TAKE t
      <3> DEFINE a == CountIn(TargetsIn(q.states), t)
                 b == CountIn(TargetsIn(q.rejected), t)
      <3>1. a + b + CountIn(Tail(q.targets), t) = CountIn(q.input.addTargets, t)
        BY <1>4 DEF Finished, Reported
      <3>2. CountIn(Tail(q.targets), t) = 0
        <4>1. Places(<<>>, t) = {}
          BY DEF Places
        <4> QED BY <1>2, <4>1, FS_EmptySet DEF CountIn
      <3>3. a \in Nat /\ b \in Nat
        <4>1. TargetsIn(q.states) \in Seq(SyncTarget)
          BY <1>f, StateTargets
        <4>2. TargetsIn(q.rejected) \in Seq(SyncTarget)
          BY <1>f, RejectionTargets
        <4> QED BY <4>1, <4>2, PlacesFinite
      <3> HIDE DEF a, b
      <3>4. a + b = CountIn(q.input.addTargets, t)
        BY <3>1, <3>2, <3>3
      <3> QED BY <3>4 DEF a, b
    <2>3. OutputOf(q) \in SyncGatewayService[q.rpc].output
      BY <1>f, <1>4, <2>1, OutputFacts
    <2> QED BY <1>1, <1>4, <2>1, <2>2, <2>3 DEF OutputFits, SelectingRpcs
  <1>5. CASE q.rpc = "gatewayCatchUp"
    <2>1. OutputOf(q) = [results |-> q.results]
      BY <1>5 DEF OutputOf
    <2>2. q.input.targets \in Seq(SyncTarget)
      BY <1>1, <1>5, InputFacts
    <2>3. Names(q.results) = Expected(q.input.targets)
      BY <1>2, <1>5, <2>2, NamesExpected DEF Finished, CaughtUp
    <2>4. OutputOf(q) \in SyncGatewayService[q.rpc].output
      BY <1>f, <1>5, <2>1, OutputFacts
    <2> QED BY <1>1, <1>5, <2>1, <2>3, <2>4 DEF OutputFits, SelectingRpcs
  <1>6. CASE q.rpc = "gatewayAck"
    <2>1. OutputOf(q) = [state |-> q.states[1]]
      BY <1>6 DEF OutputOf, AckOutput
    <2>2. CoversAck(q.states[1], q.selected, q.input.seq)
      BY <1>6 DEF Finished
    <2>3. OutputOf(q) \in SyncGatewayService[q.rpc].output
      BY <1>s, <1>6, <2>1, OutputFacts DEF SelectingRpcs
    <2> QED BY <1>s, <1>6, <2>1, <2>2, <2>3 DEF OutputFits, SelectingRpcs
  <1>7. CASE q.rpc = "gatewayGetLatestSnapshot"
    <2> DEFINE snapshot == SnapshotOf(q, q.snapshotSeq)
    <2>1. OutputOf(q) = [state |-> q.states[1], snapshot |-> snapshot]
      BY <1>7 DEF OutputOf, SnapshotOutput
    <2>2. CoversSnapshot(q.states[1], q.selected, q.snapshotSeq)
      BY <1>7 DEF Finished
    <2>3. snapshot.seq = q.snapshotSeq /\ snapshot.bindingKey = q.selected.key
      BY DEF SnapshotOf
    <2>4. snapshot \in GatewaySnapshot
      <3>1. q.input.target \in SyncTarget /\ q.input.payloadType \in PayloadTypes
        BY <1>1, <1>7, InputFacts
      <3>2. (CHOOSE p \in Payloads : TRUE) \in Payloads
            /\ (CHOOSE x \in Checksums : TRUE) \in Checksums
        BY GatewayAssumption
      <3>3. "NONE" \in SnapshotCompression
        BY DEF SnapshotCompression
      <3>4. q.selected.key \in BindingKeys
        BY <1>s, <1>7 DEF SelectingRpcs
      <3> QED BY <1>f, <3>1, <3>2, <3>3, <3>4 DEF SnapshotOf, GatewaySnapshot
    <2> HIDE DEF snapshot
    <2>5. OutputOf(q) \in SyncGatewayService[q.rpc].output
      BY <1>s, <1>7, <2>1, <2>4, OutputFacts DEF SelectingRpcs
    <2>6. OutputOf(q).state = q.states[1] /\ OutputOf(q).snapshot = snapshot
      BY <2>1
    <2> QED BY <1>s, <1>7, <2>2, <2>3, <2>5, <2>6 DEF OutputFits, SelectingRpcs
  <1> QED BY <1>f, <1>3, <1>4, <1>5, <1>6, <1>7 DEF Rpcs

(* A call that goes on to its next target.                                 *)
LEMMA TargetTaken ==
    ASSUME NEW cl, NEW q, Finished(q, cl), Len(q.targets) # 1,
           NEW cur, NEW hd, NEW asked
    PROVE  CallFits([q EXCEPT !.targets = Tail(@), !.stage = "resolve"], cl, cur, hd, asked)
  <1> DEFINE q2 == [q EXCEPT !.targets = Tail(@), !.stage = "resolve"]
  <1>1. Basic(q, cl) /\ CaughtUp(q, Tail(q.targets)) /\ Reported(q, Tail(q.targets))
    BY DEF Finished
  <1>2. q \in CallRecord /\ q.targets # <<>>
    BY <1>1 DEF Basic
  <1>3. q.rpc \notin SelectingRpcs
    <2>1. ASSUME q.rpc \in SelectingRpcs PROVE FALSE
      <3>1. q.targets = <<q.input.target>>
        BY <2>1 DEF Finished
      <3> QED BY <3>1
    <2> QED BY <2>1
  <1>4. /\ q2 \in CallRecord /\ q2.rpc = q.rpc /\ q2.input = q.input /\ q2.stage = "resolve"
        /\ q2.targets = Tail(q.targets) /\ q2.states = q.states /\ q2.results = q.results
        /\ q2.rejected = q.rejected
    <2>1. "resolve" \in Stages
      BY DEF Stages
    <2> QED BY <1>2, <2>1, CallFields, TargetsFacts DEF CallRecord
  <1>5. q2.targets # <<>>
    BY <1>2, <1>4, TargetsFacts
  <1> HIDE DEF q2
  <1>6. Basic(q2, cl)
    BY <1>1, <1>4, <1>5 DEF Basic
  <1>7. Located(q2) /\ Building(q2, cur, hd) /\ Selected(q2) /\ AckHeld(q2, cur)
        /\ SnapshotHeld(q2, hd) /\ Requested(q2, hd, asked)
    BY <1>3, <1>4 DEF Located, Building, Selected, AckHeld, SnapshotHeld, Requested
  <1>8. CatchingUp(q2, cur, hd)
    BY <1>1, <1>4 DEF CatchingUp, CaughtUp
  <1>9. Reported(q2, q2.targets)
    BY <1>1, <1>4 DEF Reported
  <1>10. CallFits(q2, cl, cur, hd, asked)
    BY <1>6, <1>7, <1>8, <1>9 DEF CallFits
  <1> QED BY <1>10 DEF q2

(* Being done with a target ends the call or takes the next one.           *)
LEMMA NextTargetStep ==
    ASSUME NEW q, Finished(q, client), NextTarget(q), UNCHANGED client,
           call.rpc = q.rpc, call.input = q.input, ReplyFits(reply)
    PROVE  CallOK' /\ ReplyFits(reply')
  <1>1. CASE Len(q.targets) = 1
    <2>1. call' = Idle /\ reply' = [rpc |-> q.rpc, input |-> q.input, output |-> OutputOf(q)]
      BY <1>1 DEF NextTarget, Return
    <2>2. OutputFits(q.rpc, q.input, OutputOf(q))
      BY <1>1, OutputGiven
    <2>3. q.rpc \in Rpcs /\ q.input \in SyncGatewayService[q.rpc].input
      BY CallFields DEF Finished, Basic
    <2>4. ReplyFits(reply')
      BY <2>1, <2>2, <2>3 DEF ReplyFits
    <2>5. CallOK'
      BY <2>1 DEF CallOK, Idle
    <2> QED BY <2>4, <2>5
  <1>2. CASE Len(q.targets) # 1
    <2>1. /\ call' = [q EXCEPT !.targets = Tail(@), !.stage = "resolve"] /\ reply' = reply
      BY <1>2 DEF NextTarget
    <2>2. CallFits(call', client, cursor', head', request'[Session])
      BY <1>2, <2>1, TargetTaken
    <2> QED BY <2>1, <2>2 DEF CallOK
  <1> QED BY <1>1, <1>2

(* A call that fails answers with an error only.                           *)
LEMMA FailedStep ==
    ASSUME NEW q, CallFits(q, client, cursor, head, request[Session]), q = call, Return(Failed)
    PROVE  CallOK' /\ ReplyFits(reply')
  <1>1. q \in CallRecord /\ q.input \in SyncGatewayService[q.rpc].input
    BY DEF CallFits, Basic
  <1>2. call' = Idle /\ reply' = [rpc |-> q.rpc, input |-> q.input, output |-> Failed]
    BY DEF Return
  <1>3. ReplyFits(reply')
    BY <1>1, <1>2, CallFields DEF ReplyFits
  <1> QED BY <1>2, <1>3 DEF CallOK, Idle

-----------------------------------------------------------------------------
(* A call begins with nothing read and nothing answered.                   *)
LEMMA NothingExpected ==
    ASSUME NEW V, NEW s \in Seq(V)
    PROVE  /\ LeftOf(s, s) /\ DoneOf(s, s) = <<>> /\ Expected(<<>>) = <<>>
           /\ Names(<<>>) = <<>> /\ TargetsIn(<<>>) = <<>>
           /\ \A t : CountIn(<<>>, t) = 0
  <1>1. Len(s) \in Nat /\ Len(s) - Len(s) = 0 /\ \A j \in 1..Len(s) : 0 + j = j
    BY LenProperties
  <1>2. LeftOf(s, s)
    BY <1>1 DEF LeftOf
  <1>3. DoneOf(s, s) = <<>>
    <2>1. SubSeq(s, 1, 0) = <<>>
      BY <1>1, SubSeqEmpty
    <2> QED BY <1>1, <2>1 DEF DoneOf
  <1>4. Len(<<>>) = 0 /\ 1..0 = {}
    OBVIOUS
  <1>5. Names(<<>>) = <<>> /\ TargetsIn(<<>>) = <<>>
    BY <1>4 DEF Names, TargetsIn
  <1>6. Expected(<<>>) = <<>>
    <2>1. [i \in 1..Len(<<>>) |-> NamesOf(<<>>[i])] = <<>>
      BY <1>4
    <2>2. FlattenSeq(<<>>) = <<>>
      BY DEF FlattenSeq
    <2> QED BY <2>1, <2>2 DEF Expected
  <1>7. \A t : CountIn(<<>>, t) = 0
    <2> TAKE t
    <2>1. Places(<<>>, t) = {}
      BY <1>4 DEF Places
    <2> QED BY <2>1, FS_EmptySet DEF CountIn
  <1> QED BY <1>2, <1>3, <1>5, <1>6, <1>7

(* A call that starts fits its invariant.                                  *)
LEMMA Started ==
    ASSUME NEW rpc \in Rpcs, rpc \in client.rpcs, NEW input \in SyncGatewayService[rpc].input,
           TargetsOf(rpc, input) \in Seq(SyncTarget), TargetsOf(rpc, input) # <<>>,
           Start(rpc, input), UNCHANGED client
    PROVE  CallOK' /\ ReplyFits(reply')
  <1> DEFINE q == [rpc |-> rpc, input |-> input, stage |-> "resolve",
                   targets |-> TargetsOf(rpc, input), bindings |-> <<>>, cursorRead |-> 0,
                   state |-> Absent, selected |-> Absent, snapshotSeq |-> 0,
                   states |-> <<>>, results |-> <<>>, rejected |-> <<>>]
  <1>1. call' = q /\ reply' = Absent
    BY DEF Start
  <1>2. /\ q.rpc = rpc /\ q.input = input /\ q.stage = "resolve"
        /\ q.targets = TargetsOf(rpc, input) /\ q.states = <<>> /\ q.results = <<>>
        /\ q.rejected = <<>>
    OBVIOUS
  <1>3. q \in CallRecord
    <2>1. "resolve" \in Stages /\ input \in Inputs
      BY RpcFacts DEF Stages
    <2>2. /\ <<>> \in Seq(Binding) /\ <<>> \in Seq(TargetState)
          /\ <<>> \in Seq(GatewayCatchUpResult) /\ <<>> \in Seq(TargetRejection)
      OBVIOUS
    <2> QED BY <2>1, <2>2, CallBuilt
  <1> HIDE DEF q
  <1>4. Basic(q, client)
    <2>1. 1..Len(<<>>) = {}
      OBVIOUS
    <2> QED BY <1>2, <1>3, <2>1 DEF Basic
  <1>5. ASSUME NEW cur, NEW hd, NEW asked
        PROVE  /\ Located(q) /\ Building(q, cur, hd) /\ AckHeld(q, cur)
               /\ SnapshotHeld(q, hd) /\ Requested(q, hd, asked)
    BY <1>2 DEF Located, Building, AckHeld, SnapshotHeld, Requested
  <1>6. Selected(q)
    BY <1>2 DEF Selected, SelectingRpcs, TargetsOf
  <1>7. ASSUME NEW cur, NEW hd
        PROVE  CatchingUp(q, cur, hd)
    <2>1. CaughtUp(q, q.targets)
      <3>1. SUFFICES ASSUME rpc = "gatewayCatchUp" PROVE CaughtUp(q, q.targets)
        BY <1>2 DEF CaughtUp
      <3>2. q.targets = q.input.targets /\ q.targets \in Seq(SyncTarget)
        BY <1>2, <3>1 DEF TargetsOf
      <3> QED BY <1>2, <3>2, NothingExpected DEF CaughtUp
    <2> QED BY <1>2, <2>1 DEF CatchingUp
  <1>8. Reported(q, q.targets)
    <2>1. SUFFICES ASSUME rpc = "modifySubscription", NEW t
                   PROVE  CountIn(TargetsIn(q.states), t) + CountIn(TargetsIn(q.rejected), t)
                            + CountIn(q.targets, t) = CountIn(q.input.addTargets, t)
      BY <1>2 DEF Reported
    <2>2. q.targets = q.input.addTargets /\ q.targets \in Seq(SyncTarget)
      BY <1>2, <2>1 DEF TargetsOf
    <2>3. CountIn(TargetsIn(<<>>), t) = 0
      BY <2>2, NothingExpected
    <2>4. CountIn(q.targets, t) \in Nat
      BY <2>2, PlacesFinite
    <2> QED BY <1>2, <2>2, <2>3, <2>4
  <1>9. CallFits(q, client, cursor', head', request'[Session])
    BY <1>4, <1>5, <1>6, <1>7, <1>8 DEF CallFits
  <1> QED BY <1>1, <1>9 DEF CallOK, ReplyFits

(* Any of the five rpcs is called.                                         *)
LEMMA StartSteps ==
    ASSUME Inv, StartNext, UNCHANGED client
    PROVE  Inv'
  <1>c. /\ client.targets \in Seq(SyncTarget) /\ client.targets # <<>>
        /\ Subscriber \in Subscribers /\ MaxSeq \in Nat
        /\ \A n \in Limits : n \in Nat
        /\ \A n \in TotalLimits : n \in Nat
    BY GatewayAssumption DEF Inv, Numbers
  <1>r. Range(client.targets) \subseteq SyncTarget
    BY <1>c, RangeOfSeq
  <1>e. <<>> \in Seq(SyncTarget)
    OBVIOUS
  <1>s. \A t \in SyncTarget : <<t>> \in Seq(SyncTarget) /\ <<t>> # <<>>
    OBVIOUS
  <1>1. ASSUME Open(client.targets) PROVE CallOK' /\ ReplyFits(reply')
    <2> DEFINE input == [subscriberId |-> Subscriber, targets |-> client.targets]
    <2>1. input \in SyncGatewayService["open"].input
      BY <1>c DEF SyncGatewayService, OpenRequest
    <2>2. Start("open", input) /\ TargetsOf("open", input) = client.targets
      BY <1>1 DEF Open, TargetsOf
    <2>3. "open" \in Rpcs /\ "open" \in client.rpcs
      BY <2>2 DEF Start, Rpcs
    <2> HIDE DEF input
    <2> QED BY <1>c, <2>1, <2>2, <2>3, Started
  <1>2. ASSUME NEW limit \in Limits, NEW totalLimit \in TotalLimits,
               GatewayCatchUp(client.targets, limit, totalLimit)
        PROVE  CallOK' /\ ReplyFits(reply')
    <2> DEFINE input == [subscriberId |-> Subscriber, targets |-> client.targets,
                         limitPerTarget |-> limit, totalLimitPerTarget |-> totalLimit]
    <2>1. input \in SyncGatewayService["gatewayCatchUp"].input
      BY <1>c DEF SyncGatewayService, GatewayCatchUpRequest
    <2>2. Start("gatewayCatchUp", input)
          /\ TargetsOf("gatewayCatchUp", input) = client.targets
      BY <1>2 DEF GatewayCatchUp, TargetsOf
    <2>3. "gatewayCatchUp" \in Rpcs /\ "gatewayCatchUp" \in client.rpcs
      BY <2>2 DEF Start, Rpcs
    <2> HIDE DEF input
    <2> QED BY <1>c, <2>1, <2>2, <2>3, Started
  <1>3. ASSUME NEW id \in SubscriptionIds, ModifySubscription(id, client.targets)
        PROVE  CallOK' /\ ReplyFits(reply')
    <2> DEFINE input == [subscriberId |-> Subscriber, subscriptionId |-> id,
                         addTargets |-> client.targets, removeTargets |-> <<>>]
    <2>1. input \in SyncGatewayService["modifySubscription"].input
      BY <1>c, <1>e DEF SyncGatewayService, ModifySubscriptionRequest
    <2>2. Start("modifySubscription", input)
          /\ TargetsOf("modifySubscription", input) = client.targets
      BY <1>3 DEF ModifySubscription, TargetsOf
    <2>3. "modifySubscription" \in Rpcs /\ "modifySubscription" \in client.rpcs
      BY <2>2 DEF Start, Rpcs
    <2> HIDE DEF input
    <2> QED BY <1>c, <2>1, <2>2, <2>3, Started
  <1>4. ASSUME NEW t \in Range(client.targets), NEW key \in BindingKey, NEW seq \in 1..MaxSeq,
               GatewayAck(t, key, seq)
        PROVE  CallOK' /\ ReplyFits(reply')
    <2> DEFINE input == [subscriberId |-> Subscriber, target |-> t, seq |-> seq,
                         bindingKey |-> key]
    <2>0. t \in SyncTarget /\ seq \in Nat
      BY <1>c, <1>r
    <2>1. input \in SyncGatewayService["gatewayAck"].input
      BY <1>c, <2>0 DEF SyncGatewayService, GatewayAckRequest
    <2>2. Start("gatewayAck", input) /\ TargetsOf("gatewayAck", input) = <<t>>
      BY <1>4 DEF GatewayAck, TargetsOf
    <2>3. "gatewayAck" \in Rpcs /\ "gatewayAck" \in client.rpcs
      BY <2>2 DEF Start, Rpcs
    <2> HIDE DEF input
    <2> QED BY <1>s, <2>0, <2>1, <2>2, <2>3, Started
  <1>5. ASSUME NEW t \in Range(client.targets), NEW key \in BindingKey,
               NEW type \in PayloadTypes, GatewayGetLatestSnapshot(t, key, type)
        PROVE  CallOK' /\ ReplyFits(reply')
    <2> DEFINE input == [subscriberId |-> Subscriber, target |-> t, payloadType |-> type,
                         maxPayloadVersion |-> 0, bindingKey |-> key]
    <2>0. t \in SyncTarget
      BY <1>r
    <2>1. input \in SyncGatewayService["gatewayGetLatestSnapshot"].input
      BY <1>c, <2>0 DEF SyncGatewayService, GatewayGetLatestSnapshotRequest
    <2>2. Start("gatewayGetLatestSnapshot", input)
          /\ TargetsOf("gatewayGetLatestSnapshot", input) = <<t>>
      BY <1>5 DEF GatewayGetLatestSnapshot, TargetsOf
    <2>3. "gatewayGetLatestSnapshot" \in Rpcs /\ "gatewayGetLatestSnapshot" \in client.rpcs
      BY <2>2 DEF Start, Rpcs
    <2> HIDE DEF input
    <2> QED BY <1>s, <2>0, <2>1, <2>2, <2>3, Started
  <1>6. CallOK' /\ ReplyFits(reply')
    BY <1>1, <1>2, <1>3, <1>4, <1>5 DEF StartNext
  <1>7. UNCHANGED <<logVars, snapshots, allowed>>
    BY DEF StartNext, Open, GatewayCatchUp, ModifySubscription, GatewayAck,
           GatewayGetLatestSnapshot, Start
  <1>8. Numbers'
    BY <1>7 DEF Inv, Numbers, logVars
  <1> QED BY <1>6, <1>8 DEF Inv

-----------------------------------------------------------------------------
(* Where a call stands in the bindings of its target.                      *)
LEMMA PlaceFacts ==
    ASSUME NEW q \in CallRecord, Located(q), q.stage # "resolve"
    PROVE  LET B == BindingsOf[q.targets[1]]
               k == Len(B) - Len(q.bindings)
           IN  /\ q.targets[1] \in DOMAIN BindingsOf /\ q.targets[1] \in SyncTarget
               /\ Len(B) \in Nat \ {0} /\ Len(q.bindings) \in Nat \ {0} /\ k \in Nat
               /\ k + 1 <= Len(B) /\ k + 1 \in 1..Len(B)
               /\ q.bindings \in Seq(Binding) /\ q.bindings[1] = B[k + 1]
               /\ q.bindings[1] \in Binding
               /\ q.bindings[1].stream \in Streams /\ q.bindings[1].key \in BindingKeys
  <1> DEFINE t == q.targets[1]
             n == Len(BindingsOf[t])
             m == Len(q.bindings)
  <1>1. /\ t \in DOMAIN BindingsOf /\ q.bindings # <<>> /\ m <= n
        /\ \A j \in 1..m : q.bindings[j] = BindingsOf[t][n - m + j]
    BY DEF Located
  <1>2. q.bindings \in Seq(Binding) /\ m \in Nat \ {0}
    BY <1>1, CallFields, EmptySeq
  <1>3. t \in SyncTarget /\ n \in Nat \ {0} /\ \A j \in 1..n : BindingsOf[t][j] \in Binding
    BY <1>1, TargetFacts
  <1> HIDE DEF t, n, m
  <1>4. n - m \in Nat /\ (n - m) + 1 <= n /\ (n - m) + 1 \in 1..n /\ 1 \in 1..m
    BY <1>1, <1>2, <1>3
  <1>5. q.bindings[1] = BindingsOf[t][(n - m) + 1] /\ q.bindings[1] \in Binding
    BY <1>1, <1>3, <1>4
  <1>6. q.bindings[1].stream \in Streams /\ q.bindings[1].key \in BindingKeys
    BY <1>5 DEF Binding
  <1> QED BY <1>1, <1>2, <1>3, <1>4, <1>5, <1>6 DEF t, n, m

(* The bindings that are left once the first is done with.                 *)
LEMMA TailPlaces ==
    ASSUME NEW t \in DOMAIN BindingsOf, NEW s \in Seq(Binding), Len(s) > 1,
           Len(s) <= Len(BindingsOf[t]),
           \A j \in 1..Len(s) : s[j] = BindingsOf[t][Len(BindingsOf[t]) - Len(s) + j]
    PROVE  /\ Tail(s) \in Seq(Binding) /\ Tail(s) # <<>> /\ Len(Tail(s)) = Len(s) - 1
           /\ Len(Tail(s)) <= Len(BindingsOf[t])
           /\ \A j \in 1..Len(Tail(s)) :
                 Tail(s)[j] = BindingsOf[t][Len(BindingsOf[t]) - Len(Tail(s)) + j]
  <1> DEFINE n == Len(BindingsOf[t])
             m == Len(s)
             u == Tail(s)
  <1>1. n \in Nat /\ m \in Nat
    BY TargetFacts, LenProperties
  <1>2. s # <<>>
    <2>1. Len(<<>>) = 0
      OBVIOUS
    <2>2. ASSUME s = <<>> PROVE FALSE
      BY <2>1, <2>2
    <2> QED BY <2>2
  <1>3. /\ u \in Seq(Binding) /\ Len(u) = m - 1
        /\ \A i \in 1..Len(u) : u[i] = s[i + 1]
    BY <1>2, HeadTailProperties
  <1>4. u # <<>>
    <2>1. Len(<<>>) = 0
      OBVIOUS
    <2>2. Len(u) > 0
      BY <1>1, <1>3
    <2> HIDE DEF u, m
    <2>3. ASSUME u = <<>> PROVE FALSE
      BY <2>1, <2>2, <2>3
    <2> QED BY <2>3
  <1>5. ASSUME NEW j \in 1..Len(u) PROVE u[j] = BindingsOf[t][n - Len(u) + j]
    <2> HIDE DEF n, m, u
    <2>1. j + 1 \in 1..m /\ n - m + (j + 1) = n - Len(u) + j
      BY <1>1, <1>3
    <2>2. \A i \in 1..m : s[i] = BindingsOf[t][n - m + i]
      BY DEF n, m
    <2>3. s[j + 1] = BindingsOf[t][n - m + (j + 1)]
      BY <2>1, <2>2
    <2>4. u[j] = s[j + 1]
      BY <1>3
    <2> QED BY <2>1, <2>3, <2>4
  <1>6. Len(u) <= n
    BY <1>1, <1>3
  <1> QED BY <1>3, <1>4, <1>5, <1>6

(* All bindings are left when a target is taken up.                        *)
LEMMA WholePlaces ==
    ASSUME NEW t \in DOMAIN BindingsOf
    PROVE  LET s == BindingsOf[t]
           IN  /\ s \in Seq(Binding) /\ s # <<>> /\ Len(s) \in Nat \ {0} /\ Len(s) <= Len(s)
               /\ \A j \in 1..Len(s) : s[j] = BindingsOf[t][Len(s) - Len(s) + j]
  <1> DEFINE n == Len(BindingsOf[t])
  <1>1. BindingsOf[t] \in Seq(Binding) /\ n \in Nat \ {0}
    BY TargetFacts
  <1>2. BindingsOf[t] # <<>>
    <2>1. Len(<<>>) = 0
      OBVIOUS
    <2>2. ASSUME BindingsOf[t] = <<>> PROVE FALSE
      BY <1>1, <2>1, <2>2
    <2> QED BY <2>2
  <1>3. n <= n /\ \A j \in 1..n : n - n + j = j
    BY <1>1
  <1> QED BY <1>1, <1>2, <1>3

-----------------------------------------------------------------------------
(* The steps of a call.                                                    *)
LEMMA CallUnderWay ==
    ASSUME Inv, call.stage # "idle"
    PROVE  /\ CallFits(call, client, cursor, head, request[Session])
           /\ Basic(call, client) /\ Located(call) /\ Building(call, cursor, head)
           /\ Selected(call) /\ AckHeld(call, cursor) /\ SnapshotHeld(call, head)
           /\ CatchingUp(call, cursor, head) /\ Requested(call, head, request[Session])
           /\ Reported(call, call.targets)
           /\ call \in CallRecord /\ call.targets # <<>>
           /\ call.input \in SyncGatewayService[call.rpc].input
  <1>1. call # Idle
    BY DEF Idle
  <1>2. CallFits(call, client, cursor, head, request[Session])
    BY <1>1 DEF Inv, CallOK
  <1> QED BY <1>2 DEF CallFits, Basic

(* A step that leaves the world alone leaves its numbers.                  *)
LEMMA NumbersStay ==
    ASSUME Numbers, UNCHANGED <<client, logVars, snapshots, allowed>>
    PROVE  Numbers'
  BY DEF Numbers, logVars

(* The state a target is taken up with fits.                               *)
LEMMA EmptyState ==
    ASSUME NEW t \in DOMAIN BindingsOf
    PROVE  /\ NewState(t) \in TargetState /\ NewState(t).target = t
           /\ NewState(t).bindings = <<>> /\ Partial(NewState(t))
           /\ \A cur, hd : Past(NewState(t), cur, hd)
  <1>1. /\ NewState(t) \in TargetState /\ NewState(t).target = t
        /\ NewState(t).bindings = <<>> /\ Aggregated(NewState(t))
    BY TargetFacts, NewStateFacts
  <1>2. Len(<<>>) = 0 /\ 1..0 = {} /\ Len(BindingsOf[t]) \in Nat
    BY TargetFacts
  <1>3. Partial(NewState(t))
    BY <1>1, <1>2 DEF Partial
  <1>4. \A cur, hd : Past(NewState(t), cur, hd)
    BY <1>1, <1>2 DEF Past
  <1> QED BY <1>1, <1>3, <1>4

(* The bindings of a target are taken up, with nothing read.               *)
LEMMA ReadingFits ==
    ASSUME NEW cl, NEW cur, NEW hd, NEW asked, NEW q, CallFits(q, cl, cur, hd, asked),
           q.stage = "resolve", q.targets[1] \in DOMAIN BindingsOf,
           NEW stage \in {"commit", "snapshot", "cursor"},
           stage = "commit" => q.rpc = "gatewayAck",
           stage = "snapshot" => q.rpc = "gatewayGetLatestSnapshot",
           stage = "cursor" => q.rpc \notin SelectingRpcs,
           NEW b \in Binding \cup {Absent},
           stage # "cursor" => b \in SelectBinding(q.targets[1], q.input.bindingKey),
           NEW q2 \in CallRecord, q2.rpc = q.rpc, q2.input = q.input, q2.stage = stage,
           q2.targets = q.targets, q2.bindings = BindingsOf[q.targets[1]],
           q2.state = NewState(q.targets[1]), q2.selected = b, q2.states = q.states,
           q2.results = q.results, q2.rejected = q.rejected
    PROVE  CallFits(q2, cl, cur, hd, asked)
  <1>1. /\ Basic(q, cl) /\ Selected(q) /\ CatchingUp(q, cur, hd) /\ Reported(q, q.targets)
        /\ q.targets # <<>>
    BY DEF CallFits, Basic
  <1>2. Basic(q2, cl)
    BY <1>1 DEF Basic
  <1>3. Located(q2)
    <2>1. /\ q2.bindings # <<>> /\ Len(q2.bindings) <= Len(BindingsOf[q2.targets[1]])
          /\ \A j \in 1..Len(q2.bindings) :
                q2.bindings[j] = BindingsOf[q2.targets[1]]
                                  [Len(BindingsOf[q2.targets[1]]) - Len(q2.bindings) + j]
      BY WholePlaces
    <2> QED BY <2>1 DEF Located
  <1>4. Building(q2, cur, hd)
    <2> DEFINE t == q.targets[1]
    <2>1. /\ Partial(q2.state) /\ Past(q2.state, cur, hd) /\ q2.state.target = q2.targets[1]
          /\ q2.state.bindings = <<>>
      BY EmptyState
    <2>2. Len(q2.state.bindings) + Len(q2.bindings) = Len(BindingsOf[q2.targets[1]])
      <3>1. Len(<<>>) = 0 /\ Len(BindingsOf[q.targets[1]]) \in Nat
        BY TargetFacts
      <3> QED BY <2>1, <3>1
    <2> QED BY <2>1, <2>2 DEF Building
  <1>5. Selected(q2)
    <2>1. SUFFICES ASSUME q.rpc \in SelectingRpcs PROVE Selected(q2)
      BY DEF Selected
    <2>2. q.targets = <<q.input.target>> /\ q.states = <<>>
      BY <1>1, <2>1 DEF Selected
    <2>3. q.targets[1] = q.input.target
      BY <2>2
    <2> QED BY <2>1, <2>2, <2>3 DEF Selected
  <1>6. AckHeld(q2, cur) /\ SnapshotHeld(q2, hd) /\ Requested(q2, hd, asked)
    BY DEF AckHeld, SnapshotHeld, Requested, SelectingRpcs
  <1>7. CatchingUp(q2, cur, hd)
    BY <1>1 DEF CatchingUp, CaughtUp
  <1>8. Reported(q2, q2.targets)
    BY <1>1 DEF Reported
  <1> QED BY <1>2, <1>3, <1>4, <1>5, <1>6, <1>7, <1>8 DEF CallFits

(* The targets of states or rejections after an append.                    *)
LEMMA TargetsInAppend ==
    ASSUME NEW V, NEW s \in Seq(V), NEW x \in V
    PROVE  TargetsIn(Append(s, x)) = Append(TargetsIn(s), x.target)
  <1> DEFINE n == Len(s)
             u == Append(s, x)
             a == TargetsIn(u)
             b == Append(TargetsIn(s), x.target)
             W == {s[i].target : i \in 1..n} \cup {x.target}
  <1>1. /\ n \in Nat /\ Len(u) = n + 1 /\ u[n + 1] = x /\ \A i \in 1..n : u[i] = s[i]
    BY LenProperties, AppendProperties
  <1> HIDE DEF n, u
  <1>2. TargetsIn(s) = [i \in 1..n |-> s[i].target]
    BY DEF TargetsIn, n
  <1>3. TargetsIn(s) \in Seq(W) /\ Len(TargetsIn(s)) = n
    BY <1>1, <1>2, IsASeq, LenProperties
  <1>4. /\ b \in Seq(W) /\ Len(b) = n + 1 /\ b[n + 1] = x.target
        /\ \A i \in 1..n : b[i] = TargetsIn(s)[i]
    BY <1>3, AppendProperties
  <1>5. a = [i \in 1..(n + 1) |-> u[i].target]
    BY <1>1 DEF TargetsIn
  <1>6. \A i \in 1..(n + 1) : i \in 1..n \/ i = n + 1
    BY <1>1
  <1>7. \A i \in 1..(n + 1) : u[i].target \in W
    BY <1>1, <1>6
  <1>8. a \in Seq(W) /\ Len(a) = n + 1
    <2>1. n + 1 \in Nat
      BY <1>1
    <2> HIDE DEF W
    <2> QED BY <1>5, <1>7, <2>1, IsASeq, LenProperties
  <1>9. \A i \in 1..(n + 1) : a[i] = b[i]
    BY <1>1, <1>2, <1>4, <1>5, <1>6
  <1>10. a = b
    <2> HIDE DEF a, b, W
    <2> QED BY <1>4, <1>8, <1>9, SeqEqual
  <1> QED BY <1>10 DEF u

(* A target that is refused is reported, and is done with.                 *)
LEMMA RejectFits ==
    ASSUME NEW cl, NEW cur, NEW hd, NEW asked, NEW q, CallFits(q, cl, cur, hd, asked),
           q.rpc = "modifySubscription"
    PROVE  Finished(Reject(q), cl)
  <1> DEFINE r == [target |-> q.targets[1], code |-> RejectionCode]
             q2 == Reject(q)
  <1>1. Basic(q, cl) /\ Reported(q, q.targets)
    BY DEF CallFits
  <1>2. q \in CallRecord /\ q.targets # <<>>
    BY <1>1 DEF Basic
  <1>3. /\ q.targets \in Seq(SyncTarget) /\ q.targets[1] \in SyncTarget
        /\ Tail(q.targets) \in Seq(SyncTarget)
    BY <1>2, TargetsFacts
  <1>4. r \in TargetRejection /\ r.target = q.targets[1]
    <2>1. RejectionCode \in RejectionCodes
      BY GatewayAssumption DEF RejectionCode
    <2> QED BY <1>3, <2>1 DEF TargetRejection
  <1> HIDE DEF r
  <1>5. q.rejected \in Seq(TargetRejection) /\ q.states \in Seq(TargetState)
    BY <1>2, CallFields
  <1>6. Append(q.rejected, r) \in Seq(TargetRejection)
    BY <1>4, <1>5, AppendProperties
  <1>7. /\ q2 \in CallRecord /\ q2.rpc = q.rpc /\ q2.input = q.input
        /\ q2.targets = q.targets /\ q2.states = q.states /\ q2.results = q.results
        /\ q2.rejected = Append(q.rejected, r)
    BY <1>2, <1>6, CallFields DEF CallRecord, Reject, r
  <1> HIDE DEF q2
  <1>8. Basic(q2, cl)
    BY <1>1, <1>7 DEF Basic
  <1>9. Reported(q2, Tail(q2.targets))
    <2>1. SUFFICES ASSUME NEW t
                   PROVE  CountIn(TargetsIn(q2.states), t) + CountIn(TargetsIn(q2.rejected), t)
                            + CountIn(Tail(q2.targets), t) = CountIn(q2.input.addTargets, t)
      BY DEF Reported
    <2> DEFINE a == CountIn(TargetsIn(q.states), t)
               b == CountIn(TargetsIn(q.rejected), t)
               c == CountIn(Tail(q.targets), t)
               one == IF q.targets[1] = t THEN 1 ELSE 0
    <2>2. a + b + CountIn(q.targets, t) = CountIn(q.input.addTargets, t)
      BY <1>1 DEF Reported
    <2>3. CountIn(q.targets, t) = one + c
      BY <1>2, <1>3, CountOfTail
    <2>4. CountIn(TargetsIn(q2.rejected), t) = b + one
      <3>1. TargetsIn(q2.rejected) = Append(TargetsIn(q.rejected), q.targets[1])
        BY <1>4, <1>5, <1>7, TargetsInAppend
      <3>2. TargetsIn(q.rejected) \in Seq(SyncTarget)
        BY <1>5, RejectionTargets
      <3> QED BY <1>3, <3>1, <3>2, CountOfAppend
    <2>5. a \in Nat /\ b \in Nat /\ c \in Nat /\ one \in Nat
      <3>1. TargetsIn(q.states) \in Seq(SyncTarget) /\ TargetsIn(q.rejected) \in Seq(SyncTarget)
        BY <1>5, StateTargets, RejectionTargets
      <3> QED BY <1>3, <3>1, PlacesFinite
    <2> HIDE DEF a, b, c, one
    <2>6. a + (b + one) + c = CountIn(q.input.addTargets, t)
      BY <2>2, <2>3, <2>5
    <2> QED BY <1>7, <2>4, <2>6 DEF a, c
  <1>10. Finished(q2, cl)
    BY <1>7, <1>8, <1>9 DEF Finished, CaughtUp, SelectingRpcs
  <1> QED BY <1>10 DEF q2

-----------------------------------------------------------------------------
(* The product is asked for a target: it is unknown or not allowed, and    *)
(* refused or failed, or its bindings are taken up.                        *)
LEMMA ResolveStep ==
    ASSUME Inv, Resolve, UNCHANGED client
    PROVE  Inv'
  <1>0. call.stage = "resolve" /\ UNCHANGED <<logVars, snapshots, allowed>>
    BY DEF Resolve
  <1>1. /\ CallFits(call, client, cursor, head, request[Session])
        /\ call \in CallRecord /\ call.targets # <<>>
    BY <1>0, CallUnderWay
  <1>2. Numbers' /\ ReplyFits(reply) /\ allowed \subseteq DOMAIN BindingsOf
    BY <1>0, NumbersStay DEF Inv, Numbers
  <1>3. CASE Target \notin allowed /\ call.rpc = "modifySubscription"
    <2>1. NextTarget(Reject(call))
      BY <1>0, <1>3 DEF Resolve
    <2>2. Finished(Reject(call), client)
      BY <1>1, <1>3, RejectFits
    <2>3. Reject(call).rpc = call.rpc /\ Reject(call).input = call.input
      BY <1>1, CallFields DEF Reject
    <2>4. CallOK' /\ ReplyFits(reply')
      BY <1>2, <2>1, <2>2, <2>3, NextTargetStep
    <2> QED BY <1>2, <2>4 DEF Inv
  <1>4. CASE Return(Failed)
    <2>1. CallOK' /\ ReplyFits(reply')
      BY <1>1, <1>4, FailedStep
    <2> QED BY <1>2, <2>1 DEF Inv
  <1>5. ASSUME Target \in allowed, NEW stage \in {"commit", "snapshot", "cursor"},
               stage = "commit" => call.rpc = "gatewayAck",
               stage = "snapshot" => call.rpc = "gatewayGetLatestSnapshot",
               stage = "cursor" => call.rpc \notin SelectingRpcs,
               NEW b \in Binding \cup {Absent},
               stage # "cursor" => b \in SelectBinding(Target, call.input.bindingKey),
               call' = [call EXCEPT !.bindings = BindingsOf[Target], !.state = NewState(Target),
                                    !.stage = stage, !.selected = b],
               UNCHANGED reply
        PROVE  Inv'
    <2>1. Target \in DOMAIN BindingsOf /\ Target = call.targets[1]
      BY <1>2, <1>5 DEF Target
    <2>2. /\ NewState(Target) \in TargetState /\ BindingsOf[Target] \in Seq(Binding)
          /\ stage \in Stages
      BY <1>5, <2>1, EmptyState, TargetFacts DEF Stages
    <2> DEFINE q2 == call'
    <2>3. /\ q2 \in CallRecord /\ q2.rpc = call.rpc /\ q2.input = call.input
          /\ q2.stage = stage /\ q2.targets = call.targets /\ q2.bindings = BindingsOf[Target]
          /\ q2.state = NewState(Target) /\ q2.selected = b /\ q2.states = call.states
          /\ q2.results = call.results /\ q2.rejected = call.rejected
      BY <1>1, <1>5, <2>2, CallFields DEF CallRecord
    <2> HIDE DEF q2
    <2>4. CallFits(q2, client, cursor, head, request[Session])
      BY <1>0, <1>1, <1>5, <2>1, <2>3, ReadingFits
    <2>5. CallOK'
      BY <1>0, <2>4 DEF CallOK, q2, logVars
    <2> QED BY <1>2, <1>5, <2>5 DEF Inv
  <1>6. CASE Target \in allowed /\ call.rpc \in SelectingRpcs
             /\ SelectBinding(Target, call.input.bindingKey) # {}
    <2>1. PICK b \in SelectBinding(Target, call.input.bindingKey) :
            /\ call' = [Reading(IF call.rpc = "gatewayAck" THEN "commit"
                                ELSE "snapshot") EXCEPT !.selected = b]
            /\ UNCHANGED reply
      BY <1>0, <1>6 DEF Resolve, SelectingRpcs
    <2> DEFINE stage == IF call.rpc = "gatewayAck" THEN "commit" ELSE "snapshot"
    <2>2. b \in Binding
      BY <1>2, <1>6, SelectionUnique
    <2>3. /\ stage \in {"commit", "snapshot", "cursor"} /\ stage # "cursor"
          /\ stage = "commit" => call.rpc = "gatewayAck"
          /\ stage = "snapshot" => call.rpc = "gatewayGetLatestSnapshot"
      BY <1>6 DEF SelectingRpcs
    <2>4. call' = [Reading(stage) EXCEPT !.selected = b]
      BY <2>1
    <2> HIDE DEF stage
    <2>5. call' = [call EXCEPT !.bindings = BindingsOf[Target], !.state = NewState(Target),
                               !.stage = stage, !.selected = b]
      BY <2>4 DEF Reading
    <2> QED BY <1>5, <1>6, <2>1, <2>2, <2>3, <2>5
  <1>7. CASE Target \in allowed /\ call.rpc \notin SelectingRpcs
    <2>1. call' = Reading("cursor") /\ UNCHANGED reply
      BY <1>0, <1>7 DEF Resolve, SelectingRpcs
    <2>2. call.selected \in Binding \cup {Absent}
      BY <1>1, CallFields
    <2>3. call' = [call EXCEPT !.bindings = BindingsOf[Target], !.state = NewState(Target),
                               !.stage = "cursor", !.selected = call.selected]
      BY <1>1, <2>1, CallFields DEF Reading
    <2> QED BY <1>5, <1>7, <2>1, <2>2, <2>3
  <1>8. \/ Target \notin allowed /\ call.rpc = "modifySubscription"
        \/ Return(Failed)
        \/ Target \in allowed /\ call.rpc \in SelectingRpcs
             /\ SelectBinding(Target, call.input.bindingKey) # {}
        \/ Target \in allowed /\ call.rpc \notin SelectingRpcs
    BY DEF Resolve, SelectingRpcs
  <1> QED BY <1>3, <1>4, <1>6, <1>7, <1>8

(* A call goes on to read the first cursor of the state, whatever became   *)
(* of the cursor or was found before.                                      *)
LEMMA CursorNext ==
    ASSUME NEW cl, NEW cur, NEW hd, NEW asked, NEW q, CallFits(q, cl, cur, hd, asked),
           q.stage \in {"commit", "snapshot"},
           NEW cur2, NEW asked2, NEW q2 \in CallRecord, q2.rpc = q.rpc, q2.input = q.input,
           q2.stage = "cursor", q2.targets = q.targets, q2.bindings = q.bindings,
           q2.state = q.state, q2.selected = q.selected, q2.states = q.states,
           q2.results = q.results, q2.rejected = q.rejected,
           q.stage = "commit" => cur2[<<Subscriber, q.selected.stream>>] >= q.input.seq,
           q.stage = "snapshot" => hd[q.selected.stream] >= q2.snapshotSeq
    PROVE  CallFits(q2, cl, cur2, hd, asked2)
  <1>1. /\ Basic(q, cl) /\ Located(q) /\ Building(q, cur, hd) /\ Selected(q)
        /\ CatchingUp(q, cur, hd) /\ Reported(q, q.targets)
    BY DEF CallFits
  <1>2. Basic(q2, cl)
    BY <1>1 DEF Basic
  <1>3. Located(q2)
    BY <1>1 DEF Located
  <1>4. q.state.bindings = <<>> /\ 1..Len(<<>>) = {}
    <2>1. q.state.bindings = <<>>
      BY <1>1 DEF Building
    <2>2. 1..Len(<<>>) = {}
      OBVIOUS
    <2> QED BY <2>1, <2>2
  <1>5. Building(q2, cur2, hd)
    <2>1. Past(q2.state, cur2, hd)
      BY <1>4 DEF Past
    <2> QED BY <1>1, <2>1 DEF Building
  <1>6. Selected(q2)
    BY <1>1 DEF Selected
  <1>7. AckHeld(q2, cur2)
    <2>1. q.rpc = "gatewayAck" => q.stage = "commit"
      BY <1>1 DEF Located
    <2> QED BY <1>4, <2>1 DEF AckHeld, CoversAck
  <1>8. SnapshotHeld(q2, hd)
    <2>1. q.rpc = "gatewayGetLatestSnapshot" => q.stage = "snapshot"
      BY <1>1 DEF Located
    <2> QED BY <1>4, <2>1 DEF SnapshotHeld, CoversSnapshot
  <1>9. CatchingUp(q2, cur2, hd) /\ Requested(q2, hd, asked2)
    BY <1>1 DEF CatchingUp, CaughtUp, Requested
  <1>10. Reported(q2, q2.targets)
    BY <1>1 DEF Reported
  <1> QED BY <1>2, <1>3, <1>5, <1>6, <1>7, <1>8, <1>9, <1>10 DEF CallFits

(* The ack is passed to the sync service, or fails.                        *)
LEMMA CommitAckStep ==
    ASSUME Inv, CommitAck, UNCHANGED client
    PROVE  Inv'
  <1>0. call.stage = "commit" /\ UNCHANGED <<snapshots, allowed>>
    BY DEF CommitAck
  <1>1. /\ CallFits(call, client, cursor, head, request[Session])
        /\ call \in CallRecord /\ Located(call) /\ Selected(call)
        /\ call.input \in SyncGatewayService[call.rpc].input
    BY <1>0, CallUnderWay
  <1>2. Numbers /\ ReplyFits(reply)
    BY DEF Inv
  <1>3. call.rpc = "gatewayAck" /\ call.input.seq \in Nat
    BY <1>0, <1>1, InputFacts DEF Located
  <1>4. SelectedStream \in Streams
    BY <1>0, <1>1, <1>3, SelectedFacts DEF SelectingRpcs, SelectedStream
  <1> DEFINE s == SelectedStream
             seq == call.input.seq
  <1>5. ASSUME call' = [call EXCEPT !.stage = "cursor"], UNCHANGED <<reply, head>>,
               cursor'[<<Subscriber, s>>] >= seq, Numbers'
        PROVE  Inv'
    <2> DEFINE q2 == call'
    <2>1. "cursor" \in Stages
      BY DEF Stages
    <2>2. /\ q2 \in CallRecord /\ q2.rpc = call.rpc /\ q2.input = call.input
          /\ q2.stage = "cursor" /\ q2.targets = call.targets /\ q2.bindings = call.bindings
          /\ q2.state = call.state /\ q2.selected = call.selected /\ q2.states = call.states
          /\ q2.results = call.results /\ q2.rejected = call.rejected
      BY <1>1, <1>5, <2>1, CallFields DEF CallRecord
    <2> HIDE DEF q2
    <2>3. CallFits(q2, client, cursor', head, request'[Session])
      BY <1>0, <1>1, <1>5, <2>2, CursorNext DEF SelectedStream
    <2>4. CallOK'
      BY <1>5, <2>3 DEF CallOK, q2
    <2> QED BY <1>2, <1>5, <2>4 DEF Inv
  <1>6. CASE /\ Log!Commit(Subscriber, s, seq)
             /\ call' = [call EXCEPT !.stage = "cursor"] /\ UNCHANGED reply
    <2>1. /\ seq > cursor[<<Subscriber, s>>] /\ seq <= head[s]
          /\ cursor' = [cursor EXCEPT ![<<Subscriber, s>>] = seq]
          /\ UNCHANGED <<head, retained, request>>
      BY <1>6 DEF Log!Commit
    <2> HIDE DEF s, seq
    <2>0. seq \in Nat /\ s \in Streams /\ Subscriber \in Subscribers
      BY <1>3, <1>4, GatewayAssumption DEF s, seq
    <2>2. cursor \in [Subscribers \X Streams -> Nat]
      BY <1>2 DEF Numbers
    <2>3. cursor' \in [Subscribers \X Streams -> Nat] /\ cursor'[<<Subscriber, s>>] = seq
      BY <2>0, <2>1, <2>2
    <2>4. ASSUME NEW u \in Subscribers, NEW r \in Streams
          PROVE  cursor'[<<u, r>>] <= head[r]
      <3>1. <<u, r>> \in Subscribers \X Streams /\ cursor[<<u, r>>] <= head[r]
        BY <1>2 DEF Numbers
      <3>2. cursor'[<<u, r>>] = IF <<u, r>> = <<Subscriber, s>> THEN seq ELSE cursor[<<u, r>>]
        BY <2>1, <2>2, <3>1
      <3> QED BY <2>1, <3>1, <3>2
    <2>5. Numbers'
      BY <1>0, <1>2, <2>1, <2>3, <2>4 DEF Numbers
    <2> QED BY <1>5, <1>6, <2>0, <2>1, <2>3, <2>5 DEF s, seq
  <1>7. CASE /\ seq <= CursorOf(s)
             /\ call' = [call EXCEPT !.stage = "cursor"] /\ UNCHANGED <<reply, logVars>>
    <2>1. Numbers'
      BY <1>0, <1>2, <1>7, NumbersStay
    <2>2. cursor' = cursor /\ head' = head /\ cursor[<<Subscriber, s>>] \in Nat
      BY <1>2, <1>4, <1>7, GatewayAssumption DEF logVars, Numbers
    <2>3. cursor'[<<Subscriber, s>>] >= seq
      BY <1>3, <1>7, <2>2 DEF CursorOf
    <2> QED BY <1>5, <1>7, <2>1, <2>2, <2>3
  <1>8. CASE Return(Failed) /\ UNCHANGED logVars
    <2>1. CallOK' /\ ReplyFits(reply')
      BY <1>1, <1>8, FailedStep
    <2>2. Numbers'
      BY <1>0, <1>2, <1>8, NumbersStay
    <2> QED BY <2>1, <2>2 DEF Inv
  <1> QED BY <1>6, <1>7, <1>8 DEF CommitAck

(* The latest snapshot of the selected binding is looked up.               *)
LEMMA ReadSnapshotStep ==
    ASSUME Inv, ReadSnapshot, UNCHANGED client
    PROVE  Inv'
  <1>0. call.stage = "snapshot" /\ UNCHANGED <<logVars, snapshots, allowed>>
    BY DEF ReadSnapshot
  <1>1. /\ CallFits(call, client, cursor, head, request[Session])
        /\ call \in CallRecord /\ Located(call) /\ Selected(call)
    BY <1>0, CallUnderWay
  <1>2. Numbers /\ ReplyFits(reply) /\ Numbers'
    BY <1>0, NumbersStay DEF Inv
  <1>3. SelectedStream \in Streams
    BY <1>0, <1>1, SelectedFacts DEF SelectingRpcs, SelectedStream, Located
  <1>4. CASE Return(Failed)
    <2>1. CallOK' /\ ReplyFits(reply')
      BY <1>1, <1>4, FailedStep
    <2> QED BY <1>2, <2>1 DEF Inv
  <1>5. CASE snapshots[SelectedStream] # {}
    <2> DEFINE S == snapshots[SelectedStream]
               m == Max(S)
               q2 == call'
    <2>1. /\ call' = [call EXCEPT !.stage = "cursor", !.snapshotSeq = m]
          /\ UNCHANGED reply
      BY <1>5 DEF ReadSnapshot
    <2>2. m \in S /\ m \in Nat /\ m <= head[SelectedStream]
      <3>1. S \in SUBSET Nat /\ head[SelectedStream] \in Nat
            /\ \A x \in S : x <= head[SelectedStream]
        BY <1>2, <1>3 DEF Numbers
      <3> HIDE DEF S
      <3>2. Max(S) \in S
        BY <1>5, <3>1, MaxOfBounded DEF S
      <3> QED BY <3>1, <3>2
    <2> HIDE DEF S, m
    <2>3. "cursor" \in Stages
      BY DEF Stages
    <2>4. /\ q2 \in CallRecord /\ q2.rpc = call.rpc /\ q2.input = call.input
          /\ q2.stage = "cursor" /\ q2.targets = call.targets /\ q2.bindings = call.bindings
          /\ q2.state = call.state /\ q2.selected = call.selected /\ q2.states = call.states
          /\ q2.results = call.results /\ q2.rejected = call.rejected /\ q2.snapshotSeq = m
      BY <1>1, <2>1, <2>2, <2>3, CallFields DEF CallRecord
    <2> HIDE DEF q2
    <2>5. head[call.selected.stream] >= q2.snapshotSeq
      <3>1. head[SelectedStream] \in Nat
        BY <1>2, <1>3 DEF Numbers
      <3> QED BY <2>2, <2>4, <3>1 DEF SelectedStream
    <2>6. CallFits(q2, client, cursor, head, request[Session])
      BY <1>0, <1>1, <2>4, <2>5, CursorNext
    <2>7. CallOK'
      BY <1>0, <2>6 DEF CallOK, q2, logVars
    <2> QED BY <1>2, <2>1, <2>7 DEF Inv
  <1> QED BY <1>4, <1>5 DEF ReadSnapshot

(* The cursor of a binding is read.                                        *)
LEMMA ReadCursorStep ==
    ASSUME Inv, ReadCursor, UNCHANGED client
    PROVE  Inv'
  <1>0. /\ call.stage = "cursor" /\ UNCHANGED <<logVars, snapshots, allowed, reply>>
        /\ call' = [call EXCEPT !.stage = "head",
                                !.cursorRead = CursorOf(call.bindings[1].stream)]
    BY DEF ReadCursor
  <1>1. /\ Basic(call, client) /\ Located(call) /\ Building(call, cursor, head)
        /\ Selected(call) /\ AckHeld(call, cursor) /\ SnapshotHeld(call, head)
        /\ CatchingUp(call, cursor, head) /\ Reported(call, call.targets)
        /\ call \in CallRecord
    BY <1>0, CallUnderWay
  <1>2. Numbers /\ ReplyFits(reply) /\ Numbers'
    BY <1>0, NumbersStay DEF Inv
  <1> DEFINE s == call.bindings[1].stream
             q2 == call'
  <1>3. s \in Streams
    BY <1>0, <1>1, PlaceFacts
  <1>4. CursorOf(s) = cursor[<<Subscriber, s>>] /\ cursor[<<Subscriber, s>>] \in Nat
    BY <1>2, <1>3, GatewayAssumption DEF CursorOf, Numbers
  <1> HIDE DEF s
  <1>5. /\ q2 \in CallRecord /\ q2.rpc = call.rpc /\ q2.input = call.input
        /\ q2.stage = "head" /\ q2.targets = call.targets /\ q2.bindings = call.bindings
        /\ q2.state = call.state /\ q2.selected = call.selected /\ q2.states = call.states
        /\ q2.results = call.results /\ q2.rejected = call.rejected
        /\ q2.snapshotSeq = call.snapshotSeq /\ q2.cursorRead = cursor[<<Subscriber, s>>]
    <2>1. "head" \in Stages
      BY DEF Stages
    <2> QED BY <1>0, <1>1, <1>4, <2>1, CallFields DEF CallRecord, s
  <1> HIDE DEF q2
  <1>6. Basic(q2, client)
    BY <1>1, <1>5 DEF Basic
  <1>7. Located(q2)
    BY <1>0, <1>1, <1>5 DEF Located
  <1>8. Building(q2, cursor, head)
    <2>1. q2.cursorRead <= cursor[<<Subscriber, q2.bindings[1].stream>>]
      BY <1>4, <1>5 DEF s
    <2> QED BY <1>0, <1>1, <1>5, <2>1 DEF Building
  <1>9. Selected(q2)
    BY <1>0, <1>1, <1>5 DEF Selected
  <1>10. AckHeld(q2, cursor)
    <2>1. SUFFICES ASSUME q2.rpc = "gatewayAck" PROVE AckHeld(q2, cursor)
      BY DEF AckHeld
    <2>2. /\ cursor[<<Subscriber, q2.selected.stream>>] >= q2.input.seq
          /\ CoversAck(q2.state, q2.selected, q2.input.seq)
      BY <1>0, <1>1, <1>5, <2>1 DEF AckHeld
    <2>3. q2.bindings[1] = q2.selected => q2.cursorRead >= q2.input.seq
      BY <1>5, <2>2 DEF s
    <2> QED BY <2>2, <2>3 DEF AckHeld
  <1>11. SnapshotHeld(q2, head)
    BY <1>0, <1>1, <1>5 DEF SnapshotHeld
  <1>12. CatchingUp(q2, cursor, head) /\ Requested(q2, head, request[Session])
    BY <1>0, <1>1, <1>5 DEF CatchingUp, CaughtUp, Requested
  <1>13. Reported(q2, q2.targets)
    BY <1>1, <1>5 DEF Reported
  <1>14. CallFits(q2, client, cursor, head, request[Session])
    BY <1>6, <1>7, <1>8, <1>9, <1>10, <1>11, <1>12, <1>13 DEF CallFits
  <1>15. CallOK'
    BY <1>0, <1>14 DEF CallOK, q2, logVars
  <1> QED BY <1>0, <1>2, <1>15 DEF Inv

-----------------------------------------------------------------------------
(* States that are complete and one more.                                  *)
LEMMA StatesOfAppend ==
    ASSUME NEW s \in Seq(TargetState), NEW st \in TargetState,
           \A i \in 1..Len(s) : Complete(s[i]), Complete(st)
    PROVE  LET u == Append(s, st)
           IN  /\ u \in Seq(TargetState) /\ u # <<>> /\ Len(u) = Len(s) + 1
               /\ Last(u) = st /\ \A i \in 1..Len(u) : Complete(u[i])
  <1> DEFINE n == Len(s)
             u == Append(s, st)
  <1>1. /\ n \in Nat /\ u \in Seq(TargetState) /\ Len(u) = n + 1 /\ u[n + 1] = st
        /\ \A i \in 1..n : u[i] = s[i]
    BY LenProperties, AppendProperties
  <1> HIDE DEF n, u
  <1>2. \A i \in 1..(n + 1) : i \in 1..n \/ i = n + 1
    BY <1>1
  <1>3. \A i \in 1..(n + 1) : Complete(u[i])
    BY <1>1, <1>2 DEF n
  <1>4. u # <<>>
    <2>1. Len(<<>>) = 0
      OBVIOUS
    <2>2. Len(u) > 0
      BY <1>1
    <2>3. ASSUME u = <<>> PROVE FALSE
      BY <2>1, <2>2, <2>3
    <2> QED BY <2>3
  <1>5. Last(u) = st
    BY <1>1 DEF Last
  <1> QED BY <1>1, <1>3, <1>4, <1>5 DEF n, u

(* The names of results.                                                   *)
LEMMA ResultNames ==
    ASSUME NEW s \in Seq(GatewayCatchUpResult)
    PROVE  Names(s) \in Seq(Name) /\ Len(Names(s)) = Len(s)
  <1>1. Len(s) \in Nat /\ \A i \in 1..Len(s) : s[i] \in GatewayCatchUpResult
    BY LenProperties, ElementOfSeq
  <1>2. \A r \in GatewayCatchUpResult : <<r.target, r.bindingKey>> \in Name
    BY DEF GatewayCatchUpResult, Name
  <1>3. \A i \in 1..Len(s) : <<s[i].target, s[i].bindingKey>> \in Name
    BY <1>1, <1>2
  <1> QED BY <1>1, <1>3, IsASeq, LenProperties DEF Names

(* The state the head belongs to, once it is read.                         *)
LEMMA HeadRead ==
    ASSUME Numbers, NEW q, q.stage = "head", Basic(q, client), Located(q),
           Building(q, cursor, head), Selected(q), AckHeld(q, cursor), SnapshotHeld(q, head),
           NEW b, b = q.bindings[1],
           NEW shown, shown = [bindingKey |-> b.key, cursorSeq |-> q.cursorRead,
                               headSeq |-> head[b.stream],
                               retainedSeqStart |-> retained[b.stream]],
           NEW new, new = Aggregate(q.state, shown)
    PROVE  /\ Partial(new) /\ Past(new, cursor, head) /\ new.target = q.targets[1]
           /\ Len(new.bindings) = Len(BindingsOf[q.targets[1]]) - Len(q.bindings) + 1
           /\ q.rpc = "gatewayAck" => CoversAck(new, q.selected, q.input.seq)
           /\ q.rpc = "gatewayGetLatestSnapshot" =>
                 CoversSnapshot(new, q.selected, q.snapshotSeq)
  <1> DEFINE t == q.targets[1]
             k == Len(BindingsOf[t]) - Len(q.bindings)
  <1>1. q \in CallRecord /\ q.input \in SyncGatewayService[q.rpc].input
    BY DEF Basic
  <1>2. /\ t \in DOMAIN BindingsOf /\ Len(q.bindings) \in Nat /\ Len(BindingsOf[t]) \in Nat
        /\ k \in Nat /\ k + 1 <= Len(BindingsOf[t]) /\ b = BindingsOf[t][k + 1]
        /\ b.stream \in Streams /\ b.key \in BindingKeys
    BY <1>1, PlaceFacts
  <1>3. /\ Partial(q.state) /\ Past(q.state, cursor, head) /\ q.state.target = t
        /\ Len(q.state.bindings) + Len(q.bindings) = Len(BindingsOf[t])
        /\ q.cursorRead <= cursor[<<Subscriber, b.stream>>]
    BY DEF Building
  <1>4. Len(q.state.bindings) = k
    <2>1. Len(q.state.bindings) \in Nat
      BY <1>3, StateFacts DEF Partial
    <2> DEFINE l == Len(q.state.bindings)
               m == Len(q.bindings)
               n == Len(BindingsOf[t])
    <2>2. l \in Nat /\ m \in Nat /\ n \in Nat /\ l + m = n
      BY <1>2, <1>3, <2>1
    <2> HIDE DEF l, m, n
    <2>3. l = n - m
      BY <2>2
    <2> QED BY <2>3 DEF l, m, n
  <1>5. /\ q.cursorRead \in Nat /\ head[b.stream] \in Nat /\ retained[b.stream] \in Nat
        /\ cursor[<<Subscriber, b.stream>>] \in Nat
        /\ cursor[<<Subscriber, b.stream>>] <= head[b.stream]
    BY <1>1, <1>2, CallFields, GatewayAssumption DEF Numbers
  <1>6. /\ shown \in TargetBindingState /\ shown.bindingKey = b.key
        /\ shown.cursorSeq = q.cursorRead /\ shown.headSeq = head[b.stream]
        /\ shown.cursorSeq <= shown.headSeq
    <2> DEFINE c == cursor[<<Subscriber, b.stream>>]
               h == head[b.stream]
    <2>1. q.cursorRead <= c /\ c <= h /\ q.cursorRead \in Nat /\ c \in Nat /\ h \in Nat
      BY <1>3, <1>5
    <2>2. q.cursorRead <= h
      <3> HIDE DEF c, h
      <3> QED BY <2>1
    <2>3. shown.bindingKey = b.key /\ shown.cursorSeq = q.cursorRead /\ shown.headSeq = h
      OBVIOUS
    <2>4. shown \in TargetBindingState
      BY <1>2, <1>5 DEF TargetBindingState
    <2> QED BY <2>2, <2>3, <2>4
  <1> HIDE DEF t, k
  <1>7. /\ k + 1 \in Nat /\ k + 1 = Len(q.state.bindings) + 1
        /\ k + 1 <= Len(BindingsOf[q.state.target]) /\ b = BindingsOf[q.state.target][k + 1]
    BY <1>2, <1>3, <1>4
  <1>8. /\ Partial(new) /\ Past(new, cursor, head) /\ new.target = q.state.target
        /\ Len(new.bindings) = k + 1
        /\ \A x, seq : CoversAck(q.state, x, seq) /\ (x = b => shown.cursorSeq >= seq)
                          => CoversAck(new, x, seq)
        /\ \A x, seq : CoversSnapshot(q.state, x, seq) /\ (x = b => shown.headSeq >= seq)
                          => CoversSnapshot(new, x, seq)
    BY <1>3, <1>6, <1>7, StateExtended
  <1>9. q.rpc = "gatewayAck" => CoversAck(new, q.selected, q.input.seq)
    BY <1>6, <1>8 DEF AckHeld
  <1>10. q.rpc = "gatewayGetLatestSnapshot" => CoversSnapshot(new, q.selected, q.snapshotSeq)
    BY <1>6, <1>8 DEF SnapshotHeld
  <1> QED BY <1>3, <1>8, <1>9, <1>10 DEF t, k

(* A state that is complete joins the others.                              *)
LEMMA StateDone ==
    ASSUME NEW cl, NEW q, Basic(q, cl), Located(q), q.stage = "head", Selected(q),
           Reported(q, q.targets), q.rpc # "gatewayCatchUp",
           NEW new, Complete(new), new.target = q.targets[1],
           q.rpc = "gatewayAck" => CoversAck(new, q.selected, q.input.seq),
           q.rpc = "gatewayGetLatestSnapshot" =>
                 CoversSnapshot(new, q.selected, q.snapshotSeq),
           NEW done \in CallRecord, done.rpc = q.rpc, done.input = q.input,
           done.targets = q.targets, done.selected = q.selected,
           done.snapshotSeq = q.snapshotSeq, done.results = q.results,
           done.rejected = q.rejected, done.states = Append(q.states, new)
    PROVE  Finished(done, cl)
  <1>1. /\ q \in CallRecord /\ q.targets # <<>> /\ q.input \in SyncGatewayService[q.rpc].input
        /\ \A i \in 1..Len(q.states) : Complete(q.states[i])
    BY DEF Basic
  <1>2. q.states \in Seq(TargetState) /\ new \in TargetState
    BY <1>1, CallFields DEF Complete, Partial
  <1>3. /\ Len(done.states) = Len(q.states) + 1
        /\ \A i \in 1..Len(done.states) : Complete(done.states[i])
    BY <1>1, <1>2, StatesOfAppend
  <1>4. Basic(done, cl)
    BY <1>1, <1>3 DEF Basic
  <1>5. CaughtUp(done, Tail(done.targets))
    BY DEF CaughtUp
  <1>6. Reported(done, Tail(done.targets))
    <2>1. SUFFICES ASSUME q.rpc = "modifySubscription", NEW t
                   PROVE  CountIn(TargetsIn(done.states), t) + CountIn(TargetsIn(q.rejected), t)
                            + CountIn(Tail(q.targets), t) = CountIn(q.input.addTargets, t)
      BY DEF Reported
    <2> DEFINE a == CountIn(TargetsIn(q.states), t)
               b == CountIn(TargetsIn(q.rejected), t)
               c == CountIn(Tail(q.targets), t)
               one == IF q.targets[1] = t THEN 1 ELSE 0
    <2>2. a + b + CountIn(q.targets, t) = CountIn(q.input.addTargets, t)
      BY <2>1 DEF Reported
    <2>3. /\ q.targets \in Seq(SyncTarget) /\ q.targets[1] \in SyncTarget
          /\ Tail(q.targets) \in Seq(SyncTarget)
      BY <1>1, TargetsFacts
    <2>4. CountIn(q.targets, t) = one + c
      BY <1>1, <2>3, CountOfTail
    <2>5. TargetsIn(q.states) \in Seq(SyncTarget) /\ TargetsIn(q.rejected) \in Seq(SyncTarget)
      BY <1>1, CallFields, StateTargets, RejectionTargets
    <2>6. CountIn(TargetsIn(done.states), t) = a + one
      <3>1. TargetsIn(done.states) = Append(TargetsIn(q.states), q.targets[1])
        BY <1>2, TargetsInAppend
      <3> QED BY <2>3, <2>5, <3>1, CountOfAppend
    <2>7. a \in Nat /\ b \in Nat /\ c \in Nat /\ one \in Nat
      BY <2>3, <2>5, PlacesFinite
    <2> HIDE DEF a, b, c, one
    <2>8. (a + one) + b + c = CountIn(q.input.addTargets, t)
      BY <2>2, <2>4, <2>7
    <2> QED BY <2>6, <2>8 DEF b, c
  <1>7. ASSUME q.rpc \in SelectingRpcs
        PROVE  /\ done.targets = <<done.input.target>>
               /\ done.selected \in SelectBinding(done.input.target, done.input.bindingKey)
               /\ Len(done.states) = 1 /\ done.states[1] = new
               /\ new.target = done.input.target
    <2>1. /\ q.targets = <<q.input.target>> /\ q.states = <<>>
          /\ q.selected \in SelectBinding(q.input.target, q.input.bindingKey)
      BY <1>7 DEF Selected
    <2>2. q.targets[1] = q.input.target
      BY <2>1
    <2>3. done.states = <<new>>
      BY <2>1
    <2>4. Len(<<new>>) = 1 /\ <<new>>[1] = new
      OBVIOUS
    <2> QED BY <2>1, <2>2, <2>3, <2>4
  <1>8. q.rpc = "gatewayAck" => CoversAck(done.states[1], done.selected, done.input.seq)
    BY <1>7 DEF SelectingRpcs
  <1>9. q.rpc = "gatewayGetLatestSnapshot" =>
           CoversSnapshot(done.states[1], done.selected, done.snapshotSeq)
    BY <1>7 DEF SelectingRpcs
  <1> QED BY <1>4, <1>5, <1>6, <1>7, <1>8, <1>9 DEF Finished

(* A catch-up has the state of a target: its bindings are asked for.       *)
LEMMA StateForCatchUp ==
    ASSUME NEW cl, NEW cur, NEW hd, NEW asked, NEW q, Basic(q, cl), Located(q),
           q.stage = "head", q.rpc = "gatewayCatchUp", CatchingUp(q, cur, hd),
           NEW new, Complete(new), new.target = q.targets[1], Past(new, cur, hd),
           NEW q2 \in CallRecord, q2.rpc = q.rpc, q2.input = q.input, q2.stage = "ask",
           q2.targets = q.targets, q2.bindings = BindingsOf[q.targets[1]],
           q2.results = q.results, q2.rejected = q.rejected, q2.states = Append(q.states, new)
    PROVE  CallFits(q2, cl, cur, hd, asked)
  <1> DEFINE t == q.targets[1]
  <1>1. /\ q \in CallRecord /\ q.targets # <<>> /\ q.input \in SyncGatewayService[q.rpc].input
        /\ \A i \in 1..Len(q.states) : Complete(q.states[i])
    BY DEF Basic
  <1>2. q.states \in Seq(TargetState) /\ new \in TargetState
    BY <1>1, CallFields DEF Complete, Partial
  <1>3. /\ q2.states # <<>> /\ Last(q2.states) = new
        /\ \A i \in 1..Len(q2.states) : Complete(q2.states[i])
    BY <1>1, <1>2, StatesOfAppend
  <1>4. Basic(q2, cl)
    BY <1>1, <1>3 DEF Basic
  <1>5. t \in DOMAIN BindingsOf
    BY DEF Located
  <1>6. Located(q2)
    BY <1>5, WholePlaces DEF Located
  <1>7. /\ Building(q2, cur, hd) /\ Selected(q2) /\ AckHeld(q2, cur) /\ SnapshotHeld(q2, hd)
        /\ Requested(q2, hd, asked) /\ Reported(q2, q2.targets)
    BY DEF Building, Selected, AckHeld, SnapshotHeld, Requested, Reported, SelectingRpcs
  <1>8. CatchingUp(q2, cur, hd)
    <2> DEFINE done == Expected(DoneOf(q.targets, q.input.targets))
               names == NamesOf(t)
    <2>1. LeftOf(q.targets, q.input.targets) /\ Names(q.results) = done
      BY DEF CatchingUp, CaughtUp
    <2>2. done \in Seq(Name)
      BY <1>1, <2>1, CallFields, ResultNames
    <2>3. SubSeq(names, 1, Len(names) - Len(q2.bindings)) = <<>>
      <3>1. Len(BindingsOf[t]) \in Nat
        BY <1>5, TargetFacts
      <3>2. Len(names) = Len(BindingsOf[t])
        BY <3>1 DEF NamesOf
      <3>3. Len(names) - Len(q2.bindings) = 0
        BY <3>1, <3>2
      <3>4. SubSeq(names, 1, 0) = <<>>
        BY DEF NamesOf
      <3> QED BY <3>3, <3>4
    <2> HIDE DEF done, names
    <2>4. done = done \o <<>>
      BY <2>2, ConcatEmptySeq
    <2>5. Names(q2.results) = done \o SubSeq(names, 1, Len(names) - Len(q2.bindings))
      BY <2>1, <2>3, <2>4
    <2> QED BY <1>3, <2>1, <2>2, <2>5 DEF CatchingUp, done, names
  <1> QED BY <1>4, <1>6, <1>7, <1>8 DEF CallFits

(* The next binding of the state is to be read.                            *)
LEMMA StateGoesOn ==
    ASSUME NEW cl, NEW cur, NEW hd, NEW asked, NEW q, Basic(q, cl), Located(q),
           q.stage = "head", Selected(q), AckHeld(q, cur), SnapshotHeld(q, hd),
           CatchingUp(q, cur, hd), Reported(q, q.targets), Len(q.bindings) > 1,
           NEW new, Partial(new), Past(new, cur, hd), new.target = q.targets[1],
           Len(new.bindings) = Len(BindingsOf[q.targets[1]]) - Len(q.bindings) + 1,
           q.rpc = "gatewayAck" => CoversAck(new, q.selected, q.input.seq),
           q.rpc = "gatewayGetLatestSnapshot" =>
                 CoversSnapshot(new, q.selected, q.snapshotSeq),
           NEW q2 \in CallRecord, q2.rpc = q.rpc, q2.input = q.input, q2.stage = "cursor",
           q2.targets = q.targets, q2.bindings = Tail(q.bindings), q2.state = new,
           q2.selected = q.selected, q2.snapshotSeq = q.snapshotSeq, q2.states = q.states,
           q2.results = q.results, q2.rejected = q.rejected
    PROVE  CallFits(q2, cl, cur, hd, asked)
  <1>1. q \in CallRecord /\ q.targets[1] \in DOMAIN BindingsOf
    BY DEF Basic, Located
  <1>2. /\ q.bindings \in Seq(Binding) /\ Len(q.bindings) \in Nat
        /\ Len(BindingsOf[q.targets[1]]) \in Nat
    BY <1>1, PlaceFacts
  <1>3. /\ q2.bindings # <<>> /\ Len(q2.bindings) = Len(q.bindings) - 1
        /\ Len(q2.bindings) <= Len(BindingsOf[q.targets[1]])
        /\ \A j \in 1..Len(q2.bindings) :
              q2.bindings[j] = BindingsOf[q.targets[1]]
                                [Len(BindingsOf[q.targets[1]]) - Len(q2.bindings) + j]
    <2>1. /\ Len(q.bindings) <= Len(BindingsOf[q.targets[1]])
          /\ \A j \in 1..Len(q.bindings) :
                q.bindings[j] = BindingsOf[q.targets[1]]
                                  [Len(BindingsOf[q.targets[1]]) - Len(q.bindings) + j]
      BY DEF Located
    <2> DEFINE u == Tail(q.bindings)
    <2>2. /\ u # <<>> /\ Len(u) = Len(q.bindings) - 1
          /\ Len(u) <= Len(BindingsOf[q.targets[1]])
          /\ \A j \in 1..Len(u) :
                u[j] = BindingsOf[q.targets[1]][Len(BindingsOf[q.targets[1]]) - Len(u) + j]
      BY <1>1, <1>2, <2>1, TailPlaces
    <2>3. q2.bindings = u
      OBVIOUS
    <2> HIDE DEF u
    <2> QED BY <2>2, <2>3
  <1>4. Basic(q2, cl)
    BY DEF Basic
  <1>5. Located(q2)
    BY <1>1, <1>3 DEF Located
  <1>6. Building(q2, cur, hd)
    <2> DEFINE m == Len(q.bindings)
               n == Len(BindingsOf[q.targets[1]])
    <2>0. Len(new.bindings) = n - m + 1 /\ Len(q2.bindings) = m - 1 /\ m \in Nat /\ n \in Nat
      BY <1>2, <1>3
    <2>1. Len(q2.state.bindings) + Len(q2.bindings) = Len(BindingsOf[q2.targets[1]])
      <3> DEFINE a == Len(q2.state.bindings)
                 c == Len(q2.bindings)
      <3>1. a = n - m + 1 /\ c = m - 1 /\ Len(BindingsOf[q2.targets[1]]) = n
        BY <2>0
      <3> HIDE DEF a, c, m, n
      <3>2. a + c = n
        BY <2>0, <3>1
      <3> QED BY <3>1, <3>2 DEF a, c
    <2> QED BY <2>1 DEF Building
  <1>7. Selected(q2)
    BY DEF Selected
  <1>8. AckHeld(q2, cur) /\ SnapshotHeld(q2, hd)
    BY DEF AckHeld, SnapshotHeld
  <1>9. CatchingUp(q2, cur, hd) /\ Requested(q2, hd, asked) /\ Reported(q2, q2.targets)
    BY DEF CatchingUp, CaughtUp, Requested, Reported
  <1> QED BY <1>4, <1>5, <1>6, <1>7, <1>8, <1>9 DEF CallFits

(* The head of a binding is read: its state joins the target's, and with   *)
(* the last one the target's joins the others.                             *)
LEMMA ReadHeadStep ==
    ASSUME Inv, ReadHead, UNCHANGED client
    PROVE  Inv'
  <1> DEFINE b == call.bindings[1]
             shown == [bindingKey |-> b.key, cursorSeq |-> call.cursorRead,
                       headSeq |-> head[b.stream], retainedSeqStart |-> retained[b.stream]]
             new == Aggregate(call.state, shown)
             q == [call EXCEPT !.state = Aggregate(@, shown)]
             done == [q EXCEPT !.states = Append(@, q.state)]
  <1>0. /\ call.stage = "head" /\ UNCHANGED <<logVars, snapshots, allowed>>
        /\ IF Len(call.bindings) > 1
           THEN call' = [q EXCEPT !.bindings = Tail(@), !.stage = "cursor"] /\ UNCHANGED reply
           ELSE IF call.rpc = "gatewayCatchUp"
           THEN call' = [done EXCEPT !.bindings = BindingsOf[Target], !.stage = "ask"]
                /\ UNCHANGED reply
           ELSE NextTarget(done)
    BY DEF ReadHead
  <1>1. /\ Basic(call, client) /\ Located(call) /\ Building(call, cursor, head)
        /\ Selected(call) /\ AckHeld(call, cursor) /\ SnapshotHeld(call, head)
        /\ CatchingUp(call, cursor, head) /\ Reported(call, call.targets)
        /\ call \in CallRecord
    BY <1>0, CallUnderWay
  <1>2. Numbers /\ ReplyFits(reply) /\ Numbers'
    BY <1>0, NumbersStay DEF Inv
  <1> HIDE DEF shown, b
  <1>3. /\ Partial(new) /\ Past(new, cursor, head) /\ new.target = call.targets[1]
        /\ Len(new.bindings) = Len(BindingsOf[call.targets[1]]) - Len(call.bindings) + 1
        /\ call.rpc = "gatewayAck" => CoversAck(new, call.selected, call.input.seq)
        /\ call.rpc = "gatewayGetLatestSnapshot" =>
              CoversSnapshot(new, call.selected, call.snapshotSeq)
    BY <1>0, <1>1, <1>2, HeadRead DEF b, shown
  <1> HIDE DEF new
  <1>4. new \in TargetState
    BY <1>3 DEF Partial
  <1>5. /\ q \in CallRecord /\ q.state = new /\ q.rpc = call.rpc /\ q.input = call.input
        /\ q.targets = call.targets /\ q.bindings = call.bindings
        /\ q.selected = call.selected /\ q.snapshotSeq = call.snapshotSeq
        /\ q.states = call.states /\ q.results = call.results /\ q.rejected = call.rejected
    BY <1>1, <1>4, CallFields DEF CallRecord, new
  <1>6. Append(call.states, new) \in Seq(TargetState)
    BY <1>1, <1>4, CallFields, AppendProperties
  <1> HIDE DEF q
  <1>7. /\ done \in CallRecord /\ done.rpc = call.rpc /\ done.input = call.input
        /\ done.targets = call.targets /\ done.bindings = call.bindings
        /\ done.selected = call.selected /\ done.snapshotSeq = call.snapshotSeq
        /\ done.states = Append(call.states, new) /\ done.results = call.results
        /\ done.rejected = call.rejected
    BY <1>5, <1>6, CallFields DEF CallRecord
  <1> HIDE DEF done
  <1>8. /\ Len(call.bindings) \in Nat \ {0} /\ Len(BindingsOf[call.targets[1]]) \in Nat
        /\ call.bindings \in Seq(Binding)
        /\ call.targets[1] \in DOMAIN BindingsOf
    BY <1>0, <1>1, PlaceFacts
  <1>9. CASE Len(call.bindings) > 1
    <2> DEFINE q2 == call'
    <2>1. call' = [q EXCEPT !.bindings = Tail(@), !.stage = "cursor"] /\ UNCHANGED reply
      BY <1>0, <1>9
    <2>2. Tail(call.bindings) \in Seq(Binding) /\ "cursor" \in Stages
      <3>1. call.bindings # <<>>
        BY <1>0, <1>1 DEF Located
      <3> QED BY <1>8, <3>1, HeadTailProperties DEF Stages
    <2>3. /\ q2 \in CallRecord /\ q2.rpc = call.rpc /\ q2.input = call.input
          /\ q2.stage = "cursor" /\ q2.targets = call.targets
          /\ q2.bindings = Tail(call.bindings) /\ q2.state = new
          /\ q2.selected = call.selected /\ q2.snapshotSeq = call.snapshotSeq
          /\ q2.states = call.states /\ q2.results = call.results
          /\ q2.rejected = call.rejected
      BY <1>5, <2>1, <2>2, CallFields DEF CallRecord
    <2> HIDE DEF q2
    <2>4. CallFits(q2, client, cursor, head, request[Session])
      BY <1>0, <1>1, <1>3, <1>9, <2>3, StateGoesOn
    <2>5. CallOK'
      BY <1>0, <2>4 DEF CallOK, q2, logVars
    <2> QED BY <1>2, <2>1, <2>5 DEF Inv
  <1>10. ASSUME ~(Len(call.bindings) > 1) PROVE Complete(new)
    <2> DEFINE m == Len(call.bindings)
               n == Len(BindingsOf[call.targets[1]])
    <2>1. m \in Nat \ {0} /\ n \in Nat /\ ~(m > 1) /\ Len(new.bindings) = n - m + 1
      BY <1>3, <1>8, <1>10
    <2>2. Len(new.bindings) = n
      <3> HIDE DEF m, n
      <3>1. m = 1
        BY <2>1
      <3> QED BY <2>1, <3>1
    <2> QED BY <1>3, <2>2 DEF Complete
  <1>11. CASE ~(Len(call.bindings) > 1) /\ call.rpc = "gatewayCatchUp"
    <2> DEFINE q2 == call'
    <2>1. call' = [done EXCEPT !.bindings = BindingsOf[Target], !.stage = "ask"]
          /\ UNCHANGED reply
      BY <1>0, <1>11
    <2>2. BindingsOf[Target] \in Seq(Binding) /\ "ask" \in Stages
      BY <1>8, TargetFacts DEF Target, Stages
    <2>3. /\ q2 \in CallRecord /\ q2.rpc = call.rpc /\ q2.input = call.input
          /\ q2.stage = "ask" /\ q2.targets = call.targets
          /\ q2.bindings = BindingsOf[call.targets[1]]
          /\ q2.states = Append(call.states, new) /\ q2.results = call.results
          /\ q2.rejected = call.rejected
      BY <1>7, <2>1, <2>2, CallFields DEF CallRecord, Target
    <2> HIDE DEF q2
    <2>4. CallFits(q2, client, cursor, head, request[Session])
      BY <1>0, <1>1, <1>3, <1>10, <1>11, <2>3, StateForCatchUp
    <2>5. CallOK'
      BY <1>0, <2>4 DEF CallOK, q2, logVars
    <2> QED BY <1>2, <2>1, <2>5 DEF Inv
  <1>12. CASE ~(Len(call.bindings) > 1) /\ call.rpc # "gatewayCatchUp"
    <2>1. NextTarget(done)
      BY <1>0, <1>12
    <2>2. Finished(done, client)
      BY <1>0, <1>1, <1>3, <1>7, <1>10, <1>12, StateDone
    <2>3. CallOK' /\ ReplyFits(reply')
      BY <1>2, <1>7, <2>1, <2>2, NextTargetStep
    <2> QED BY <1>2, <2>3 DEF Inv
  <1> QED BY <1>9, <1>11, <1>12

-----------------------------------------------------------------------------
(* The names of the results, one more each time.                           *)
LEMMA NamesOfAppend ==
    ASSUME NEW s \in Seq(GatewayCatchUpResult), NEW r \in GatewayCatchUpResult
    PROVE  Names(Append(s, r)) = Names(s) \o <<<<r.target, r.bindingKey>>>>
  <1> DEFINE n == Len(s)
             u == Append(s, r)
             x == <<r.target, r.bindingKey>>
             a == Names(u)
             b == Append(Names(s), x)
  <1>1. /\ n \in Nat /\ u \in Seq(GatewayCatchUpResult) /\ Len(u) = n + 1 /\ u[n + 1] = r
        /\ \A i \in 1..n : u[i] = s[i]
    BY LenProperties, AppendProperties
  <1>2. Names(s) \in Seq(Name) /\ Len(Names(s)) = n
    BY ResultNames
  <1>3. a \in Seq(Name) /\ Len(a) = n + 1
    BY <1>1, ResultNames
  <1>4. x \in Name
    BY DEF GatewayCatchUpResult, Name
  <1>5. a = [i \in 1..(n + 1) |-> <<u[i].target, u[i].bindingKey>>]
    BY <1>1 DEF Names
  <1>6. Names(s) = [i \in 1..n |-> <<s[i].target, s[i].bindingKey>>]
    BY DEF Names
  <1> HIDE DEF n, u
  <1>7. /\ b \in Seq(Name) /\ Len(b) = n + 1 /\ b[n + 1] = x
        /\ \A i \in 1..n : b[i] = Names(s)[i]
    <2> HIDE DEF x
    <2> QED BY <1>2, <1>4, AppendProperties
  <1>8. \A i \in 1..(n + 1) : i \in 1..n \/ i = n + 1
    BY <1>1
  <1>9. \A i \in 1..(n + 1) : a[i] = b[i]
    BY <1>1, <1>5, <1>6, <1>7, <1>8
  <1>10. a = b
    <2> HIDE DEF a, b
    <2> QED BY <1>3, <1>7, <1>9, SeqEqual
  <1>11. b = Names(s) \o <<x>>
    BY <1>2, <1>4, AppendIsConcat
  <1> QED BY <1>10, <1>11 DEF u

(* The names of the bindings of a target.                                  *)
LEMMA NamesOfTarget ==
    ASSUME NEW t \in DOMAIN BindingsOf
    PROVE  /\ NamesOf(t) \in Seq(Name) /\ Len(NamesOf(t)) = Len(BindingsOf[t])
           /\ \A j \in 1..Len(BindingsOf[t]) : NamesOf(t)[j] = <<t, BindingsOf[t][j].key>>
  <1>1. /\ Len(BindingsOf[t]) \in Nat /\ t \in SyncTarget
        /\ \A j \in 1..Len(BindingsOf[t]) : BindingsOf[t][j].key \in BindingKeys
    BY TargetFacts
  <1>2. \A j \in 1..Len(BindingsOf[t]) : <<t, BindingsOf[t][j].key>> \in Name
    BY <1>1 DEF Name
  <1> QED BY <1>1, <1>2, IsASeq, LenProperties DEF NamesOf

(* The names that are due with one more target.                            *)
LEMMA ExpectedOfAppend ==
    ASSUME NEW V, NEW s \in Seq(V), NEW t \in V, NamesOf(t) \in Seq(Name)
    PROVE  Expected(Append(s, t)) = Expected(s) \o NamesOf(t)
  <1> DEFINE n == Len(s)
             u == Append(s, t)
             W == {NamesOf(x) : x \in V}
             a == [i \in 1..Len(u) |-> NamesOf(u[i])]
             c == [i \in 1..n |-> NamesOf(s[i])]
             b == Append(c, NamesOf(t))
  <1>1. /\ n \in Nat /\ Len(u) = n + 1 /\ u[n + 1] = t
        /\ \A i \in 1..n : u[i] = s[i] /\ s[i] \in V
    BY LenProperties, AppendProperties, ElementOfSeq
  <1> HIDE DEF n, u
  <1>2. \A i \in 1..(n + 1) : i \in 1..n \/ i = n + 1
    BY <1>1
  <1>3. a = [i \in 1..(n + 1) |-> NamesOf(u[i])] /\ \A i \in 1..(n + 1) : u[i] \in V
    BY <1>1, <1>2
  <1>4. \A x \in V : NamesOf(x) \in W
    OBVIOUS
  <1> HIDE DEF W
  <1>5. c \in Seq(W) /\ Len(c) = n
    <2>1. \A i \in 1..n : NamesOf(s[i]) \in W
      BY <1>1, <1>4
    <2> QED BY <1>1, <2>1, IsASeq, LenProperties
  <1>6. a \in Seq(W) /\ Len(a) = n + 1
    <2>1. \A i \in 1..(n + 1) : NamesOf(u[i]) \in W
      BY <1>3, <1>4
    <2>2. n + 1 \in Nat
      BY <1>1
    <2>3. [i \in 1..(n + 1) |-> NamesOf(u[i])] \in Seq(W)
      BY <2>1, <2>2, IsASeq
    <2> QED BY <1>3, <2>2, <2>3, LenProperties
  <1>7. /\ b \in Seq(W) /\ Len(b) = n + 1 /\ b[n + 1] = NamesOf(t)
        /\ \A i \in 1..n : b[i] = c[i]
    <2> HIDE DEF c
    <2> QED BY <1>4, <1>5, AppendProperties
  <1>8. \A i \in 1..(n + 1) : a[i] = b[i]
    BY <1>1, <1>2, <1>3, <1>7
  <1>9. a = b
    <2> HIDE DEF a, b
    <2> QED BY <1>6, <1>7, <1>8, SeqEqual
  <1>10. Expected(u) = FlattenSeq(b) /\ Expected(s) = FlattenSeq(c)
    BY <1>9 DEF Expected, n
  <1>11. FlattenSeq(b) = IF c = <<>> THEN NamesOf(t) ELSE FlattenSeq(c) \o NamesOf(t)
    <2>1. NamesOf(t) \in W
      BY <1>4
    <2> HIDE DEF c
    <2> QED BY <1>5, <2>1, FlattenOfAppend
  <1>12. CASE c # <<>>
    BY <1>10, <1>11, <1>12 DEF u
  <1>13. CASE c = <<>>
    <2>1. FlattenSeq(<<>>) = <<>>
      BY DEF FlattenSeq
    <2>2. <<>> \o NamesOf(t) = NamesOf(t)
      BY ConcatEmptySeq
    <2> HIDE DEF c, b
    <2>3. Expected(s) = <<>> /\ Expected(u) = NamesOf(t)
      BY <1>10, <1>11, <1>13, <2>1
    <2> QED BY <2>2, <2>3 DEF u
  <1> QED BY <1>12, <1>13

(* One more target is done with.                                           *)
LEMMA DoneMore ==
    ASSUME NEW V, NEW all \in Seq(V), NEW rest \in Seq(V), rest # <<>>, LeftOf(rest, all)
    PROVE  /\ LeftOf(Tail(rest), all) /\ DoneOf(rest, all) \in Seq(V)
           /\ DoneOf(Tail(rest), all) = Append(DoneOf(rest, all), rest[1])
  <1> DEFINE n == Len(all)
             m == Len(rest)
             u == Tail(rest)
             k == n - m
  <1>1. /\ n \in Nat /\ m \in Nat \ {0} /\ Len(u) = m - 1 /\ rest[1] \in V
        /\ \A i \in 1..Len(u) : u[i] = rest[i + 1]
    BY LenProperties, EmptySeq, HeadTailProperties, ElementOfSeq
  <1>2. m <= n /\ \A j \in 1..m : rest[j] = all[n - m + j]
    BY DEF LeftOf
  <1>3. \A i \in 1..n : all[i] \in V
    BY ElementOfSeq
  <1> HIDE DEF n, m, u
  <1>4. k \in Nat /\ k + 1 \in 1..n /\ n - Len(u) = k + 1 /\ k + 1 <= n /\ Len(u) <= n
    BY <1>1, <1>2
  <1>5. rest[1] = all[k + 1]
    BY <1>1, <1>2
  <1>6. LeftOf(u, all)
    <2>1. ASSUME NEW j \in 1..Len(u) PROVE u[j] = all[n - Len(u) + j]
      <3>1. j + 1 \in 1..m /\ n - m + (j + 1) = n - Len(u) + j
        BY <1>1
      <3> QED BY <1>1, <1>2, <3>1
    <2> QED BY <1>4, <2>1 DEF LeftOf, n
  <1> HIDE DEF k
  <1>7. SubSeq(all, 1, k) \in Seq(V)
    <2>1. \A i \in 1..k : all[i] \in V
      BY <1>1, <1>3, <1>4
    <2> QED BY <1>4, <2>1, SubSeqProperties
  <1>8. SubSeq(all, 1, k + 1) = SubSeq(all, 1, k) \o <<all[k + 1]>>
    <2>1. 1 \in 1..Len(all) /\ k + 1 \in 1..Len(all) /\ (k + 1) - 1 = k
      BY <1>1, <1>4 DEF n
    <2> DEFINE l == k + 1
    <2>2. l \in 1..Len(all) /\ l - 1 = k /\ 1 \in 1..Len(all)
      BY <2>1
    <2> HIDE DEF l
    <2>3. SubSeq(all, 1, l) = SubSeq(all, 1, l - 1) \o <<all[l]>>
      BY <2>2, SubSeqRecursiveSecond
    <2> QED BY <2>2, <2>3 DEF l
  <1>9. DoneOf(rest, all) = SubSeq(all, 1, k) /\ DoneOf(u, all) = SubSeq(all, 1, k + 1)
    BY <1>4 DEF DoneOf, n, m, k
  <1>10. Append(SubSeq(all, 1, k), rest[1]) = SubSeq(all, 1, k) \o <<rest[1]>>
    BY <1>1, <1>7, AppendIsConcat
  <1> QED BY <1>5, <1>6, <1>7, <1>8, <1>9, <1>10 DEF u

-----------------------------------------------------------------------------
(* A batch goes on right after the cursor it was asked from, and a final   *)
(* one ends at the head.                                                   *)
LEMMA BatchFacts ==
    ASSUME NEW t \in SyncTarget, NEW key \in BindingKeys, NEW from \in Nat, NEW limit \in Nat,
           NEW last \in Nat, from <= last
    PROVE  LET batch == GatewayBatchOf(t, key, from, Log!Batch(from, limit, last))
           IN  /\ batch \in GatewayBatch
               /\ batch.events # <<>> => batch.seqStart = from + 1
               /\ batch.final => batch.seq = last
  <1> DEFINE answer == Log!Batch(from, limit, last)
             seq == Log!Smaller(from + limit, last)
             n == seq - from
             batch == GatewayBatchOf(t, key, from, answer)
             event == [i \in 1..n |-> [target |-> t, seq |-> answer.seqs[i], bindingKey |-> key,
                        payloadType |-> CHOOSE type \in PayloadTypes : TRUE,
                        payloadVersion |-> 1]]
  <1>1. seq \in Nat /\ n \in Nat /\ seq <= last /\ from <= seq
    BY DEF Log!Smaller
  <1>2. /\ answer.seqs = [i \in 1..n |-> from + i] /\ answer.head = last
        /\ answer.final = (seq = last)
    BY DEF Log!Batch
  <1> HIDE DEF seq, answer
  <1>3. Len(answer.seqs) = n
    BY <1>1, <1>2
  <1>4. answer.seqs = <<>> <=> n = 0
    <2>1. answer.seqs = <<>> => n = 0
      BY <1>3
    <2>2. n = 0 => 1..n = {}
      BY <1>1
    <2>3. n = 0 => answer.seqs = <<>>
      BY <1>2, <2>2
    <2> QED BY <2>1, <2>3
  <1>5. n # 0 => answer.seqs[1] = from + 1
    <2>1. n # 0 => 1 \in 1..n
      BY <1>1
    <2> QED BY <1>2, <2>1
  <1>6. /\ batch.target = t /\ batch.bindingKey = key /\ batch.events = event
        /\ batch.seqStart = (IF answer.seqs = <<>> THEN 0 ELSE answer.seqs[1])
        /\ batch.seq = (IF answer.seqs = <<>> THEN answer.head ELSE from + Len(answer.seqs))
        /\ batch.final = answer.final
        /\ batch = [target |-> batch.target, bindingKey |-> batch.bindingKey,
                    events |-> batch.events, seqStart |-> batch.seqStart, seq |-> batch.seq,
                    final |-> batch.final]
    BY <1>3 DEF GatewayBatchOf
  <1>7. event \in Seq(GatewayEvent) /\ Len(event) = n
    <2>1. (CHOOSE type \in PayloadTypes : TRUE) \in PayloadTypes
      BY GatewayAssumption
    <2>2. \A i \in 1..n : answer.seqs[i] \in Nat
      BY <1>1, <1>2
    <2>3. \A i \in 1..n : [target |-> t, seq |-> answer.seqs[i], bindingKey |-> key,
                           payloadType |-> CHOOSE type \in PayloadTypes : TRUE,
                           payloadVersion |-> 1] \in GatewayEvent
      BY <2>1, <2>2 DEF GatewayEvent
    <2> HIDE DEF n
    <2> QED BY <1>1, <2>3, IsASeq, LenProperties
  <1> HIDE DEF batch, event
  <1>8. batch.events # <<>> => n # 0
    <2>1. n = 0 => event = <<>>
      BY <1>7, EmptySeq
    <2> QED BY <1>6, <2>1
  <1>9. batch.events # <<>> => batch.seqStart = from + 1
    BY <1>4, <1>5, <1>6, <1>8
  <1>10. batch.final => batch.seq = last
    <2>1. SUFFICES ASSUME batch.final PROVE batch.seq = last
      OBVIOUS
    <2>2. seq = last
      BY <1>2, <1>6, <2>1
    <2>3. from + n = seq
      BY <1>1
    <2> QED BY <1>2, <1>3, <1>6, <2>2, <2>3
  <1>11. batch \in GatewayBatch
    <2>1. batch.seqStart \in Nat
      BY <1>4, <1>5, <1>6
    <2>2. batch.seq \in Nat
      <3>1. answer.head \in Nat /\ from + n \in Nat
        BY <1>1, <1>2
      <3> QED BY <1>3, <1>6, <3>1
    <2>3. batch.final \in BOOLEAN
      BY <1>2, <1>6
    <2> QED BY <1>6, <1>7, <2>1, <2>2, <2>3 DEF GatewayBatch
  <1> QED BY <1>9, <1>10, <1>11 DEF batch, answer

-----------------------------------------------------------------------------
(* A binding is asked for at the sync service.                             *)
LEMMA AskBindingStep ==
    ASSUME Inv, AskBinding, UNCHANGED client
    PROVE  Inv'
  <1> DEFINE s == call.bindings[1].stream
             from == cursor[<<Subscriber, s>>]
             q2 == call'
             asked == request'[Session]
             t == call.targets[1]
             k == Len(BindingsOf[t]) - Len(call.bindings)
  <1>0. /\ call.stage = "ask" /\ UNCHANGED <<snapshots, allowed, reply>>
        /\ Log!Ask(Session, s, call.input.limitPerTarget, call.input.totalLimitPerTarget)
        /\ call' = [call EXCEPT !.stage = "answer"]
    BY DEF AskBinding
  <1>1. /\ Basic(call, client) /\ Located(call) /\ CatchingUp(call, cursor, head)
        /\ Reported(call, call.targets) /\ call \in CallRecord
        /\ call.input \in SyncGatewayService[call.rpc].input
    BY <1>0, CallUnderWay
  <1>2. Numbers /\ ReplyFits(reply)
    BY DEF Inv
  <1>3. call.rpc = "gatewayCatchUp" /\ call.input.limitPerTarget \in Nat
    BY <1>0, <1>1, InputFacts DEF Located
  <1>4. /\ t \in DOMAIN BindingsOf /\ s \in Streams /\ call.bindings[1] = BindingsOf[t][k + 1]
        /\ k \in Nat /\ k + 1 \in 1..Len(BindingsOf[t])
    BY <1>0, <1>1, PlaceFacts
  <1>5. /\ UNCHANGED <<head, retained, cursor>>
        /\ request' = [request EXCEPT ![Session] =
                         Log!Asked(s, call.input.limitPerTarget,
                                   call.input.totalLimitPerTarget, from)]
    <2>1. [c \in {Session} |-> Subscriber][Session] = Subscriber
      OBVIOUS
    <2> QED BY <1>0, <2>1 DEF Log!Ask
  <1>6. DOMAIN request' = {Session} /\ asked = Log!Asked(s, call.input.limitPerTarget,
                                                  call.input.totalLimitPerTarget, from)
    BY <1>2, <1>5 DEF Numbers
  <1>7. Numbers'
    BY <1>0, <1>2, <1>5, <1>6 DEF Numbers
  <1>8. /\ q2 \in CallRecord /\ q2.rpc = call.rpc /\ q2.input = call.input
        /\ q2.stage = "answer" /\ q2.targets = call.targets /\ q2.bindings = call.bindings
        /\ q2.states = call.states /\ q2.results = call.results
        /\ q2.rejected = call.rejected
    <2>1. "answer" \in Stages
      BY DEF Stages
    <2> QED BY <1>0, <1>1, <2>1, CallFields DEF CallRecord
  <1> HIDE DEF q2
  <1>9. Basic(q2, client) /\ Located(q2)
    BY <1>0, <1>1, <1>3, <1>8 DEF Basic, Located
  <1>10. /\ Building(q2, cursor, head) /\ Selected(q2) /\ AckHeld(q2, cursor)
         /\ SnapshotHeld(q2, head) /\ Reported(q2, q2.targets)
    BY <1>3, <1>8 DEF Building, Selected, AckHeld, SnapshotHeld, Reported, SelectingRpcs
  <1>11. CatchingUp(q2, cursor, head)
    BY <1>0, <1>1, <1>8 DEF CatchingUp
  <1>12. Requested(q2, head, asked)
    <2>1. /\ asked.phase = "asked" /\ asked.stream = s /\ asked.from = from
          /\ asked.limit = call.input.limitPerTarget
      BY <1>6 DEF Log!Asked
    <2>2. from \in Nat /\ from <= head[s]
      BY <1>2, <1>4, GatewayAssumption DEF Numbers
    <2>3. Last(call.states).bindings[k + 1].cursorSeq <= from
      <3> DEFINE st == Last(call.states)
      <3>1. call.states # <<>> /\ st.target = t /\ Past(st, cursor, head)
        BY <1>0, <1>1 DEF CatchingUp
      <3>2. Complete(st)
        <4>1. call.states \in Seq(TargetState) /\ Len(call.states) \in Nat \ {0}
          BY <1>1, <3>1, CallFields, EmptySeq
        <4> QED BY <1>1, <4>1 DEF Basic, Last
      <3>3. Len(st.bindings) = Len(BindingsOf[t])
        BY <3>1, <3>2 DEF Complete
      <3> HIDE DEF st, k, t
      <3> QED BY <1>4, <3>1, <3>3 DEF Past, st
    <2> HIDE DEF asked, s, from
    <2> QED BY <1>3, <1>8, <2>1, <2>2, <2>3 DEF Requested, s
  <1>13. CallFits(q2, client, cursor, head, request'[Session])
    BY <1>9, <1>10, <1>11, <1>12 DEF CallFits
  <1>14. CallOK'
    BY <1>5, <1>13 DEF CallOK, q2
  <1> QED BY <1>0, <1>2, <1>7, <1>14 DEF Inv

(* What the answer to a request is: nothing, or the batch from there.      *)
LEMMA AnswerGiven ==
    ASSUME Numbers, NEW asked, asked = request[Session],
           asked.phase = "asked", asked.stream \in Streams,
           Log!AnswerTooLong(Session) \/ Log!AnswerBatch(Session)
    PROVE  /\ UNCHANGED <<head, retained, cursor>> /\ DOMAIN request' = {Session}
           /\ \/ request'[Session].answer = Log!TooLong
              \/ request'[Session].answer
                    = Log!Batch(asked.from, asked.limit, head[asked.stream])
  <1>1. request' = [request EXCEPT ![Session] = Log!Answered(asked, Log!TooLong)]
        \/ request' = [request EXCEPT ![Session] =
             Log!Answered(asked, Log!Batch(asked.from, asked.limit, head[asked.stream]))]
    BY DEF Log!AnswerTooLong, Log!AnswerBatch
  <1>2. UNCHANGED <<head, retained, cursor>>
    BY DEF Log!AnswerTooLong, Log!AnswerBatch
  <1>3. \A x : Log!Answered(asked, x).answer = x
    BY DEF Log!Answered
  <1>4. DOMAIN request' = {Session}
        /\ \/ request'[Session] = Log!Answered(asked, Log!TooLong)
           \/ request'[Session] =
                Log!Answered(asked, Log!Batch(asked.from, asked.limit, head[asked.stream]))
    BY <1>1 DEF Numbers
  <1> QED BY <1>2, <1>3, <1>4

(* The result that is made of an answer fits the state read before it.     *)
LEMMA ResultMade ==
    ASSUME Numbers, NEW q, q.stage = "answer", Basic(q, client), Located(q),
           CatchingUp(q, cursor, head),
           NEW asked, Requested(q, head, asked),
           NEW b, b = q.bindings[1],
           NEW answer, \/ answer = Log!TooLong
                       \/ answer = Log!Batch(asked.from, asked.limit, head[asked.stream]),
           NEW result,
           result = [target |-> q.targets[1], bindingKey |-> b.key, state |-> Last(q.states),
                     status |-> IF answer.status = "ok" THEN "OK" ELSE "TOO_LONG",
                     batch |-> IF answer.status # "ok" THEN Absent
                               ELSE GatewayBatchOf(q.targets[1], b.key, asked.from, answer)]
    PROVE  result \in GatewayCatchUpResult /\ ResultFits(result)
  <1> DEFINE t == q.targets[1]
             n == Len(BindingsOf[t])
             k == n - Len(q.bindings)
             st == Last(q.states)
             batch == GatewayBatchOf(t, b.key, asked.from, answer)
  <1>1. q \in CallRecord
    BY DEF Basic
  <1>2. /\ t \in DOMAIN BindingsOf /\ t \in SyncTarget /\ b.stream \in Streams
        /\ b.key \in BindingKeys /\ b = BindingsOf[t][k + 1] /\ k \in Nat /\ n \in Nat
        /\ k + 1 \in 1..n
    BY <1>1, PlaceFacts
  <1>3. /\ asked.stream = b.stream /\ asked.limit \in Nat /\ asked.from \in Nat
        /\ asked.from <= head[asked.stream]
        /\ st.bindings[k + 1].cursorSeq <= asked.from
    BY DEF Requested
  <1>4. q.states # <<>> /\ st.target = t /\ Past(st, cursor, head)
    BY DEF CatchingUp
  <1>5. Complete(st) /\ st \in TargetState /\ Len(st.bindings) = n
    <2>1. q.states \in Seq(TargetState) /\ Len(q.states) \in Nat \ {0}
      BY <1>1, <1>4, CallFields, EmptySeq
    <2>2. Complete(st)
      BY <2>1 DEF Basic, Last
    <2> QED BY <1>4, <2>2 DEF Complete, Partial
  <1>6. /\ st.bindings[k + 1].cursorSeq \in Nat /\ st.bindings[k + 1].headSeq \in Nat
        /\ st.bindings[k + 1].headSeq <= head[b.stream]
    <2> HIDE DEF st, k, n
    <2>1. \A j \in 1..n : st.bindings[j].cursorSeq \in Nat /\ st.bindings[j].headSeq \in Nat
      BY <1>5, StateFacts
    <2>2. \A j \in 1..n : st.bindings[j].headSeq <= head[BindingsOf[t][j].stream]
      BY <1>4, <1>5 DEF Past
    <2> QED BY <1>2, <2>1, <2>2
  <1>7. head[asked.stream] \in Nat
    BY <1>2, <1>3 DEF Numbers
  <1> HIDE DEF t, n, k, st
  <1>8. /\ result.target = t /\ result.bindingKey = b.key /\ result.state = st
        /\ result.status \in CatchUpStatus
        /\ result.batch = (IF answer.status # "ok" THEN Absent ELSE batch)
        /\ result = [target |-> result.target, bindingKey |-> result.bindingKey,
                     state |-> result.state, status |-> result.status,
                     batch |-> result.batch]
    BY DEF CatchUpStatus, t, st
  <1>9. CASE answer.status # "ok"
    <2>1. result.batch = Absent
      BY <1>8, <1>9
    <2>2. result \in GatewayCatchUpResult
      BY <1>2, <1>5, <1>8, <2>1 DEF GatewayCatchUpResult, Optional
    <2>3. ResultFits(result)
      BY <1>2, <1>4, <1>5, <1>8, <2>1 DEF ResultFits, n
    <2> QED BY <2>2, <2>3
  <1>10. CASE answer.status = "ok"
    <2> DEFINE h == head[asked.stream]
    <2>1. answer = Log!Batch(asked.from, asked.limit, h)
      BY <1>10 DEF Log!TooLong
    <2>2. /\ batch \in GatewayBatch
          /\ batch.events # <<>> => batch.seqStart = asked.from + 1
          /\ batch.final => batch.seq = h
      BY <1>2, <1>3, <1>7, <2>1, BatchFacts
    <2> HIDE DEF batch
    <2>3. result.batch = batch
      BY <1>8, <1>10
    <2>4. result \in GatewayCatchUpResult
      BY <1>2, <1>5, <1>8, <2>2, <2>3 DEF GatewayCatchUpResult, Optional
    <2> DEFINE c == st.bindings[k + 1].cursorSeq
               l == st.bindings[k + 1].headSeq
    <2>5. c <= asked.from /\ l <= h /\ c \in Nat /\ l \in Nat /\ h \in Nat /\ asked.from \in Nat
      BY <1>3, <1>6, <1>7
    <2> HIDE DEF c, l, h
    <2>6. batch.events # <<>> => batch.seqStart > c
      BY <2>2, <2>5
    <2>7. batch.final => batch.seq >= l
      BY <2>2, <2>5
    <2>8. ResultFits(result)
      BY <1>2, <1>4, <1>5, <1>8, <2>3, <2>6, <2>7 DEF ResultFits, n, c, l
    <2> QED BY <2>4, <2>8
  <1> QED BY <1>9, <1>10

(* Results that fit and one more.                                          *)
LEMMA ResultsOfAppend ==
    ASSUME NEW s \in Seq(GatewayCatchUpResult), NEW r \in GatewayCatchUpResult,
           \A i \in 1..Len(s) : ResultFits(s[i]), ResultFits(r)
    PROVE  LET u == Append(s, r)
           IN  u \in Seq(GatewayCatchUpResult) /\ \A i \in 1..Len(u) : ResultFits(u[i])
  <1> DEFINE n == Len(s)
             u == Append(s, r)
  <1>1. /\ n \in Nat /\ u \in Seq(GatewayCatchUpResult) /\ Len(u) = n + 1 /\ u[n + 1] = r
        /\ \A i \in 1..n : u[i] = s[i]
    BY LenProperties, AppendProperties
  <1> HIDE DEF n, u
  <1>2. \A i \in 1..(n + 1) : i \in 1..n \/ i = n + 1
    BY <1>1
  <1>3. \A i \in 1..(n + 1) : ResultFits(u[i])
    BY <1>1, <1>2 DEF n
  <1> QED BY <1>1, <1>3 DEF n, u

(* One more binding of the current target has been answered for.           *)
LEMMA NamesGrow ==
    ASSUME NEW q, q.stage = "answer", Basic(q, client), Located(q),
           CatchingUp(q, cursor, head),
           NEW r \in GatewayCatchUpResult, r.target = q.targets[1],
           r.bindingKey = q.bindings[1].key
    PROVE  LET done == Expected(DoneOf(q.targets, q.input.targets))
               names == NamesOf(q.targets[1])
           IN  Names(Append(q.results, r))
                 = done \o SubSeq(names, 1, Len(names) - Len(q.bindings) + 1)
  <1> DEFINE t == q.targets[1]
             n == Len(BindingsOf[t])
             k == n - Len(q.bindings)
             done == Expected(DoneOf(q.targets, q.input.targets))
             names == NamesOf(t)
  <1>1. q \in CallRecord
    BY DEF Basic
  <1>2. /\ t \in DOMAIN BindingsOf /\ k \in Nat /\ n \in Nat /\ k + 1 \in 1..n
        /\ q.bindings[1] = BindingsOf[t][k + 1]
    BY <1>1, PlaceFacts
  <1>3. /\ names \in Seq(Name) /\ Len(names) = n
        /\ names[k + 1] = <<r.target, r.bindingKey>>
    BY <1>2, NamesOfTarget
  <1>4. done \in Seq(Name) /\ Names(q.results) = done \o SubSeq(names, 1, k)
    BY <1>3 DEF CatchingUp
  <1>5. Names(Append(q.results, r)) = Names(q.results) \o <<names[k + 1]>>
    <2>1. q.results \in Seq(GatewayCatchUpResult)
      BY <1>1, CallFields
    <2> QED BY <1>3, <2>1, NamesOfAppend
  <1> HIDE DEF done, names, k, n
  <1>6. SubSeq(names, 1, k) \in Seq(Name) /\ <<names[k + 1]>> \in Seq(Name)
    <2>1. \A i \in 1..n : names[i] \in Name
      BY <1>3, ElementOfSeq
    <2>2. \A i \in 1..k : names[i] \in Name
      BY <1>2, <2>1
    <2>3. names[k + 1] \in Name
      BY <1>2, <2>1
    <2> QED BY <1>2, <2>2, <2>3, SubSeqProperties
  <1>7. SubSeq(names, 1, k + 1) = SubSeq(names, 1, k) \o <<names[k + 1]>>
    <2> DEFINE l == k + 1
    <2>1. l \in 1..Len(names) /\ l - 1 = k /\ 1 \in 1..Len(names)
      BY <1>2, <1>3
    <2> HIDE DEF l
    <2>2. SubSeq(names, 1, l) = SubSeq(names, 1, l - 1) \o <<names[l]>>
      BY <1>3, <2>1, SubSeqRecursiveSecond
    <2> QED BY <2>1, <2>2 DEF l
  <1>8. (done \o SubSeq(names, 1, k)) \o <<names[k + 1]>>
          = done \o (SubSeq(names, 1, k) \o <<names[k + 1]>>)
    <2> DEFINE a == SubSeq(names, 1, k)
               c == <<names[k + 1]>>
    <2> HIDE DEF a, c
    <2>1. done \in Seq(Name) /\ a \in Seq(Name) /\ c \in Seq(Name)
      BY <1>4, <1>6 DEF a, c
    <2>2. (done \o a) \o c = done \o (a \o c)
      <3>1. \A u, v, w \in Seq(Name) : (u \o v) \o w = u \o (v \o w)
        BY ConcatAssociative
      <3> QED BY <2>1, <3>1
    <2> QED BY <2>2 DEF a, c
  <1>9. Len(names) - Len(q.bindings) + 1 = k + 1
    BY <1>3 DEF k
  <1>10. Names(Append(q.results, r)) = done \o SubSeq(names, 1, k + 1)
    BY <1>4, <1>5, <1>7, <1>8
  <1> QED BY <1>9, <1>10 DEF done, names

-----------------------------------------------------------------------------
(* The next binding of a target is to be asked for.                        *)
LEMMA CatchUpGoesOn ==
    ASSUME NEW q, q.stage = "answer", Basic(q, client), Located(q),
           CatchingUp(q, cursor, head), Len(q.bindings) > 1,
           NEW r \in GatewayCatchUpResult, ResultFits(r), r.target = q.targets[1],
           r.bindingKey = q.bindings[1].key, NEW asked,
           NEW q2 \in CallRecord, q2.rpc = q.rpc, q2.input = q.input, q2.stage = "ask",
           q2.targets = q.targets, q2.bindings = Tail(q.bindings), q2.states = q.states,
           q2.results = Append(q.results, r), q2.rejected = q.rejected
    PROVE  CallFits(q2, client, cursor, head, asked)
  <1> DEFINE t == q.targets[1]
             n == Len(BindingsOf[t])
             m == Len(q.bindings)
             u == Tail(q.bindings)
             names == NamesOf(t)
             done == Expected(DoneOf(q.targets, q.input.targets))
  <1>1. q \in CallRecord /\ t \in DOMAIN BindingsOf
    BY DEF Basic, Located
  <1>2. q.bindings \in Seq(Binding) /\ m \in Nat /\ n \in Nat
    BY <1>1, PlaceFacts
  <1>3. /\ u # <<>> /\ Len(u) = m - 1 /\ Len(u) <= n
        /\ \A j \in 1..Len(u) : u[j] = BindingsOf[t][n - Len(u) + j]
    <2>1. m <= n /\ \A j \in 1..m : q.bindings[j] = BindingsOf[t][n - m + j]
      BY DEF Located
    <2> QED BY <1>1, <1>2, <2>1, TailPlaces
  <1>4. q2.bindings = u /\ q.rpc = "gatewayCatchUp"
    BY DEF Located
  <1> HIDE DEF u
  <1>5. Basic(q2, client)
    <2>1. q.results \in Seq(GatewayCatchUpResult)
      BY <1>1, CallFields
    <2>2. \A i \in 1..Len(q2.results) : ResultFits(q2.results[i])
      BY <2>1, ResultsOfAppend DEF Basic
    <2> QED BY <2>2 DEF Basic
  <1>6. Located(q2)
    BY <1>1, <1>3, <1>4 DEF Located
  <1>7. /\ Building(q2, cursor, head) /\ Selected(q2) /\ AckHeld(q2, cursor)
        /\ SnapshotHeld(q2, head) /\ Requested(q2, head, asked) /\ Reported(q2, q2.targets)
    BY <1>4 DEF Building, Selected, AckHeld, SnapshotHeld, Requested, Reported, SelectingRpcs
  <1>8. CatchingUp(q2, cursor, head)
    <2>1. /\ LeftOf(q.targets, q.input.targets) /\ done \in Seq(Name)
          /\ q.states # <<>> /\ Last(q.states).target = t /\ Past(Last(q.states), cursor, head)
      BY DEF CatchingUp
    <2>2. Names(q2.results) = done \o SubSeq(names, 1, Len(names) - m + 1)
      BY NamesGrow
    <2>3. Len(names) - m + 1 = Len(names) - Len(q2.bindings)
      <3>1. Len(names) = n
        BY <1>1, NamesOfTarget
      <3> DEFINE l == Len(names)
                 c == Len(q2.bindings)
      <3>2. l \in Nat /\ m \in Nat /\ c = m - 1
        BY <1>2, <1>3, <1>4, <3>1
      <3> HIDE DEF l, c, m
      <3>3. l - m + 1 = l - c
        BY <3>2
      <3> QED BY <3>3 DEF l, c
    <2> HIDE DEF names, done
    <2>4. Names(q2.results) = done \o SubSeq(names, 1, Len(names) - Len(q2.bindings))
      BY <2>2, <2>3
    <2> QED BY <2>1, <2>4 DEF CatchingUp, names, done
  <1> QED BY <1>5, <1>6, <1>7, <1>8 DEF CallFits

(* The last binding of a target has been answered for.                     *)
LEMMA CatchUpDone ==
    ASSUME NEW q, q.stage = "answer", Basic(q, client), Located(q),
           CatchingUp(q, cursor, head), Len(q.bindings) = 1,
           NEW r \in GatewayCatchUpResult, ResultFits(r), r.target = q.targets[1],
           r.bindingKey = q.bindings[1].key,
           NEW q2 \in CallRecord, q2.rpc = q.rpc, q2.input = q.input,
           q2.targets = q.targets, q2.states = q.states,
           q2.results = Append(q.results, r), q2.rejected = q.rejected
    PROVE  Finished(q2, client)
  <1> DEFINE t == q.targets[1]
             names == NamesOf(t)
             before == DoneOf(q.targets, q.input.targets)
             done == Expected(before)
  <1>1. /\ q \in CallRecord /\ t \in DOMAIN BindingsOf /\ q.rpc = "gatewayCatchUp"
        /\ q.targets # <<>> /\ q.input \in SyncGatewayService[q.rpc].input
    BY DEF Basic, Located
  <1>2. Basic(q2, client)
    <2>1. q.results \in Seq(GatewayCatchUpResult)
      BY <1>1, CallFields
    <2>2. \A i \in 1..Len(q2.results) : ResultFits(q2.results[i])
      BY <2>1, ResultsOfAppend DEF Basic
    <2> QED BY <2>2 DEF Basic
  <1>3. LeftOf(q.targets, q.input.targets) /\ done \in Seq(Name)
    BY DEF CatchingUp
  <1>4. names \in Seq(Name) /\ Len(names) \in Nat
    BY <1>1, NamesOfTarget, LenProperties
  <1>5. Names(q2.results) = done \o names
    <2>1. Names(q2.results) = done \o SubSeq(names, 1, Len(names) - Len(q.bindings) + 1)
      BY NamesGrow
    <2> HIDE DEF names, done
    <2>2. Len(names) - Len(q.bindings) + 1 = Len(names)
      BY <1>4
    <2>3. SubSeq(names, 1, Len(names)) = names
      BY <1>4, SubSeqFull
    <2> QED BY <2>1, <2>2, <2>3
  <1>6. /\ q.targets \in Seq(SyncTarget) /\ q.input.targets \in Seq(SyncTarget)
        /\ t \in SyncTarget
    BY <1>1, TargetsFacts, InputFacts
  <1>7. /\ LeftOf(Tail(q.targets), q.input.targets) /\ before \in Seq(SyncTarget)
        /\ DoneOf(Tail(q.targets), q.input.targets) = Append(before, t)
    BY <1>1, <1>3, <1>6, DoneMore
  <1>8. Expected(Append(before, t)) = done \o names
    <2> HIDE DEF before
    <2> QED BY <1>4, <1>6, <1>7, ExpectedOfAppend
  <1>9. CaughtUp(q2, Tail(q2.targets))
    BY <1>5, <1>7, <1>8 DEF CaughtUp
  <1> QED BY <1>1, <1>2, <1>9 DEF Finished, Reported, SelectingRpcs

(* The answer of the sync service becomes a result; the next binding, the  *)
(* next target or the end of the call follows.                             *)
LEMMA AnswerBindingStep ==
    ASSUME Inv, AnswerBinding, UNCHANGED client
    PROVE  Inv'
  <1> DEFINE b == call.bindings[1]
             asked == request[Session]
             answer == request'[Session].answer
             result == [target |-> Target, bindingKey |-> b.key, state |-> Last(call.states),
                        status |-> IF answer.status = "ok" THEN "OK" ELSE "TOO_LONG",
                        batch |-> IF answer.status # "ok" THEN Absent
                                  ELSE GatewayBatchOf(Target, b.key, asked.from, answer)]
             q == AddResult(result)
  <1>0. /\ call.stage = "answer" /\ UNCHANGED <<snapshots, allowed>>
        /\ Log!AnswerTooLong(Session) \/ Log!AnswerBatch(Session)
        /\ IF Target \notin allowed /\ answer.status = "ok" /\ answer.seqs # <<>>
           THEN Return(Failed)
           ELSE IF Len(call.bindings) > 1
           THEN call' = [q EXCEPT !.bindings = Tail(@), !.stage = "ask"] /\ UNCHANGED reply
           ELSE NextTarget(q)
    BY DEF AnswerBinding
  <1>1. /\ CallFits(call, client, cursor, head, asked)
        /\ Basic(call, client) /\ Located(call) /\ CatchingUp(call, cursor, head)
        /\ Requested(call, head, asked) /\ call \in CallRecord
    BY <1>0, CallUnderWay
  <1>2. Numbers /\ ReplyFits(reply)
    BY DEF Inv
  <1>3. /\ b.stream \in Streams /\ Len(call.bindings) \in Nat \ {0}
        /\ call.bindings \in Seq(Binding) /\ call.bindings # <<>>
    BY <1>0, <1>1, PlaceFacts DEF Located
  <1>4. asked.phase = "asked" /\ asked.stream \in Streams
    BY <1>0, <1>1, <1>3 DEF Requested
  <1>5. /\ UNCHANGED <<head, retained, cursor>> /\ DOMAIN request' = {Session}
        /\ \/ answer = Log!TooLong
           \/ answer = Log!Batch(asked.from, asked.limit, head[asked.stream])
    BY <1>0, <1>2, <1>4, AnswerGiven
  <1>6. Numbers'
    BY <1>0, <1>2, <1>5 DEF Numbers
  <1> HIDE DEF answer, asked
  <1>7. result \in GatewayCatchUpResult /\ ResultFits(result)
    BY <1>0, <1>1, <1>2, <1>5, ResultMade DEF Target
  <1>8. result.target = call.targets[1] /\ result.bindingKey = b.key
    BY DEF Target
  <1> HIDE DEF result
  <1>9. Append(call.results, result) \in Seq(GatewayCatchUpResult)
    BY <1>1, <1>7, CallFields, AppendProperties
  <1>10. /\ q \in CallRecord /\ q.rpc = call.rpc /\ q.input = call.input
         /\ q.targets = call.targets /\ q.bindings = call.bindings /\ q.states = call.states
         /\ q.results = Append(call.results, result) /\ q.rejected = call.rejected
    BY <1>1, <1>9, CallFields DEF CallRecord, AddResult
  <1> HIDE DEF q
  <1>11. CASE Return(Failed)
    <2>1. CallOK' /\ ReplyFits(reply')
      BY <1>1, <1>11, FailedStep DEF asked
    <2> QED BY <1>6, <2>1 DEF Inv
  <1>12. CASE /\ Len(call.bindings) > 1
              /\ call' = [q EXCEPT !.bindings = Tail(@), !.stage = "ask"] /\ UNCHANGED reply
    <2> DEFINE q2 == call'
    <2>1. Tail(call.bindings) \in Seq(Binding) /\ "ask" \in Stages
      BY <1>3, HeadTailProperties DEF Stages
    <2>2. /\ q2 \in CallRecord /\ q2.rpc = call.rpc /\ q2.input = call.input
          /\ q2.stage = "ask" /\ q2.targets = call.targets
          /\ q2.bindings = Tail(call.bindings) /\ q2.states = call.states
          /\ q2.results = Append(call.results, result) /\ q2.rejected = call.rejected
      BY <1>10, <1>12, <2>1, CallFields DEF CallRecord
    <2> HIDE DEF q2
    <2>3. CallFits(q2, client, cursor, head, request'[Session])
      BY <1>0, <1>1, <1>7, <1>8, <1>12, <2>2, CatchUpGoesOn
    <2>4. CallOK'
      BY <1>5, <2>3 DEF CallOK, q2
    <2> QED BY <1>2, <1>6, <1>12, <2>4 DEF Inv
  <1>13. CASE ~(Len(call.bindings) > 1) /\ NextTarget(q)
    <2>1. Len(call.bindings) = 1
      <3> DEFINE m == Len(call.bindings)
      <3>1. m \in Nat \ {0} /\ ~(m > 1)
        BY <1>3, <1>13
      <3> HIDE DEF m
      <3>2. m = 1
        BY <3>1
      <3> QED BY <3>2 DEF m
    <2>2. Finished(q, client)
      BY <1>0, <1>1, <1>7, <1>8, <1>10, <2>1, CatchUpDone
    <2>3. CallOK' /\ ReplyFits(reply')
      BY <1>2, <1>10, <1>13, <2>2, NextTargetStep
    <2> QED BY <1>6, <2>3 DEF Inv
  <1> QED BY <1>0, <1>11, <1>12, <1>13

-----------------------------------------------------------------------------
(* Every step keeps the invariant.                                         *)
LEMMA GatewayStep == Inv /\ [Next]_vars => Inv'
  <1> SUFFICES ASSUME Inv, [Next]_vars PROVE Inv'
    OBVIOUS
  <1>1. CASE UNCHANGED vars
    BY <1>1, WorldSteps DEF vars
  <1>2. CASE Next
    <2>1. UNCHANGED client
      BY <1>2 DEF Next
    <2>2. CASE StartNext
      BY <2>1, <2>2, StartSteps
    <2>3. CASE CallNext
      BY <2>1, <2>3, ResolveStep, CommitAckStep, ReadSnapshotStep, ReadCursorStep,
         ReadHeadStep, AskBindingStep, AnswerBindingStep DEF CallNext
    <2>4. CASE WorldNext
      BY <2>1, <2>4, WorldSteps
    <2> QED BY <1>2, <2>2, <2>3, <2>4 DEF Next
  <1> QED BY <1>1, <1>2

(* The invariant of the gateway's calls (engine.go): wherever a call       *)
(* stands among its targets and bindings, what it has read so far is in    *)
(* the order of the bindings, summed up exactly, behind the logs and       *)
(* cursors as they are now, and accounts for every target it has taken up. *)
THEOREM CallsInvariant == Spec => []Inv
  BY GatewayInit, GatewayStep, PTL DEF Spec

-----------------------------------------------------------------------------
(* Every call under way and every answer of the gateway engine is one its  *)
(* service defines (gateway.proto, engine.go).                             *)
THEOREM GatewayTypes == Spec => []TypeOK
  <1>1. Inv => TypeOK
    <2>1. SUFFICES ASSUME Inv PROVE TypeOK
      OBVIOUS
    <2>2. snapshots \in [Streams -> SUBSET (1..MaxSeq)]
      <3>1. ASSUME NEW s \in Streams, NEW seq \in snapshots[s] PROVE seq \in 1..MaxSeq
        <4>1. /\ seq \in Nat /\ 1 <= seq /\ seq <= head[s] /\ head[s] \in Nat
              /\ head[s] <= MaxSeq /\ MaxSeq \in Nat
          BY <2>1, <3>1, GatewayAssumption DEF Inv, Numbers
        <4> DEFINE h == head[s]
        <4> HIDE DEF h
        <4>2. seq \in Nat /\ 1 <= seq /\ seq <= h /\ h \in Nat /\ h <= MaxSeq /\ MaxSeq \in Nat
          BY <4>1 DEF h
        <4> QED BY <4>2
      <3>2. snapshots \in [Streams -> SUBSET Nat]
        BY <2>1 DEF Inv, Numbers
      <3> QED BY <3>1, <3>2
    <2>3. allowed \subseteq DOMAIN BindingsOf
      BY <2>1 DEF Inv, Numbers
    <2>4. CASE call = Idle
      <3>1. call.stage = "idle"
        BY <2>4 DEF Idle
      <3>2. ReplyFits(reply)
        BY <2>1 DEF Inv
      <3> QED BY <2>2, <2>3, <2>4, <3>1, <3>2 DEF TypeOK, ReplyFits, OutputFits
    <2>5. CASE call # Idle
      <3>1. Basic(call, client) /\ Located(call)
        BY <2>1, <2>5 DEF Inv, CallOK, CallFits
      <3>2. /\ call.rpc \in client.rpcs /\ call.input \in SyncGatewayService[call.rpc].input
            /\ call.stage \in Stages
        BY <3>1, CallFields DEF Basic
      <3>3. call.bindings # <<>> \/ call.stage = "resolve"
        BY <3>1 DEF Located
      <3>4. ReplyFits(reply)
        BY <2>1 DEF Inv
      <3> QED BY <2>2, <2>3, <3>2, <3>3, <3>4 DEF TypeOK, ReplyFits, OutputFits, Stages
    <2> QED BY <2>4, <2>5
  <1> QED BY <1>1, CallsInvariant, PTL

(* A value of a sequence is at some place of it.                           *)
LEMMA InRange ==
    ASSUME NEW V, NEW s \in Seq(V), NEW x \in Range(s)
    PROVE  x \in V /\ \E i \in 1..Len(s) : x = s[i]
  <1>1. DOMAIN s = 1..Len(s)
    BY LenProperties
  <1> QED BY <1>1, ElementOfSeq DEF Range

(* What an rpc that did not fail has returned.                             *)
LEMMA ReturnedFits ==
    ASSUME Inv, NEW rpc, Returned(rpc)
    PROVE  /\ rpc \in Rpcs /\ reply.rpc = rpc /\ reply.input \in SyncGatewayService[rpc].input
           /\ OutputFits(rpc, reply.input, reply.output)
           /\ reply.output \in SyncGatewayService[rpc].output
  BY DEF Inv, Returned, ReplyFits, OutputFits

(* The states, results and rejections an answer holds.                     *)
LEMMA ReturnedTypes ==
    ASSUME Inv
    PROVE  /\ Returned("open") => reply.output.targets \in Seq(TargetState)
           /\ Returned("modifySubscription") =>
                 reply.output.added \in Seq(TargetState)
                 /\ reply.output.rejected \in Seq(TargetRejection)
           /\ Returned("gatewayCatchUp") =>
                 reply.output.results \in Seq(GatewayCatchUpResult)
           /\ Returned("gatewayGetLatestSnapshot") => reply.output.snapshot \in GatewaySnapshot
  <1>1. ASSUME Returned("open")
        PROVE  reply.output.targets \in Seq(TargetState)
    <2>1. reply.output \in SyncGatewayService["open"].output
      BY <1>1, ReturnedFits
    <2>2. reply.output \in [targets : Seq(TargetState)]
      BY <2>1, OutputFacts
    <2> QED BY <2>2
  <1>2. ASSUME Returned("modifySubscription")
        PROVE  reply.output.added \in Seq(TargetState)
                 /\ reply.output.rejected \in Seq(TargetRejection)
    <2>1. reply.output \in SyncGatewayService["modifySubscription"].output
      BY <1>2, ReturnedFits
    <2>2. reply.output \in [added : Seq(TargetState), rejected : Seq(TargetRejection)]
      BY <2>1, OutputFacts
    <2> QED BY <2>2
  <1>3. ASSUME Returned("gatewayCatchUp")
        PROVE  reply.output.results \in Seq(GatewayCatchUpResult)
    <2>1. reply.output \in SyncGatewayService["gatewayCatchUp"].output
      BY <1>3, ReturnedFits
    <2>2. reply.output \in [results : Seq(GatewayCatchUpResult)]
      BY <2>1, OutputFacts
    <2> QED BY <2>2
  <1>4. ASSUME Returned("gatewayGetLatestSnapshot")
        PROVE  reply.output.snapshot \in GatewaySnapshot
    <2>1. reply.output \in SyncGatewayService["gatewayGetLatestSnapshot"].output
      BY <1>4, ReturnedFits
    <2>2. reply.output \in [snapshot : GatewaySnapshot, state : TargetState]
      BY <2>1, OutputFacts
    <2> QED BY <2>2
  <1> QED BY <1>1, <1>2, <1>3, <1>4

(* Every state that is answered is complete.                               *)
LEMMA RepliedComplete ==
    ASSUME Inv, NEW st \in RepliedStates
    PROVE  Complete(st)
  <1>1. CASE Returned("open")
    <2>1. RepliedStates = Range(reply.output.targets)
      BY <1>1 DEF RepliedStates, Returned
    <2>2. reply.output.targets \in Seq(TargetState)
      BY <1>1, ReturnedTypes
    <2>3. \A i \in 1..Len(reply.output.targets) : Complete(reply.output.targets[i])
      BY <1>1, ReturnedFits DEF OutputFits
    <2> QED BY <2>1, <2>2, <2>3, InRange
  <1>2. CASE Returned("modifySubscription")
    <2>1. RepliedStates = Range(reply.output.added)
      BY <1>2 DEF RepliedStates, Returned
    <2>2. reply.output.added \in Seq(TargetState)
      BY <1>2, ReturnedTypes
    <2>3. \A i \in 1..Len(reply.output.added) : Complete(reply.output.added[i])
      BY <1>2, ReturnedFits DEF OutputFits
    <2> QED BY <2>1, <2>2, <2>3, InRange
  <1>3. CASE Returned("gatewayCatchUp")
    <2>1. RepliedStates = {r.state : r \in Range(reply.output.results)}
      BY <1>3 DEF RepliedStates, Returned
    <2>2. reply.output.results \in Seq(GatewayCatchUpResult)
      BY <1>3, ReturnedTypes
    <2>3. \A i \in 1..Len(reply.output.results) : ResultFits(reply.output.results[i])
      BY <1>3, ReturnedFits DEF OutputFits
    <2>4. PICK r \in Range(reply.output.results) : st = r.state
      BY <2>1
    <2>5. ResultFits(r)
      BY <2>2, <2>3, InRange
    <2> QED BY <2>4, <2>5 DEF ResultFits
  <1>4. CASE Returned("gatewayAck") \/ Returned("gatewayGetLatestSnapshot")
    <2>1. RepliedStates = {reply.output.state}
      BY <1>4 DEF RepliedStates, Returned
    <2>2. Complete(reply.output.state)
      BY <1>4, ReturnedFits DEF OutputFits, SelectingRpcs
    <2> QED BY <2>1, <2>2
  <1>5. CASE ~ \/ Returned("open") \/ Returned("modifySubscription")
               \/ Returned("gatewayCatchUp") \/ Returned("gatewayAck")
               \/ Returned("gatewayGetLatestSnapshot")
    <2>1. RepliedStates = {}
      BY <1>5 DEF RepliedStates
    <2> QED BY <2>1
  <1> QED BY <1>1, <1>2, <1>3, <1>4, <1>5

(* The parts of a complete state.                                          *)
LEMMA CompleteFacts ==
    ASSUME NEW st, Complete(st)
    PROVE  /\ st \in TargetState /\ st.target \in DOMAIN BindingsOf /\ Aggregated(st)
           /\ st.bindings # <<>> /\ st.bindings \in Seq(TargetBindingState)
           /\ Len(st.bindings) = Len(BindingsOf[st.target])
           /\ \A j \in 1..Len(st.bindings) : st.bindings[j].cursorSeq <= st.bindings[j].headSeq
  <1>1. /\ st \in TargetState /\ st.target \in DOMAIN BindingsOf /\ Aggregated(st)
        /\ Len(st.bindings) = Len(BindingsOf[st.target])
        /\ \A j \in 1..Len(st.bindings) : st.bindings[j].cursorSeq <= st.bindings[j].headSeq
    BY DEF Complete, Partial
  <1>2. Len(st.bindings) \in Nat \ {0} /\ st.bindings \in Seq(TargetBindingState)
    BY <1>1, TargetFacts, StateFacts
  <1>3. st.bindings # <<>>
    <2>1. Len(<<>>) = 0
      OBVIOUS
    <2>2. ASSUME st.bindings = <<>> PROVE FALSE
      BY <1>2, <2>1, <2>2
    <2> QED BY <2>2
  <1> QED BY <1>1, <1>2, <1>3

(* Whatever is acked, appended or discarded between the reads of a call:   *)
(* every target state that Open, ModifySubscription, GatewayCatchUp,       *)
(* GatewayAck or GatewayGetLatestSnapshot returns has all bindings of its  *)
(* target in order, no cursor beyond its head, the least cursor, the       *)
(* greatest head and the least boundary at the top (Engine.targetState),   *)
(* and a batch or snapshot that comes with it fits: the batch neither      *)
(* repeats what the cursor covers nor ends before the head when it is      *)
(* final, the snapshot is within the head.                                 *)
THEOREM StatesFit == Spec => []StatesShownFit
  <1> SUFFICES ASSUME Inv PROVE StatesShownFit
    BY CallsInvariant, PTL
  <1>1. CursorsShownWithinHead
    <2>1. SUFFICES ASSUME NEW st \in RepliedStates, NEW b \in Range(st.bindings)
                   PROVE  b.cursorSeq <= b.headSeq
      BY DEF CursorsShownWithinHead
    <2> QED BY RepliedComplete, CompleteFacts, InRange
  <1>2. AggregatesExact
    <2>1. SUFFICES ASSUME NEW st \in RepliedStates
                   PROVE  LET boundaries == {b.retainedSeqStart : b \in Range(st.bindings)} \ {0}
                          IN  /\ st.cursorSeq = Min({b.cursorSeq : b \in Range(st.bindings)})
                              /\ st.headSeq = Max({b.headSeq : b \in Range(st.bindings)})
                              /\ st.retainedSeqStart =
                                    IF boundaries = {} THEN 0 ELSE Min(boundaries)
      BY DEF AggregatesExact
    <2>2. st \in TargetState /\ Aggregated(st) /\ st.bindings # <<>>
      BY RepliedComplete, CompleteFacts
    <2> QED BY <2>2, AggregatedIsExact
  <1>3. BatchFitsState
    <2>1. SUFFICES ASSUME Returned("gatewayCatchUp"), NEW r \in Range(reply.output.results),
                          r.batch # Absent
                   PROVE  LET b == BindingIn(r.state, r.bindingKey)
                          IN  /\ r.batch.events # <<>> => r.batch.seqStart > b.cursorSeq
                              /\ r.batch.final => r.batch.seq >= b.headSeq
      BY DEF BatchFitsState
    <2>2. ResultFits(r)
      <3>1. reply.output.results \in Seq(GatewayCatchUpResult)
        BY <2>1, ReturnedTypes
      <3>2. \A i \in 1..Len(reply.output.results) : ResultFits(reply.output.results[i])
        BY <2>1, ReturnedFits DEF OutputFits
      <3> QED BY <3>1, <3>2, InRange
    <2>3. PICK j \in 1..Len(BindingsOf[r.target]) :
            /\ BindingsOf[r.target][j].key = r.bindingKey
            /\ r.batch.events # <<>> => r.batch.seqStart > r.state.bindings[j].cursorSeq
            /\ r.batch.final => r.batch.seq >= r.state.bindings[j].headSeq
      BY <2>1, <2>2 DEF ResultFits
    <2>4. BindingIn(r.state, r.bindingKey) = r.state.bindings[j]
      BY <2>2, <2>3, BindingFound DEF ResultFits
    <2> QED BY <2>3, <2>4
  <1>4. SnapshotWithinHead
    <2>1. SUFFICES ASSUME Returned("gatewayGetLatestSnapshot")
                   PROVE  reply.output.snapshot.seq
                            <= BindingIn(reply.output.state,
                                         reply.output.snapshot.bindingKey).headSeq
      BY DEF SnapshotWithinHead
    <2> DEFINE st == reply.output.state
               seq == reply.output.snapshot.seq
    <2>2. OutputFits("gatewayGetLatestSnapshot", reply.input, reply.output)
      BY <2>1, ReturnedFits
    <2>3. Complete(st) /\ st.target = reply.input.target
      BY <2>2 DEF OutputFits, SelectingRpcs
    <2>4. PICK b \in SelectBinding(reply.input.target, reply.input.bindingKey) :
            /\ reply.output.snapshot.bindingKey = b.key
            /\ CoversSnapshot(st, b, seq)
      BY <2>2 DEF OutputFits
    <2>5. PICK j \in 1..Len(BindingsOf[st.target]) : BindingsOf[st.target][j] = b
      BY <2>3, CompleteFacts, SelectionPlace
    <2>6. BindingIn(st, b.key) = st.bindings[j]
      BY <2>3, <2>5, BindingFound
    <2>7. st.bindings[j].headSeq >= seq
      BY <2>3, <2>4, <2>5, CompleteFacts DEF CoversSnapshot
    <2>8. seq \in Nat /\ st.bindings[j].headSeq \in Nat
      <3>1. reply.output.snapshot \in GatewaySnapshot
        BY <2>1, ReturnedTypes
      <3>2. j \in 1..Len(st.bindings) /\ st \in TargetState
        BY <2>3, CompleteFacts
      <3> QED BY <3>1, <3>2, StateFacts DEF GatewaySnapshot
    <2> HIDE DEF st, seq
    <2>9. seq <= st.bindings[j].headSeq
      BY <2>7, <2>8
    <2> QED BY <2>4, <2>6, <2>9 DEF st, seq
  <1> QED BY <1>1, <1>2, <1>3, <1>4 DEF StatesShownFit

(* Every binding of every target that GatewayCatchUp was asked for has one *)
(* result, in order, and every target that ModifySubscription was asked to *)
(* add is either added or rejected, as often as it was named.              *)
THEOREM TargetsAnswered == Spec => []EveryTargetAnswered
  <1> SUFFICES ASSUME Inv PROVE EveryTargetAnswered
    BY CallsInvariant, PTL
  <1>1. EveryTargetReported
    <2>1. SUFFICES ASSUME Returned("modifySubscription") PROVE EveryTargetReported
      BY DEF EveryTargetReported
    <2> DEFINE added == reply.output.added
               rejected == reply.output.rejected
               reported == TargetsIn(added) \o TargetsIn(rejected)
               asked == reply.input.addTargets
    <2>2. added \in Seq(TargetState) /\ rejected \in Seq(TargetRejection)
      BY <2>1, ReturnedTypes
    <2>3. TargetsIn(added) \in Seq(SyncTarget) /\ TargetsIn(rejected) \in Seq(SyncTarget)
      BY <2>2, StateTargets, RejectionTargets
    <2>4. \A t : CountIn(TargetsIn(added), t) + CountIn(TargetsIn(rejected), t)
                   = CountIn(asked, t)
      BY <2>1, ReturnedFits DEF OutputFits
    <2>5. \A t : CountIn(reported, t) = CountIn(asked, t)
      BY <2>3, <2>4, CountOfConcat
    <2>6. \A s, t : CountIn(s, t) = Cardinality({i \in 1..Len(s) : s[i] = t})
      BY DEF CountIn, Places
    <2>7. reported = [i \in 1..Len(reply.output.added) |-> reply.output.added[i].target]
            \o [i \in 1..Len(reply.output.rejected) |-> reply.output.rejected[i].target]
      BY DEF TargetsIn
    <2> HIDE DEF reported, added, rejected
    <2>8. \A t : Cardinality({i \in 1..Len(reported) : reported[i] = t})
                   = Cardinality({i \in 1..Len(asked) : asked[i] = t})
      BY <2>5, <2>6
    <2> QED BY <2>7, <2>8 DEF EveryTargetReported
  <1>2. CatchUpComplete
    <2>1. SUFFICES ASSUME Returned("gatewayCatchUp") PROVE CatchUpComplete
      BY DEF CatchUpComplete
    <2>2. Names(reply.output.results) = Expected(reply.input.targets)
      BY <2>1, ReturnedFits DEF OutputFits
    <2> QED BY <2>2 DEF CatchUpComplete, Names, Expected, NamesOf
  <1> QED BY <1>1, <1>2 DEF EveryTargetAnswered

(* The state GatewayAck returns covers the ack, also when the cursor was   *)
(* there already or another session acked in between (Engine.GatewayAck).  *)
THEOREM AcksShown == Spec => []AckShown
  <1> SUFFICES ASSUME Inv, Returned("gatewayAck")
               PROVE  BindingIn(reply.output.state, SelectedIn(reply.input).key).cursorSeq
                        >= reply.input.seq
    BY CallsInvariant, PTL DEF AckShown
  <1> DEFINE st == reply.output.state
             chosen == SelectedIn(reply.input)
  <1>1. OutputFits("gatewayAck", reply.input, reply.output)
    BY ReturnedFits
  <1>2. Complete(st) /\ st.target = reply.input.target
    BY <1>1 DEF OutputFits, SelectingRpcs
  <1>3. PICK b \in SelectBinding(reply.input.target, reply.input.bindingKey) :
          CoversAck(st, b, reply.input.seq)
    BY <1>1 DEF OutputFits
  <1>4. chosen = b
    <2>1. chosen \in SelectBinding(reply.input.target, reply.input.bindingKey)
      BY <1>3 DEF SelectedIn
    <2> HIDE DEF chosen
    <2> QED BY <1>2, <1>3, <2>1, CompleteFacts, SelectionUnique
  <1>5. PICK j \in 1..Len(BindingsOf[st.target]) : BindingsOf[st.target][j] = b
    BY <1>2, <1>3, CompleteFacts, SelectionPlace
  <1>6. BindingIn(st, b.key) = st.bindings[j]
    BY <1>2, <1>5, BindingFound
  <1>7. st.bindings[j].cursorSeq >= reply.input.seq
    BY <1>2, <1>3, <1>5, CompleteFacts DEF CoversAck
  <1> QED BY <1>4, <1>6, <1>7
=============================================================================
