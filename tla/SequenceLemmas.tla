--------------------------- MODULE SequenceLemmas ---------------------------
(***************************************************************************)
(* Facts about the operators on sequences that the models are built from,  *)
(* and induction over the naturals, stated over sets.                      *)
(***************************************************************************)
EXTENDS Integers, SequencesExt, SequenceTheorems, FiniteSetTheorems,
        WellFoundedInduction, TLAPS

(* A sequence without repetitions.                                         *)
Distinct(s) == \A i, j \in 1..Len(s) : s[i] = s[j] => i = j

(* The sequence t is s with e put in at i.                                 *)
Inserts(t, s, i, e) ==
    /\ Len(t) = Len(s) + 1
    /\ \A j \in 1..(Len(s) + 1) : t[j] = IF j < i THEN s[j] ELSE IF j = i THEN e ELSE s[j - 1]
-----------------------------------------------------------------------------
(* Every set of naturals has a least element.                              *)
LEMMA Least ==
    ASSUME NEW T, T \subseteq Nat, T # {}
    PROVE  \E x \in T : \A y \in T : x <= y
<1>1. PICK x \in T : \A y \in T : <<y, x>> \notin OpToRel(<, Nat)
  BY NatLessThanWellFounded, WFMin
<1>2. x \in Nat /\ \A y \in T : y \in Nat /\ ~(y < x)
  BY <1>1 DEF OpToRel
<1> QED
  BY <1>2

(* Induction: a set with 0 and every successor has all naturals.           *)
LEMMA Induction ==
    ASSUME NEW T, 0 \in T, \A n \in Nat : n \in T => n + 1 \in T
    PROVE  Nat \subseteq T
<1> SUFFICES ASSUME Nat \ T # {} PROVE FALSE
  OBVIOUS
<1>1. PICK x \in Nat \ T : \A y \in Nat \ T : x <= y
  BY Least
<1>2. x # 0 /\ x - 1 \in Nat
  BY <1>1
<1>3. x - 1 \in T
  BY <1>1, <1>2
<1>4. (x - 1) + 1 = x
  BY <1>1
<1> QED
  BY <1>1, <1>2, <1>3, <1>4
-----------------------------------------------------------------------------
(* Taking an element out of a sequence.                                    *)
LEMMA RemoveAtProperties ==
    ASSUME NEW S, NEW s \in Seq(S), NEW i \in 1..Len(s)
    PROVE  /\ RemoveAt(s, i) \in Seq(S)
           /\ Len(RemoveAt(s, i)) = Len(s) - 1
           /\ \A j \in 1..(Len(s) - 1) : RemoveAt(s, i)[j] = IF j < i THEN s[j] ELSE s[j + 1]
<1> DEFINE front == SubSeq(s, 1, i - 1)
           back == SubSeq(s, i + 1, Len(s))
<1>1. /\ front \in Seq(S) /\ Len(front) = i - 1
      /\ \A j \in 1..(i - 1) : front[j] = s[j]
  BY SubSeqProperties
<1>2. /\ back \in Seq(S) /\ Len(back) = Len(s) - i
      /\ \A j \in 1..(Len(s) - i) : back[j] = s[i + j]
  BY SubSeqProperties
<1>3. RemoveAt(s, i) = front \o back
  BY DEF RemoveAt
<1> HIDE DEF front, back
<1>4. /\ front \o back \in Seq(S) /\ Len(front \o back) = Len(s) - 1
      /\ \A j \in 1..(Len(s) - 1) :
            (front \o back)[j] = IF j <= i - 1 THEN front[j] ELSE back[j - (i - 1)]
  BY <1>1, <1>2, ConcatProperties
<1>5. ASSUME NEW j \in 1..(Len(s) - 1)
      PROVE  (front \o back)[j] = IF j < i THEN s[j] ELSE s[j + 1]
  BY <1>1, <1>2, <1>4
<1> QED
  BY <1>3, <1>4, <1>5

(* Putting an element into a sequence.                                     *)
LEMMA InsertAtProperties ==
    ASSUME NEW S, NEW s \in Seq(S), NEW i \in 1..(Len(s) + 1), NEW e \in S
    PROVE  /\ InsertAt(s, i, e) \in Seq(S)
           /\ Inserts(InsertAt(s, i, e), s, i, e)
<1> DEFINE front == SubSeq(s, 1, i - 1)
           back == SubSeq(s, i, Len(s))
<1>1. /\ front \in Seq(S) /\ Len(front) = i - 1
      /\ \A j \in 1..(i - 1) : front[j] = s[j]
  BY SubSeqProperties
<1>2. /\ back \in Seq(S) /\ Len(back) = Len(s) - i + 1
      /\ \A j \in 1..(Len(s) - i + 1) : back[j] = s[i + j - 1]
  BY SubSeqProperties
<1>3. InsertAt(s, i, e) = (front \o <<e>>) \o back
  BY DEF InsertAt
<1>4. <<e>> \in Seq(S) /\ Len(<<e>>) = 1 /\ <<e>>[1] = e
  OBVIOUS
<1> HIDE DEF front, back
<1>5. /\ front \o <<e>> \in Seq(S) /\ Len(front \o <<e>>) = i
      /\ \A j \in 1..i : (front \o <<e>>)[j] = IF j < i THEN s[j] ELSE e
  BY <1>1, <1>4, ConcatProperties
<1>6. PICK f : f = front \o <<e>>
  OBVIOUS
<1>7. /\ f \o back \in Seq(S) /\ Len(f \o back) = Len(s) + 1
      /\ \A j \in 1..(Len(s) + 1) : (f \o back)[j] = IF j <= i THEN f[j] ELSE back[j - i]
  BY <1>2, <1>5, <1>6, ConcatProperties
<1>8. ASSUME NEW j \in 1..(Len(s) + 1)
      PROVE  (f \o back)[j] = IF j < i THEN s[j] ELSE IF j = i THEN e ELSE s[j - 1]
  <2>1. CASE j <= i
    BY <1>5, <1>6, <1>7, <2>1
  <2>2. CASE ~(j <= i)
    <3>1. j - i \in 1..(Len(s) - i + 1) /\ i + (j - i) - 1 = j - 1
      BY <2>2, LenProperties
    <3>2. back[j - i] = s[j - 1]
      BY <1>2, <3>1
    <3> QED
      BY <1>7, <2>2, <3>2
  <2> QED
    BY <2>1, <2>2
<1> QED
  BY <1>3, <1>6, <1>7, <1>8 DEF Inserts

(* The sequences without their first, and without their last element.      *)
LEMMA TailFrontProperties ==
    ASSUME NEW S, NEW s \in Seq(S), s # <<>>
    PROVE  /\ Tail(s) \in Seq(S) /\ Len(Tail(s)) = Len(s) - 1
           /\ \A j \in 1..(Len(s) - 1) : Tail(s)[j] = s[j + 1]
           /\ Front(s) \in Seq(S) /\ Len(Front(s)) = Len(s) - 1
           /\ \A j \in 1..(Len(s) - 1) : Front(s)[j] = s[j]
<1>1. Len(s) \in Nat \ {0} /\ \A i \in 1..Len(s) : s[i] \in S
  OBVIOUS
<1>2. /\ SubSeq(s, 1, Len(s) - 1) \in Seq(S) /\ Len(SubSeq(s, 1, Len(s) - 1)) = Len(s) - 1
      /\ \A j \in 1..(Len(s) - 1) : SubSeq(s, 1, Len(s) - 1)[j] = s[j]
  <2>1. PICK n \in Nat : n = Len(s) - 1
    BY <1>1
  <2>2. /\ SubSeq(s, 1, n) \in Seq(S) /\ Len(SubSeq(s, 1, n)) = n
        /\ \A j \in 1..n : SubSeq(s, 1, n)[j] = s[j]
    BY <1>1, <2>1, SubSeqProperties
  <2> QED
    BY <2>1, <2>2
<1> QED
  BY <1>1, <1>2, HeadTailProperties DEF Front

(* An element of a sequence is at some index of it.                        *)
LEMMA ToSetProperties ==
    ASSUME NEW S, NEW s \in Seq(S)
    PROVE  /\ ToSet(s) \subseteq S
           /\ \A x : x \in ToSet(s) <=> \E i \in 1..Len(s) : s[i] = x
BY DEF ToSet

(* The elements of a sequence with one more.                               *)
LEMMA AppendToSet ==
    ASSUME NEW S, NEW s \in Seq(S), NEW e \in S
    PROVE  ToSet(Append(s, e)) = ToSet(s) \cup {e}
<1>1. Append(s, e) \in Seq(S)
  OBVIOUS
<1>2. ASSUME NEW x \in ToSet(s) \cup {e} PROVE x \in ToSet(Append(s, e))
  <2>1. CASE x = e
    <3>1. Len(s) + 1 \in 1..Len(Append(s, e)) /\ Append(s, e)[Len(s) + 1] = e
      OBVIOUS
    <3> QED
      BY <1>1, <2>1, <3>1, ToSetProperties
  <2>2. CASE x \in ToSet(s)
    <3>1. PICK i \in 1..Len(s) : s[i] = x
      BY <2>2, ToSetProperties
    <3>2. i \in 1..Len(Append(s, e)) /\ Append(s, e)[i] = x
      BY <3>1
    <3> QED
      BY <1>1, <3>2, ToSetProperties
  <2> QED
    BY <2>1, <2>2
<1>3. ASSUME NEW x \in ToSet(Append(s, e)) PROVE x \in ToSet(s) \cup {e}
  <2>1. PICK i \in 1..Len(Append(s, e)) : Append(s, e)[i] = x
    BY <1>1, ToSetProperties
  <2>2. x = e \/ (i \in 1..Len(s) /\ s[i] = x)
    BY <2>1
  <2> QED
    BY <2>2, ToSetProperties
<1> QED
  BY <1>2, <1>3

(* The elements of a sequence with one put into it.                        *)
LEMMA InsertAtToSet ==
    ASSUME NEW S, NEW s \in Seq(S), NEW i \in 1..(Len(s) + 1), NEW e \in S
    PROVE  ToSet(InsertAt(s, i, e)) = ToSet(s) \cup {e}
<1> DEFINE t == InsertAt(s, i, e)
<1>1. /\ t \in Seq(S) /\ Len(t) = Len(s) + 1
      /\ \A j \in 1..(Len(s) + 1) : t[j] = IF j < i THEN s[j] ELSE IF j = i THEN e ELSE s[j - 1]
  <2>1. t \in Seq(S) /\ Inserts(t, s, i, e)
    BY InsertAtProperties
  <2> HIDE DEF t
  <2> QED
    BY <2>1 DEF Inserts
<1> HIDE DEF t
<1>2. ASSUME NEW x \in ToSet(s) \cup {e} PROVE x \in ToSet(t)
  <2>1. CASE x = e
    BY <1>1, <2>1, ToSetProperties
  <2>2. CASE x \in ToSet(s)
    <3>1. PICK j \in 1..Len(s) : s[j] = x
      BY <2>2, ToSetProperties
    <3>2. t[j] = x \/ t[j + 1] = x
      BY <1>1, <3>1
    <3>3. j \in 1..Len(t) /\ j + 1 \in 1..Len(t)
      BY <1>1, <3>1
    <3> QED
      BY <1>1, <3>2, <3>3, ToSetProperties
  <2> QED
    BY <2>1, <2>2
<1>3. ASSUME NEW x \in ToSet(t) PROVE x \in ToSet(s) \cup {e}
  <2>1. PICK j \in 1..(Len(s) + 1) : t[j] = x
    BY <1>1, ToSetProperties
  <2>2. x = e \/ (j \in 1..Len(s) /\ x = s[j]) \/ (j - 1 \in 1..Len(s) /\ x = s[j - 1])
    BY <1>1, <2>1
  <2> QED
    BY <2>2, ToSetProperties
<1> QED
  BY <1>2, <1>3 DEF t

(* The only index of an element of a sequence without repetitions, and the *)
(* first index of an element of any sequence.                              *)
LEMMA FirstIndex ==
    ASSUME NEW S, NEW s \in Seq(S), NEW x \in ToSet(s)
    PROVE  LET I == {i \in 1..Len(s) : s[i] = x}
           IN  I # {} /\ \E i \in I : i = Min(I) /\ \A j \in I : i <= j
<1> DEFINE I == {i \in 1..Len(s) : s[i] = x}
<1>1. I \subseteq Nat /\ I # {}
  BY ToSetProperties
<1> HIDE DEF I
<1>2. Min(I) \in I /\ \A j \in I : Min(I) <= j
  BY <1>1, Least DEF Min
<1> QED
  BY <1>1, <1>2 DEF I

(* What is left of a sequence has its other elements, and repeats none.    *)
LEMMA RemoveAtToSet ==
    ASSUME NEW S, NEW s \in Seq(S), NEW i \in 1..Len(s)
    PROVE  /\ ToSet(s) \ {s[i]} \subseteq ToSet(RemoveAt(s, i))
           /\ Distinct(s) => Distinct(RemoveAt(s, i))
<1> DEFINE t == RemoveAt(s, i)
<1>1. /\ t \in Seq(S) /\ Len(t) = Len(s) - 1
      /\ \A j \in 1..(Len(s) - 1) : t[j] = IF j < i THEN s[j] ELSE s[j + 1]
  BY RemoveAtProperties
<1>2. Len(s) \in Nat
  OBVIOUS
<1> HIDE DEF t
<1>3. ASSUME NEW x \in ToSet(s), x # s[i] PROVE x \in ToSet(t)
  <2>1. PICK j \in 1..Len(s) : s[j] = x
    BY ToSetProperties
  <2>2. CASE j < i
    <3>1. j \in 1..Len(t) /\ t[j] = x
      BY <1>1, <1>2, <2>1, <2>2
    <3> QED
      BY <1>1, <3>1, ToSetProperties
  <2>3. CASE j > i
    <3>1. j - 1 \in 1..Len(t) /\ t[j - 1] = x
      BY <1>1, <1>2, <2>1, <2>3
    <3> QED
      BY <1>1, <3>1, ToSetProperties
  <2> QED
    BY <1>2, <1>3, <2>1, <2>2, <2>3
<1>4. ASSUME Distinct(s), NEW j \in 1..Len(t), NEW k \in 1..Len(t), t[j] = t[k] PROVE j = k
  <2>1. /\ t[j] = s[IF j < i THEN j ELSE j + 1] /\ t[k] = s[IF k < i THEN k ELSE k + 1]
        /\ (IF j < i THEN j ELSE j + 1) \in 1..Len(s)
        /\ (IF k < i THEN k ELSE k + 1) \in 1..Len(s)
    BY <1>1, <1>2
  <2>2. (IF j < i THEN j ELSE j + 1) = (IF k < i THEN k ELSE k + 1)
    BY <1>4, <2>1 DEF Distinct
  <2> QED
    BY <1>1, <1>2, <2>2
<1> QED
  BY <1>3, <1>4 DEF t, Distinct

(* The same for the sequences without their first or last element.         *)
LEMMA TailFrontToSet ==
    ASSUME NEW S, NEW s \in Seq(S), s # <<>>, NEW t \in {Tail(s), Front(s)}
    PROVE  /\ t \in Seq(S) /\ Len(t) = Len(s) - 1
           /\ ToSet(t) \subseteq ToSet(s)
           /\ Distinct(s) => Distinct(t)
<1>1. Len(s) \in Nat
  OBVIOUS
<1>2. PICK d \in {0, 1} : /\ t \in Seq(S) /\ Len(t) = Len(s) - 1
                         /\ \A j \in 1..(Len(s) - 1) : t[j] = s[j + d]
  <2>1. CASE t = Tail(s)
    BY <2>1, TailFrontProperties
  <2>2. CASE t = Front(s)
    BY <1>1, <2>2, TailFrontProperties
  <2> QED
    BY <2>1, <2>2
<1>3. \A j \in 1..Len(t) : j + d \in 1..Len(s) /\ t[j] = s[j + d]
  BY <1>1, <1>2
<1>4. ASSUME NEW x \in ToSet(t) PROVE x \in ToSet(s)
  <2>1. PICK j \in 1..Len(t) : t[j] = x
    BY <1>2, ToSetProperties
  <2> QED
    BY <1>3, <2>1, ToSetProperties
<1>5. ASSUME Distinct(s), NEW j \in 1..Len(t), NEW k \in 1..Len(t), t[j] = t[k] PROVE j = k
  <2>1. j + d = k + d
    BY <1>3, <1>5 DEF Distinct
  <2> QED
    BY <1>1, <1>2, <2>1
<1> QED
  BY <1>2, <1>4, <1>5 DEF Distinct

(* A sequence without repetitions and a new element have none either.      *)
LEMMA AppendDistinct ==
    ASSUME NEW S, NEW s \in Seq(S), Distinct(s), NEW e \in S \ ToSet(s)
    PROVE  Append(s, e) \in Seq(S) /\ Len(Append(s, e)) = Len(s) + 1 /\ Distinct(Append(s, e))
<1>1. \A i \in 1..Len(s) : s[i] # e
  BY ToSetProperties
<1>2. /\ Append(s, e) \in Seq(S) /\ Len(Append(s, e)) = Len(s) + 1
      /\ \A i \in 1..(Len(s) + 1) : Append(s, e)[i] = IF i <= Len(s) THEN s[i] ELSE e
  OBVIOUS
<1>3. Distinct(Append(s, e))
  BY <1>1, <1>2 DEF Distinct
<1> QED
  BY <1>2, <1>3

(* The same with the new element in front.                                 *)
LEMMA ConsDistinct ==
    ASSUME NEW S, NEW s \in Seq(S), Distinct(s), NEW e \in S \ ToSet(s)
    PROVE  <<e>> \o s \in Seq(S) /\ Len(<<e>> \o s) = Len(s) + 1 /\ Distinct(<<e>> \o s)
<1> DEFINE t == <<e>> \o s
<1>1. \A i \in 1..Len(s) : s[i] # e
  BY ToSetProperties
<1> DEFINE one == <<e>>
<1>2. one \in Seq(S) /\ Len(one) = 1 /\ one[1] = e
  OBVIOUS
<1> HIDE DEF one
<1>3. /\ t \in Seq(S) /\ Len(t) = Len(s) + 1
      /\ \A i \in 1..(Len(s) + 1) : t[i] = IF i <= 1 THEN one[i] ELSE s[i - 1]
  <2>1. t = one \o s /\ Len(s) \in Nat
    BY DEF one
  <2>2. /\ one \o s \in Seq(S) /\ Len(one \o s) = Len(one) + Len(s)
        /\ \A i \in 1..(Len(one) + Len(s)) : (one \o s)[i] = IF i <= Len(one) THEN one[i] ELSE s[i - Len(one)]
    BY <1>2, ConcatProperties
  <2>3. Len(one) + Len(s) = Len(s) + 1
    BY <1>2, <2>1
  <2> HIDE DEF t
  <2> QED
    BY <1>2, <2>1, <2>2, <2>3
<1> HIDE DEF t
<1>4. ASSUME NEW i \in 1..Len(t), NEW j \in 1..Len(t), t[i] = t[j] PROVE i = j
  <2>1. Len(s) \in Nat /\ t[1] = e /\ \A k \in 1..Len(t) : k # 1 => k - 1 \in 1..Len(s) /\ t[k] = s[k - 1]
    BY <1>2, <1>3
  <2>2. CASE i = 1 \/ j = 1
    BY <1>1, <1>4, <2>1, <2>2
  <2>3. CASE i # 1 /\ j # 1
    <3>1. i - 1 = j - 1
      BY <1>4, <2>1, <2>3 DEF Distinct
    <3> QED
      BY <3>1
  <2> QED
    BY <2>2, <2>3
<1> QED
  BY <1>3, <1>4 DEF t, Distinct

(* The same with the new element anywhere.                                 *)
LEMMA InsertAtDistinct ==
    ASSUME NEW S, NEW s \in Seq(S), Distinct(s), NEW e \in S \ ToSet(s), NEW i \in 1..(Len(s) + 1)
    PROVE  Distinct(InsertAt(s, i, e))
<1> DEFINE t == InsertAt(s, i, e)
<1>1. \A j \in 1..Len(s) : s[j] # e
  BY ToSetProperties
<1>2. /\ t \in Seq(S) /\ Len(t) = Len(s) + 1
      /\ \A j \in 1..(Len(s) + 1) : t[j] = IF j < i THEN s[j] ELSE IF j = i THEN e ELSE s[j - 1]
  <2>1. t \in Seq(S) /\ Inserts(t, s, i, e)
    BY InsertAtProperties
  <2> HIDE DEF t
  <2> QED
    BY <2>1 DEF Inserts
<1> HIDE DEF t
<1>3. Len(s) \in Nat
  OBVIOUS
<1>4. ASSUME NEW j \in 1..Len(t), NEW k \in 1..Len(t), t[j] = t[k] PROVE j = k
  <2> DEFINE d(m) == IF m < i THEN m ELSE m - 1
  <2>1. \A m \in 1..Len(t) : m # i => d(m) \in 1..Len(s) /\ t[m] = s[d(m)]
    BY <1>2, <1>3
  <2>2. t[i] = e /\ i \in 1..Len(t)
    BY <1>2, <1>3
  <2>3. \A m \in 1..Len(t) : m # i => t[m] # e
    BY <1>1, <2>1
  <2>4. CASE j = i \/ k = i
    BY <1>4, <2>2, <2>3, <2>4
  <2>5. CASE j # i /\ k # i
    <3>1. d(j) = d(k)
      BY <1>4, <2>1, <2>5 DEF Distinct
    <3> QED
      BY <1>2, <1>3, <2>5, <3>1
  <2> QED
    BY <2>4, <2>5
<1> QED
  BY <1>4 DEF t, Distinct

(* Putting an element in at the end appends it.                            *)
LEMMA InsertAtEnd ==
    ASSUME NEW S, NEW s \in Seq(S), NEW e \in S
    PROVE  InsertAt(s, Len(s) + 1, e) = Append(s, e)
<1>1. PICK k \in 1..(Len(s) + 1) : k = Len(s) + 1
  OBVIOUS
<1> DEFINE t == InsertAt(s, k, e)
<1>2. t \in Seq(S) /\ Inserts(t, s, k, e)
  BY InsertAtProperties
<1> HIDE DEF t
<1>3. /\ Append(s, e) \in Seq(S) /\ Len(Append(s, e)) = Len(s) + 1
      /\ \A j \in 1..(Len(s) + 1) : Append(s, e)[j] = IF j < Len(s) + 1 THEN s[j] ELSE e
  OBVIOUS
<1>4. Len(t) = Len(s) + 1 /\ \A j \in 1..Len(t) : t[j] = Append(s, e)[j]
  BY <1>1, <1>2, <1>3 DEF Inserts
<1>5. t = Append(s, e)
  BY <1>2, <1>3, <1>4, SeqEqual
<1> QED
  BY <1>1, <1>5 DEF t

(* SetToSeq of a finite set has each of its elements once.                 *)
LEMMA SetToSeqProperties ==
    ASSUME NEW S, IsFiniteSet(S)
    PROVE  /\ SetToSeq(S) \in Seq(S) /\ Distinct(SetToSeq(S))
           /\ \A x \in S : \E i \in 1..Len(SetToSeq(S)) : SetToSeq(S)[i] = x
<1>1. PICK n \in Nat : n = Cardinality(S)
  BY FS_CardinalityType
<1>2. ExistsBijection(1..n, S)
  BY <1>1, FS_NatBijection, FS_CountingElements
<1>3. \E f \in [1..n -> S] : IsInjective(f)
  BY <1>2 DEF ExistsBijection, Bijection, Injection, IsInjective
<1>4. PICK f : f = SetToSeq(S) /\ f \in [1..n -> S] /\ IsInjective(f)
  BY <1>1, <1>3 DEF SetToSeq
<1>5. f \in Seq(S) /\ Len(f) = n
  BY <1>4
<1>6. Distinct(f)
  BY <1>4, <1>5 DEF Distinct, IsInjective
<1>7. f \in Injection(1..n, S)
  BY <1>4 DEF Injection
<1>8. IsFiniteSet(1..n) /\ Cardinality(1..n) = n
  BY FS_Interval
<1>9. f \in Surjection(1..n, S)
  BY <1>1, <1>7, <1>8, FS_Injection
<1>10. \A x \in S : \E i \in 1..n : f[i] = x
  BY <1>9 DEF Surjection
<1> QED
  BY <1>4, <1>5, <1>6, <1>10

(* Where the elements of a concatenation come from.                        *)
LEMMA ConcatParts ==
    ASSUME NEW S, NEW s \in Seq(S), NEW t \in Seq(S)
    PROVE  /\ s \o t \in Seq(S) /\ Len(s \o t) = Len(s) + Len(t)
           /\ \A i \in 1..Len(s) : i \in 1..Len(s \o t) /\ (s \o t)[i] = s[i]
           /\ \A i \in 1..Len(t) : Len(s) + i \in 1..Len(s \o t) /\ (s \o t)[Len(s) + i] = t[i]
           /\ \A i \in 1..Len(s \o t) : i \in 1..Len(s) \/ \E j \in 1..Len(t) : i = Len(s) + j
<1>a. PICK m \in Nat : m = Len(s)
  OBVIOUS
<1>b. PICK n \in Nat : n = Len(t)
  OBVIOUS
<1>c. PICK u : u = s \o t
  OBVIOUS
<1>1. u = s \o t /\ m = Len(s) /\ n = Len(t)
  BY <1>a, <1>b, <1>c
<1>2. /\ u \in Seq(S) /\ Len(u) = m + n
      /\ \A i \in 1..(m + n) : u[i] = IF i <= m THEN s[i] ELSE t[i - m]
  BY <1>1, ConcatProperties
<1>3. ASSUME NEW i \in 1..n PROVE m + i \in 1..Len(u) /\ u[m + i] = t[i]
  <2>1. m + i \in 1..(m + n) /\ ~(m + i <= m) /\ (m + i) - m = i
    OBVIOUS
  <2> QED
    BY <1>2, <2>1
<1>4. ASSUME NEW i \in 1..Len(u), i \notin 1..m PROVE \E j \in 1..n : i = m + j
  <2>1. i - m \in 1..n /\ i = m + (i - m)
    BY <1>2, <1>4
  <2> QED
    BY <2>1
<1>5. ASSUME NEW i \in 1..m PROVE i \in 1..Len(u) /\ u[i] = s[i]
  <2>1. i \in 1..(m + n) /\ i <= m
    OBVIOUS
  <2> QED
    BY <1>2, <2>1
<1>6. /\ u \in Seq(S) /\ Len(u) = m + n
      /\ \A i \in 1..m : i \in 1..Len(u) /\ u[i] = s[i]
      /\ \A i \in 1..n : m + i \in 1..Len(u) /\ u[m + i] = t[i]
      /\ \A i \in 1..Len(u) : i \in 1..m \/ \E j \in 1..n : i = m + j
  <2>1. u \in Seq(S) /\ Len(u) = m + n
    BY <1>2
  <2>2. \A i \in 1..m : i \in 1..Len(u) /\ u[i] = s[i]
    BY <1>5
  <2>3. \A i \in 1..n : m + i \in 1..Len(u) /\ u[m + i] = t[i]
    BY <1>3
  <2>4. \A i \in 1..Len(u) : i \in 1..m \/ \E j \in 1..n : i = m + j
    BY <1>4
  <2> QED
    BY <2>1, <2>2, <2>3, <2>4
<1> QED
  BY <1>1, <1>6, Zenon

(* A sequence without repetitions and a set of new elements.               *)
LEMMA ConcatDistinct ==
    ASSUME NEW S, NEW s \in Seq(S), NEW t \in Seq(S), Distinct(s), Distinct(t),
           \A i \in 1..Len(t) : t[i] \notin ToSet(s)
    PROVE  Distinct(s \o t)
<1>a. PICK m \in Nat : m = Len(s)
  OBVIOUS
<1>b. PICK n \in Nat : n = Len(t)
  OBVIOUS
<1>c. PICK u : u = s \o t
  OBVIOUS
<1>1. u = s \o t /\ m = Len(s) /\ n = Len(t)
  BY <1>a, <1>b, <1>c
<1>2. /\ u \in Seq(S) /\ Len(u) = m + n
      /\ \A i \in 1..m : u[i] = s[i]
      /\ \A i \in 1..n : u[m + i] = t[i]
      /\ \A i \in 1..Len(u) : i \in 1..m \/ \E j \in 1..n : i = m + j
  BY <1>1, ConcatParts
<1>3. \A i \in 1..m, j \in 1..n : s[i] # t[j]
  BY <1>1, ToSetProperties
<1>4. \A i, j \in 1..m : s[i] = s[j] => i = j
  BY <1>1 DEF Distinct
<1>5. \A i, j \in 1..n : t[i] = t[j] => i = j
  BY <1>1 DEF Distinct
<1>6. ASSUME NEW i \in 1..Len(u), NEW j \in 1..Len(u), u[i] = u[j] PROVE i = j
  <2>1. CASE i \in 1..m
    <3>1. CASE j \in 1..m
      BY <1>2, <1>4, <1>6, <2>1, <3>1
    <3>2. CASE \E l \in 1..n : j = m + l
      <4>1. PICK l \in 1..n : j = m + l
        BY <3>2
      <4>2. s[i] = t[l]
        BY <1>2, <1>6, <2>1, <4>1
      <4> QED
        BY <1>3, <2>1, <4>2
    <3> QED
      BY <1>2, <3>1, <3>2
  <2>2. CASE \E k \in 1..n : i = m + k
    <3>1. PICK k \in 1..n : i = m + k
      BY <2>2
    <3>2. CASE j \in 1..m
      BY <1>2, <1>3, <1>6, <3>1, <3>2
    <3>3. CASE \E l \in 1..n : j = m + l
      <4>1. PICK l \in 1..n : j = m + l
        BY <3>3
      <4>2. t[k] = t[l]
        BY <1>2, <1>6, <3>1, <4>1
      <4> QED
        BY <1>5, <3>1, <4>1, <4>2
    <3> QED
      BY <1>2, <3>2, <3>3
  <2> QED
    BY <1>2, <2>1, <2>2
<1> QED
  BY <1>1, <1>6 DEF Distinct

(* The elements of a concatenation.                                        *)
LEMMA ConcatToSet ==
    ASSUME NEW S, NEW s \in Seq(S), NEW t \in Seq(S)
    PROVE  ToSet(s \o t) = ToSet(s) \cup ToSet(t)
<1>a. PICK m \in Nat : m = Len(s)
  OBVIOUS
<1>b. PICK n \in Nat : n = Len(t)
  OBVIOUS
<1>c. PICK u : u = s \o t
  OBVIOUS
<1>1. u = s \o t /\ m = Len(s) /\ n = Len(t)
  BY <1>a, <1>b, <1>c
<1>2. /\ u \in Seq(S) /\ Len(u) = m + n
      /\ \A i \in 1..m : i \in 1..Len(u) /\ u[i] = s[i]
      /\ \A i \in 1..n : m + i \in 1..Len(u) /\ u[m + i] = t[i]
      /\ \A i \in 1..Len(u) : i \in 1..m \/ \E j \in 1..n : i = m + j
  BY <1>1, ConcatParts
<1>3. /\ \A x : x \in ToSet(s) <=> \E i \in 1..m : s[i] = x
      /\ \A x : x \in ToSet(t) <=> \E i \in 1..n : t[i] = x
      /\ \A x : x \in ToSet(u) <=> \E i \in 1..Len(u) : u[i] = x
  <2>1. \A x : x \in ToSet(s) <=> \E i \in 1..m : s[i] = x
    BY <1>1, ToSetProperties
  <2>2. \A x : x \in ToSet(t) <=> \E i \in 1..n : t[i] = x
    BY <1>1, ToSetProperties
  <2>3. \A x : x \in ToSet(u) <=> \E i \in 1..Len(u) : u[i] = x
    BY <1>2, ToSetProperties
  <2> QED
    BY <2>1, <2>2, <2>3
<1>4. ASSUME NEW x \in ToSet(u) PROVE x \in ToSet(s) \/ x \in ToSet(t)
  <2>1. PICK i \in 1..Len(u) : u[i] = x
    BY <1>3
  <2>2. CASE i \in 1..m
    BY <1>2, <1>3, <2>1, <2>2
  <2>3. CASE \E j \in 1..n : i = m + j
    BY <1>2, <1>3, <2>1, <2>3, ZenonT(40)
  <2> QED
    BY <1>2, <2>2, <2>3
<1>5. ASSUME NEW x \in ToSet(s) \cup ToSet(t) PROVE x \in ToSet(u)
  <2>1. CASE x \in ToSet(s)
    <3>1. PICK i \in 1..m : s[i] = x
      BY <1>3, <2>1
    <3> QED
      BY <1>2, <1>3, <3>1
  <2>2. CASE x \in ToSet(t)
    <3>1. PICK i \in 1..n : t[i] = x
      BY <1>3, <2>2
    <3>2. m + i \in 1..Len(u) /\ u[m + i] = x
      BY <1>2, <3>1
    <3> QED
      BY <1>3, <3>2
  <2> QED
    BY <2>1, <2>2
<1> QED
  BY <1>1, <1>3, <1>4, <1>5

(* What FlattenSeq's recursion computes up to n.                           *)
IsFlat(f, s, n) == f = [i \in 1..n |-> IF i = 1 THEN s[i] ELSE f[i - 1] \o s[i]]

(* The recursive function that FlattenSeq chooses exists.                  *)
LEMMA FlatExists ==
    ASSUME NEW s, NEW m \in Nat
    PROVE  \E f : IsFlat(f, s, m)
<1> DEFINE T == {n \in Nat : \E f : IsFlat(f, s, n)}
<1>1. 0 \in T
  <2>1. PICK f : f = [i \in 1..0 |-> <<>>]
    OBVIOUS
  <2>2. IsFlat(f, s, 0)
    BY <2>1 DEF IsFlat
  <2> QED
    BY <2>2
<1>2. ASSUME NEW n \in Nat, n \in T PROVE n + 1 \in T
  <2>1. PICK f : IsFlat(f, s, n)
    BY <1>2
  <2>2. PICK e : e = IF n + 1 = 1 THEN s[n + 1] ELSE f[n] \o s[n + 1]
    OBVIOUS
  <2>3. PICK h : h = [i \in 1..(n + 1) |-> IF i = n + 1 THEN e ELSE f[i]]
    OBVIOUS
  <2>4. h[n + 1] = e /\ \A i \in 1..n : h[i] = f[i]
    BY <2>3
  <2>5. \A i \in 1..n : f[i] = IF i = 1 THEN s[i] ELSE f[i - 1] \o s[i]
    BY <2>1 DEF IsFlat
  <2>6. ASSUME NEW i \in 1..(n + 1)
        PROVE  h[i] = IF i = 1 THEN s[i] ELSE h[i - 1] \o s[i]
    <3>1. CASE i = n + 1 /\ i # 1
      <4>1. h[n] = f[n] /\ i - 1 = n
        BY <2>4, <3>1
      <4> QED
        BY <2>2, <2>4, <3>1, <4>1
    <3>2. CASE i = n + 1 /\ i = 1
      BY <2>2, <2>4, <3>2
    <3>3. CASE i \in 1..n /\ i = 1
      BY <2>4, <2>5, <3>3
    <3>4. CASE i \in 1..n /\ i # 1
      <4>1. i - 1 \in 1..n
        BY <3>4
      <4>2. h[i - 1] = f[i - 1] /\ h[i] = f[i]
        BY <2>4, <3>4, <4>1
      <4> QED
        BY <2>5, <3>4, <4>2
    <3> QED
      BY <3>1, <3>2, <3>3, <3>4
  <2>7. IsFlat(h, s, n + 1)
    BY <2>3, <2>6 DEF IsFlat
  <2> QED
    BY <2>7
<1> HIDE DEF T
<1>3. Nat \subseteq T
  BY <1>1, <1>2, Induction
<1> QED
  BY <1>3 DEF T

(* FlattenSeq of sequences over a set is one.                              *)
LEMMA FlattenSeqProperties ==
    ASSUME NEW S, NEW s \in Seq(Seq(S))
    PROVE  FlattenSeq(s) \in Seq(S)
<1>1. PICK m \in Nat : m = Len(s)
  OBVIOUS
<1>2. CASE m = 0
  <2>1. s = <<>>
    BY <1>1, <1>2, EmptySeq
  <2> QED
    BY <1>1, <1>2, <2>1 DEF FlattenSeq
<1>3. CASE m # 0
  <2>1. \E f : IsFlat(f, s, m)
    BY FlatExists
  <2>2. PICK f : f = (CHOOSE h : IsFlat(h, s, m))
    OBVIOUS
  <2>3. IsFlat(f, s, m)
    BY <2>1, <2>2
  <2>4. FlattenSeq(s) = f[m]
    BY <1>1, <1>3, <2>2 DEF FlattenSeq, IsFlat
  <2> DEFINE T == {n \in Nat : n + 1 <= m => f[n + 1] \in Seq(S)}
  <2>5. 0 \in T
    <3> SUFFICES ASSUME 1 <= m PROVE f[1] \in Seq(S)
      OBVIOUS
    <3>1. f[1] = s[1]
      BY <2>3 DEF IsFlat
    <3> QED
      BY <1>1, <3>1
  <2>6. ASSUME NEW n \in Nat, n \in T PROVE n + 1 \in T
    <3> SUFFICES ASSUME (n + 1) + 1 <= m PROVE f[(n + 1) + 1] \in Seq(S)
      OBVIOUS
    <3>1. PICK k \in 1..m : k = (n + 1) + 1
      OBVIOUS
    <3>2. k - 1 = n + 1 /\ k # 1
      BY <3>1
    <3>3. f[k] = f[n + 1] \o s[k]
      BY <2>3, <3>2 DEF IsFlat
    <3>4. f[n + 1] \in Seq(S) /\ s[k] \in Seq(S)
      BY <1>1, <2>6
    <3> QED
      BY <3>1, <3>3, <3>4, ConcatParts
  <2> HIDE DEF T
  <2>7. m - 1 \in T
    BY <1>3, <2>5, <2>6, Induction
  <2>8. (m - 1) + 1 = m
    OBVIOUS
  <2> QED
    BY <2>4, <2>7, <2>8 DEF T
<1> QED
  BY <1>2, <1>3
=============================================================================
