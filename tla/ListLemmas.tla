----------------------------- MODULE ListLemmas -----------------------------
(* Facts about the sequence operators the models use for LIST_ENTRY lists and
   call stacks, and about least and greatest members of bounded sets. *)
EXTENDS Integers, SequencesExt, SequenceTheorems, WellFoundedInduction, TLAPS

(* What RemoveEntryList leaves of a list. *)
LEMMA RemoveAtProperties ==
  ASSUME NEW S, NEW s \in Seq(S), NEW i \in 1..Len(s)
  PROVE  /\ RemoveAt(s, i) \in Seq(S)
         /\ Len(RemoveAt(s, i)) = Len(s) - 1
         /\ \A j \in 1..(Len(s) - 1) : RemoveAt(s, i)[j] = IF j < i THEN s[j] ELSE s[j + 1]
<1> DEFINE x == SubSeq(s, 1, i - 1)
           y == SubSeq(s, i + 1, Len(s))
<1>1. /\ x \in Seq(S) /\ Len(x) = i - 1
      /\ \A j \in 1..(i - 1) : x[j] = s[j]
  OBVIOUS
<1>2. /\ y \in Seq(S) /\ Len(y) = Len(s) - i
      /\ \A j \in 1..(Len(s) - i) : y[j] = s[i + j]
  OBVIOUS
<1>3. RemoveAt(s, i) = x \o y
  BY DEF RemoveAt
<1> HIDE DEF x, y
<1>4. /\ x \o y \in Seq(S) /\ Len(x \o y) = Len(x) + Len(y)
      /\ \A j \in 1..(Len(x) + Len(y)) : (x \o y)[j] = IF j <= Len(x) THEN x[j] ELSE y[j - Len(x)]
  BY <1>1, <1>2, ConcatProperties
<1>5. ASSUME NEW j \in 1..(Len(s) - 1)
      PROVE  (x \o y)[j] = IF j < i THEN s[j] ELSE s[j + 1]
  <2>1. CASE j < i
    BY <1>1, <1>2, <1>4, <2>1
  <2>2. CASE ~ (j < i)
    <3>1. j - (i - 1) \in 1..(Len(s) - i)
      BY <2>2
    <3>2. (x \o y)[j] = y[j - (i - 1)]
      BY <1>1, <1>2, <1>4, <2>2
    <3>3. y[j - (i - 1)] = s[i + (j - (i - 1))]
      BY <1>2, <3>1
    <3> QED BY <2>2, <3>2, <3>3
  <2> QED BY <2>1, <2>2
<1> QED BY <1>1, <1>2, <1>3, <1>4, <1>5

(* What inserting a link before position i makes of a list. *)
LEMMA InsertAtProperties ==
  ASSUME NEW S, NEW s \in Seq(S), NEW i \in 1..(Len(s) + 1), NEW e \in S
  PROVE  /\ InsertAt(s, i, e) \in Seq(S)
         /\ Len(InsertAt(s, i, e)) = Len(s) + 1
         /\ \A j \in 1..(Len(s) + 1) :
              InsertAt(s, i, e)[j] = IF j < i THEN s[j] ELSE IF j = i THEN e ELSE s[j - 1]
<1> DEFINE x == SubSeq(s, 1, i - 1)
           y == SubSeq(s, i, Len(s))
           z == x \o <<e>>
<1>1. /\ x \in Seq(S) /\ Len(x) = i - 1
      /\ \A j \in 1..(i - 1) : x[j] = s[j]
  OBVIOUS
<1>2. /\ y \in Seq(S) /\ Len(y) = Len(s) - i + 1
      /\ \A j \in 1..(Len(s) - i + 1) : y[j] = s[i + j - 1]
  OBVIOUS
<1>3. InsertAt(s, i, e) = z \o y
  BY DEF InsertAt
<1> HIDE DEF x, y
<1>e. <<e>> \in Seq(S) /\ Len(<<e>>) = 1 /\ <<e>>[1] = e
  OBVIOUS
<1>4. /\ z \in Seq(S) /\ Len(z) = i
      /\ \A j \in 1..i : z[j] = IF j < i THEN s[j] ELSE e
  <2>1. /\ z \in Seq(S) /\ Len(z) = Len(x) + 1
        /\ \A j \in 1..(Len(x) + 1) : z[j] = IF j <= Len(x) THEN x[j] ELSE <<e>>[j - Len(x)]
    BY <1>1, <1>e, ConcatProperties
  <2> HIDE DEF z
  <2>2. ASSUME NEW j \in 1..i PROVE z[j] = IF j < i THEN s[j] ELSE e
    <3>1. CASE j < i
      BY <1>1, <2>1, <3>1
    <3>2. CASE j = i
      <4>1. j - Len(x) = 1
        BY <1>1, <3>2
      <4>2. z[j] = <<e>>[1]
        BY <1>1, <2>1, <3>2, <4>1
      <4> QED BY <3>2, <4>2, <1>e
    <3> QED BY <3>1, <3>2
  <2>3. Len(z) = i
    BY <1>1, <2>1
  <2> QED BY <2>1, <2>2, <2>3
<1> HIDE DEF z
<1>5. /\ z \o y \in Seq(S) /\ Len(z \o y) = Len(z) + Len(y)
      /\ \A j \in 1..(Len(z) + Len(y)) : (z \o y)[j] = IF j <= Len(z) THEN z[j] ELSE y[j - Len(z)]
  BY <1>2, <1>4, ConcatProperties
<1>6. ASSUME NEW j \in 1..(Len(s) + 1)
      PROVE  (z \o y)[j] = IF j < i THEN s[j] ELSE IF j = i THEN e ELSE s[j - 1]
  <2>1. CASE j <= i
    BY <1>2, <1>4, <1>5, <2>1
  <2>2. CASE j > i
    <3>1. j - i \in 1..(Len(s) - i + 1)
      BY <2>2
    <3>2. (z \o y)[j] = y[j - i]
      BY <1>2, <1>4, <1>5, <2>2
    <3>3. y[j - i] = s[i + (j - i) - 1]
      BY <1>2, <3>1
    <3>4. i + (j - i) - 1 = j - 1
      BY <2>2
    <3>5. (z \o y)[j] = s[j - 1]
      BY <3>2, <3>3, <3>4
    <3> QED BY <2>2, <3>5
  <2>3. j <= i \/ j > i
    OBVIOUS
  <2> QED BY <2>1, <2>2, <2>3
<1> QED BY <1>2, <1>3, <1>4, <1>5, <1>6

(* Popping a stack. *)
LEMMA FrontProperties ==
  ASSUME NEW S, NEW s \in Seq(S), s # <<>>
  PROVE  /\ Front(s) \in Seq(S)
         /\ Len(s) \in Nat \ {0}
         /\ Len(Front(s)) = Len(s) - 1
         /\ \A j \in 1..(Len(s) - 1) : Front(s)[j] = s[j]
         /\ Last(s) = s[Len(s)]
         /\ Last(s) \in S
<1>1. Len(s) \in Nat \ {0}
  OBVIOUS
<1>2. /\ SubSeq(s, 1, Len(s) - 1) \in Seq(S)
      /\ Len(SubSeq(s, 1, Len(s) - 1)) = Len(s) - 1
      /\ \A j \in 1..(Len(s) - 1) : SubSeq(s, 1, Len(s) - 1)[j] = s[j]
  <2> DEFINE n == Len(s) - 1
  <2>0. n \in Nat
    BY <1>1
  <2>2. \A j \in 1..n : s[j] \in S
    BY <1>1
  <2> HIDE DEF n
  <2>1. (1 <= n => n - 1 + 1 = n) /\ (~ 1 <= n => n = 0)
    BY <2>0
  <2>3. /\ SubSeq(s, 1, n) \in Seq(S)
        /\ Len(SubSeq(s, 1, n)) = IF 1 <= n THEN n - 1 + 1 ELSE 0
        /\ \A j \in 1..(n - 1 + 1) : SubSeq(s, 1, n)[j] = s[1 + j - 1]
    BY <2>0, <2>2, SubSeqProperties
  <2>4. \A j \in 1..n : SubSeq(s, 1, n)[j] = s[j]
    BY <2>0, <2>1, <2>3
  <2>5. Len(SubSeq(s, 1, n)) = n
    BY <2>0, <2>1, <2>3
  <2> QED BY <2>3, <2>4, <2>5 DEF n
<1>3. Last(s) = s[Len(s)] /\ Last(s) \in S
  BY <1>1 DEF Last
<1> QED BY <1>1, <1>2, <1>3 DEF Front

(* A non-empty set of naturals has a least member. *)
LEMMA LeastMember ==
  ASSUME NEW T, T \subseteq Nat, T # {}
  PROVE  \E x \in T : \A y \in T : x <= y
<1> DEFINE R == {p \in Nat \X Nat : p[1] < p[2]}
<1>1. OpToRel(<, Nat) = R
  BY Zenon DEF OpToRel
<1>2. IsWellFoundedOn(R, Nat)
  BY <1>1, NatLessThanWellFounded, Zenon
<1> HIDE DEF R
<1>3. PICK x \in T : \A y \in T : ~ (<<y, x>> \in R)
  BY <1>2, WFMin
<1>4. ASSUME NEW y \in T PROVE ~ (y < x)
  BY <1>3 DEF R
<1> QED BY <1>4

(* A non-empty set of naturals with a bound has a greatest member. *)
LEMMA GreatestMember ==
  ASSUME NEW n \in Nat, NEW T, T \subseteq 0..n, T # {}
  PROVE  \E x \in T : \A y \in T : y <= x
<1> DEFINE U == {m \in Nat : n - m \in T}
<1>1. U \subseteq Nat /\ U # {}
  <2>1. PICK t \in T : TRUE
    OBVIOUS
  <2>2. n - t \in Nat /\ n - (n - t) = t
    BY <2>1
  <2>3. n - t \in U
    BY <2>1, <2>2
  <2> QED BY <2>3
<1>2. PICK u \in U : \A v \in U : u <= v
  BY <1>1, LeastMember
<1>3. n - u \in T
  OBVIOUS
<1>4. ASSUME NEW y \in T PROVE y <= n - u
  <2>1. n - y \in Nat /\ n - (n - y) = y
    OBVIOUS
  <2>2. n - y \in U
    BY <2>1
  <2>3. u <= n - y
    BY <1>2, <2>2
  <2> QED BY <2>3, <2>1
<1> QED BY <1>3, <1>4

-----------------------------------------------------------------------------
(* Members and order of lists without repetition *)

(* Membership by position. *)
LEMMA ToSetMember ==
  ASSUME NEW S, NEW s \in Seq(S)
  PROVE  /\ \A x : x \in ToSet(s) <=> \E i \in 1..Len(s) : s[i] = x
         /\ ToSet(s) \subseteq S
         /\ s = <<>> => ToSet(s) = {}
BY DEF ToSet

(* t lists members of s in the order they have there. *)
Sublist(t, s) ==
  \A i, j \in 1..Len(t) : i < j => \E k, l \in 1..Len(s) : k < l /\ t[i] = s[k] /\ t[j] = s[l]

(* A sublist repeats nothing its list does not repeat. *)
LEMMA SublistInjective ==
  ASSUME NEW S, NEW s \in Seq(S), NEW t \in Seq(S), Sublist(t, s), IsInjective(s)
  PROVE  IsInjective(t)
<1> SUFFICES ASSUME NEW i \in 1..Len(t), NEW j \in 1..Len(t), t[i] = t[j], i # j PROVE FALSE
  BY DEF IsInjective
<1>1. \A k, l \in 1..Len(s) : s[k] = s[l] => k = l
  BY DEF IsInjective
<1>2. CASE i < j
  BY <1>1, <1>2 DEF Sublist
<1>3. CASE j < i
  BY <1>1, <1>3 DEF Sublist
<1> QED BY <1>2, <1>3

(* What RemoveEntryList leaves of a list without repetition. *)
LEMMA RemoveAtList ==
  ASSUME NEW S, NEW s \in Seq(S), IsInjective(s), NEW r \in 1..Len(s)
  PROVE  /\ ToSet(RemoveAt(s, r)) = ToSet(s) \ {s[r]}
         /\ Sublist(RemoveAt(s, r), s)
<1> DEFINE t == RemoveAt(s, r)
           n == Len(s)
<1>1. /\ t \in Seq(S) /\ n \in Nat /\ Len(t) = n - 1
      /\ \A j \in 1..(n - 1) : t[j] = IF j < r THEN s[j] ELSE s[j + 1]
  BY RemoveAtProperties
<1>2. \A k, l \in 1..n : s[k] = s[l] => k = l
  BY DEF IsInjective
<1>3. r \in 1..n
  OBVIOUS
<1>4. /\ \A x : x \in ToSet(s) <=> \E i \in 1..n : s[i] = x
      /\ \A x : x \in ToSet(t) <=> \E i \in 1..(n - 1) : t[i] = x
  BY <1>1, ToSetMember
<1> HIDE DEF t, n
<1>5. ASSUME NEW x \in ToSet(t) PROVE x \in ToSet(s) \ {s[r]}
  <2>1. PICK i \in 1..(n - 1) : t[i] = x
    BY <1>4, <1>5
  <2>2. PICK k \in 1..n : k # r /\ s[k] = x
    <3>1. CASE i < r
      BY <1>1, <1>3, <2>1, <3>1
    <3>2. CASE ~ (i < r)
      <4>1. i + 1 \in 1..n /\ i + 1 # r /\ s[i + 1] = x
        BY <1>1, <1>3, <2>1, <3>2
      <4> QED BY <4>1
    <3> QED BY <3>1, <3>2
  <2> QED BY <1>2, <1>3, <1>4, <2>2
<1>6. ASSUME NEW x \in ToSet(s) \ {s[r]} PROVE x \in ToSet(t)
  <2>1. PICK i \in 1..n : s[i] = x
    BY <1>4, <1>6
  <2>2. CASE i < r
    <3>1. i \in 1..(n - 1) /\ t[i] = x
      BY <1>1, <1>3, <2>1, <2>2
    <3> QED BY <1>4, <3>1
  <2>3. CASE i > r
    <3>1. i - 1 \in 1..(n - 1) /\ ~ (i - 1 < r) /\ (i - 1) + 1 = i
      BY <1>1, <1>3, <2>1, <2>3
    <3>2. t[i - 1] = x
      BY <1>1, <2>1, <3>1
    <3> QED BY <1>4, <3>1, <3>2
  <2> QED BY <1>3, <1>6, <2>1, <2>2, <2>3
<1>7. Sublist(t, s)
  <2> SUFFICES ASSUME NEW i \in 1..Len(t), NEW j \in 1..Len(t), i < j
               PROVE  \E k, l \in 1..Len(s) : k < l /\ t[i] = s[k] /\ t[j] = s[l]
    BY DEF Sublist
  <2>0. i \in 1..(n - 1) /\ j \in 1..(n - 1) /\ n = Len(s)
    BY <1>1 DEF n
  <2> DEFINE k == IF i < r THEN i ELSE i + 1
             l == IF j < r THEN j ELSE j + 1
  <2>1. k \in 1..n /\ l \in 1..n /\ k < l
    BY <1>1, <1>3, <2>0
  <2>2. t[i] = s[k] /\ t[j] = s[l]
    BY <1>1, <2>0
  <2> QED BY <2>0, <2>1, <2>2
<1> QED BY <1>5, <1>6, <1>7 DEF t

(* What taking the head leaves. *)
LEMMA TailList ==
  ASSUME NEW S, NEW s \in Seq(S), s # <<>>, IsInjective(s)
  PROVE  /\ Tail(s) \in Seq(S) /\ Head(s) \in S
         /\ ToSet(Tail(s)) = ToSet(s) \ {Head(s)} /\ Head(s) \in ToSet(s)
         /\ Sublist(Tail(s), s)
<1> DEFINE t == Tail(s)
           n == Len(s)
<1>1. /\ t \in Seq(S) /\ n \in Nat \ {0} /\ Len(t) = n - 1
      /\ \A j \in 1..(n - 1) : t[j] = s[j + 1]
      /\ Head(s) = s[1] /\ s[1] \in S
  OBVIOUS
<1>2. \A k, l \in 1..n : s[k] = s[l] => k = l
  BY DEF IsInjective
<1>3. /\ \A x : x \in ToSet(s) <=> \E i \in 1..n : s[i] = x
      /\ \A x : x \in ToSet(t) <=> \E i \in 1..(n - 1) : t[i] = x
  BY <1>1, ToSetMember
<1> HIDE DEF t, n
<1>4. ASSUME NEW x \in ToSet(t) PROVE x \in ToSet(s) \ {s[1]}
  <2>1. PICK i \in 1..(n - 1) : t[i] = x
    BY <1>3, <1>4
  <2>2. i + 1 \in 1..n /\ s[i + 1] = x /\ i + 1 # 1 /\ 1 \in 1..n
    BY <1>1, <2>1
  <2> QED BY <1>2, <1>3, <2>2
<1>5. ASSUME NEW x \in ToSet(s) \ {s[1]} PROVE x \in ToSet(t)
  <2>1. PICK i \in 1..n : s[i] = x
    BY <1>3, <1>5
  <2>2. i - 1 \in 1..(n - 1) /\ (i - 1) + 1 = i
    BY <1>1, <1>5, <2>1
  <2>3. t[i - 1] = x
    BY <1>1, <2>1, <2>2
  <2> QED BY <1>3, <2>2, <2>3
<1>6. s[1] \in ToSet(s)
  BY <1>1, <1>3
<1>7. Sublist(t, s)
  <2> SUFFICES ASSUME NEW i \in 1..Len(t), NEW j \in 1..Len(t), i < j
               PROVE  \E k, l \in 1..Len(s) : k < l /\ t[i] = s[k] /\ t[j] = s[l]
    BY DEF Sublist
  <2>0. i \in 1..(n - 1) /\ j \in 1..(n - 1) /\ n = Len(s)
    BY <1>1 DEF n
  <2>1. i + 1 \in 1..n /\ j + 1 \in 1..n /\ i + 1 < j + 1 /\ t[i] = s[i + 1] /\ t[j] = s[j + 1]
    BY <1>1, <2>0
  <2> QED BY <2>0, <2>1
<1> QED BY <1>1, <1>4, <1>5, <1>6, <1>7 DEF t

(* InsertTailList of a link that is not on the list. *)
LEMMA AppendList ==
  ASSUME NEW S, NEW s \in Seq(S), NEW e \in S
  PROVE  /\ Append(s, e) \in Seq(S) /\ Append(s, e) # <<>>
         /\ ToSet(Append(s, e)) = ToSet(s) \cup {e}
         /\ IsInjective(s) /\ e \notin ToSet(s) => IsInjective(Append(s, e))
<1> DEFINE t == Append(s, e)
           n == Len(s)
<1>1. /\ t \in Seq(S) /\ n \in Nat /\ Len(t) = n + 1
      /\ \A i \in 1..n : t[i] = s[i]
      /\ t[n + 1] = e
  BY AppendProperties
<1>2. /\ \A x : x \in ToSet(s) <=> \E i \in 1..n : s[i] = x
      /\ \A x : x \in ToSet(t) <=> \E i \in 1..(n + 1) : t[i] = x
  BY <1>1, ToSetMember
<1>3. ASSUME IsInjective(s) PROVE \A k, l \in 1..n : s[k] = s[l] => k = l
  BY <1>3 DEF IsInjective
<1> HIDE DEF n
<1>4. (\A i, j \in 1..(n + 1) : t[i] = t[j] => i = j) => IsInjective(t)
  BY <1>1 DEF IsInjective
<1> HIDE DEF t
<1>5. ToSet(t) = ToSet(s) \cup {e}
  <2>1. \A x \in ToSet(s) \cup {e} : x \in ToSet(t)
    BY <1>1, <1>2
  <2>2. \A x \in ToSet(t) : x \in ToSet(s) \cup {e}
    BY <1>1, <1>2
  <2> QED BY <2>1, <2>2
<1>6. ASSUME IsInjective(s), e \notin ToSet(s), NEW i \in 1..(n + 1), NEW j \in 1..(n + 1), t[i] = t[j]
      PROVE  i = j
  BY <1>1, <1>2, <1>3, <1>6
<1>7. t # <<>>
  BY <1>1
<1> QED BY <1>1, <1>4, <1>5, <1>6, <1>7 DEF t

(* InsertHeadList of a link that is not on the list. *)
LEMMA ConsList ==
  ASSUME NEW S, NEW s \in Seq(S), NEW e \in S
  PROVE  /\ <<e>> \o s \in Seq(S)
         /\ ToSet(<<e>> \o s) = ToSet(s) \cup {e}
         /\ IsInjective(s) /\ e \notin ToSet(s) => IsInjective(<<e>> \o s)
<1> DEFINE t == <<e>> \o s
           n == Len(s)
<1>0. <<e>> \in Seq(S) /\ Len(<<e>>) = 1 /\ <<e>>[1] = e
  OBVIOUS
<1>1. /\ t \in Seq(S) /\ n \in Nat /\ Len(t) = n + 1
      /\ \A i \in 1..n : t[i + 1] = s[i]
      /\ t[1] = e
  <2>1. /\ t \in Seq(S) /\ n \in Nat /\ Len(t) = 1 + n
        /\ \A i \in 1..(1 + n) : t[i] = IF i <= 1 THEN <<e>>[i] ELSE s[i - 1]
    BY <1>0, ConcatProperties
  <2> HIDE DEF t, n
  <2>2. ASSUME NEW i \in 1..n PROVE t[i + 1] = s[i]
    <3>1. i + 1 \in 1..(1 + n) /\ ~ (i + 1 <= 1) /\ (i + 1) - 1 = i
      BY <2>1
    <3> QED BY <2>1, <3>1
  <2>3. t[1] = e
    BY <1>0, <2>1
  <2> QED BY <2>1, <2>2, <2>3
<1>2. /\ \A x : x \in ToSet(s) <=> \E i \in 1..n : s[i] = x
      /\ \A x : x \in ToSet(t) <=> \E i \in 1..(n + 1) : t[i] = x
  BY <1>1, ToSetMember
<1>3. ASSUME IsInjective(s) PROVE \A k, l \in 1..n : s[k] = s[l] => k = l
  BY <1>3 DEF IsInjective
<1> HIDE DEF n
<1>4. (\A i, j \in 1..(n + 1) : t[i] = t[j] => i = j) => IsInjective(t)
  BY <1>1 DEF IsInjective
<1> HIDE DEF t
<1>5. \A i \in 1..(n + 1) : i # 1 => i - 1 \in 1..n /\ t[i] = s[i - 1]
  <2> SUFFICES ASSUME NEW i \in 1..(n + 1), i # 1 PROVE i - 1 \in 1..n /\ t[i] = s[i - 1]
    OBVIOUS
  <2>1. i - 1 \in 1..n /\ (i - 1) + 1 = i
    BY <1>1
  <2> QED BY <1>1, <2>1
<1>6. ToSet(t) = ToSet(s) \cup {e}
  <2>1. ASSUME NEW x \in ToSet(s) PROVE x \in ToSet(t)
    <3>1. PICK i \in 1..n : s[i] = x
      BY <1>2, <2>1
    <3>2. i + 1 \in 1..(n + 1) /\ t[i + 1] = x
      BY <1>1, <3>1
    <3> QED BY <1>2, <3>2
  <2>2. e \in ToSet(t)
    BY <1>1, <1>2
  <2>3. \A x \in ToSet(t) : x \in ToSet(s) \cup {e}
    BY <1>1, <1>2, <1>5
  <2> QED BY <2>1, <2>2, <2>3
<1>7. ASSUME IsInjective(s), e \notin ToSet(s), NEW i \in 1..(n + 1), NEW j \in 1..(n + 1), t[i] = t[j]
      PROVE  i = j
  <2>1. i = 1 <=> j = 1
    BY <1>1, <1>2, <1>5, <1>7
  <2>2. CASE i # 1 /\ j # 1
    BY <1>1, <1>3, <1>5, <1>7, <2>2
  <2> QED BY <2>1, <2>2
<1> QED BY <1>1, <1>4, <1>6, <1>7 DEF t

(* Inserting a link. *)
LEMMA InsertAtList ==
  ASSUME NEW S, NEW s \in Seq(S), NEW r \in 1..(Len(s) + 1), NEW e \in S
  PROVE  ToSet(InsertAt(s, r, e)) = ToSet(s) \cup {e}
<1> DEFINE t == InsertAt(s, r, e)
           n == Len(s)
<1>1. /\ t \in Seq(S) /\ n \in Nat /\ Len(t) = n + 1 /\ r \in 1..(n + 1)
      /\ \A j \in 1..(n + 1) : t[j] = IF j < r THEN s[j] ELSE IF j = r THEN e ELSE s[j - 1]
  BY InsertAtProperties
<1>2. /\ \A x : x \in ToSet(s) <=> \E i \in 1..n : s[i] = x
      /\ \A x : x \in ToSet(t) <=> \E i \in 1..(n + 1) : t[i] = x
  BY <1>1, ToSetMember
<1> HIDE DEF t, n
<1>3. ASSUME NEW x \in ToSet(s) PROVE x \in ToSet(t)
  <2>1. PICK i \in 1..n : s[i] = x
    BY <1>2, <1>3
  <2>2. CASE i < r
    <3>1. i \in 1..(n + 1) /\ t[i] = x
      BY <1>1, <2>1, <2>2
    <3> QED BY <1>2, <3>1
  <2>3. CASE ~ (i < r)
    <3>1. i + 1 \in 1..(n + 1) /\ ~ (i + 1 < r) /\ i + 1 # r /\ (i + 1) - 1 = i
      BY <1>1, <2>1, <2>3
    <3>2. t[i + 1] = x
      BY <1>1, <2>1, <3>1
    <3> QED BY <1>2, <3>1, <3>2
  <2> QED BY <2>2, <2>3
<1>4. e \in ToSet(t)
  BY <1>1, <1>2
<1>5. ASSUME NEW x \in ToSet(t) PROVE x \in ToSet(s) \cup {e}
  <2>1. PICK i \in 1..(n + 1) : t[i] = x
    BY <1>2, <1>5
  <2>2. CASE i < r
    <3>1. i \in 1..n /\ s[i] = x
      BY <1>1, <2>1, <2>2
    <3> QED BY <1>2, <3>1
  <2>3. CASE i > r
    <3>1. i - 1 \in 1..n /\ s[i - 1] = x
      BY <1>1, <2>1, <2>3
    <3> QED BY <1>2, <3>1
  <2> QED BY <1>1, <2>1, <2>2, <2>3
<1> QED BY <1>3, <1>4, <1>5 DEF t

-----------------------------------------------------------------------------
(* Induction and recursion over an interval, with sets and functions for the
   predicates and operators of the library's theorems *)

(* A set with 0 and with the successor of each of its members below n. *)
LEMMA IntervalInduction ==
  ASSUME NEW n \in Nat, NEW T, 0 \in T, \A i \in 0..(n - 1) : i \in T => i + 1 \in T
  PROVE  \A i \in 0..n : i \in T
<1> DEFINE U == {i \in 0..n : i \notin T}
<1> SUFFICES ASSUME U # {} PROVE FALSE
  OBVIOUS
<1>0. U \subseteq Nat
  OBVIOUS
<1>1. PICK x \in U : \A y \in U : x <= y
  <2> HIDE DEF U
  <2> QED BY <1>0, LeastMember
<1>2. x # 0 /\ x \in 1..n
  OBVIOUS
<1>3. x - 1 \in 0..(n - 1) /\ x - 1 + 1 = x
  BY <1>2
<1>4. x - 1 \in T
  BY <1>1, <1>3
<1> QED BY <1>3, <1>4

(* f has the values in X that start with a and a step h determine. *)
Iterates(f, n, X, a, h) ==
  /\ f \in [0..n -> X] /\ f[0] = a
  /\ \A i \in 1..n : f[i] = h[<<i, f[i - 1]>>]

(* A function given by its first value and by a step exists. *)
LEMMA IntervalRecursion ==
  ASSUME NEW n \in Nat, NEW X, NEW a \in X, NEW h \in [(1..n) \X X -> X]
  PROVE  \E f : Iterates(f, n, X, a, h)
<1> DEFINE Good(m, f) == /\ f \in [0..m -> X] /\ f[0] = a
                         /\ \A i \in 1..m : f[i] = h[<<i, f[i - 1]>>]
           T == {m \in 0..n : \E f : Good(m, f)}
<1>1. 0 \in T
  <2>1. Good(0, [i \in 0..0 |-> a])
    OBVIOUS
  <2>2. 0 \in 0..n
    OBVIOUS
  <2> HIDE DEF Good
  <2> QED BY <2>1, <2>2
<1>2. ASSUME NEW m \in 0..(n - 1), m \in T PROVE m + 1 \in T
  <2>1. PICK f : Good(m, f)
    BY <1>2
  <2> DEFINE g == [i \in 0..(m + 1) |-> IF i <= m THEN f[i] ELSE h[<<m + 1, f[m]>>]]
  <2>2. f[m] \in X /\ m + 1 \in 1..n
    BY <2>1
  <2>3. h[<<m + 1, f[m]>>] \in X
    BY <2>2
  <2>4. g \in [0..(m + 1) -> X]
    <3>1. ASSUME NEW i \in 0..(m + 1) PROVE (IF i <= m THEN f[i] ELSE h[<<m + 1, f[m]>>]) \in X
      BY <2>1, <2>3
    <3> QED BY <3>1
  <2>5. g[0] = a
    BY <2>1
  <2>6. ASSUME NEW i \in 1..(m + 1) PROVE g[i] = h[<<i, g[i - 1]>>]
    <3>1. CASE i <= m
      <4>1. g[i] = f[i] /\ g[i - 1] = f[i - 1] /\ i \in 1..m
        BY <3>1
      <4> QED BY <2>1, <4>1
    <3>2. CASE i = m + 1
      <4>1. i - 1 = m /\ g[m] = f[m] /\ g[i] = h[<<m + 1, f[m]>>]
        BY <3>2
      <4> HIDE DEF g
      <4> QED BY <3>2, <4>1
    <3> QED BY <3>1, <3>2
  <2>7. Good(m + 1, g)
    <3> HIDE DEF g
    <3> QED BY <2>4, <2>5, <2>6
  <2>8. m + 1 \in 0..n
    OBVIOUS
  <2> HIDE DEF g, Good
  <2> QED BY <2>7, <2>8
<1>3. n \in T
  <2> HIDE DEF T
  <2>1. \A i \in 0..n : i \in T
    BY <1>1, <1>2, IntervalInduction
  <2> QED BY <2>1
<1>4. PICK f : Good(n, f)
  BY <1>3
<1> QED BY <1>4 DEF Iterates

=============================================================================
