-------------------------- MODULE SelectionProofs ---------------------------
(***************************************************************************)
(* Laws of Only and Says.                                                  *)
(***************************************************************************)
EXTENDS Selection, Integers, TLAPS, WellFoundedInduction, SequenceTheorems

(* Induction over the natural numbers, for a set in place of a predicate.   *)
LEMMA SetInduction ==
    ASSUME NEW S, 0 \in S, \A n \in Nat : n \in S => n + 1 \in S
    PROVE  \A n \in Nat : n \in S
<1> DEFINE R == {ss \in Nat \X Nat : ss[1] < ss[2]}
           B == Nat \ S
<1>1. SUFFICES ASSUME B # {} PROVE FALSE
  OBVIOUS
<1>2. \E x \in B : \A y \in B : ~ (<<y, x>> \in R)
  <2> HIDE DEF R, B
  <2>1. IsWellFoundedOn(R, Nat)  BY NatLessThanWellFounded DEF OpToRel, R
  <2>2. B \subseteq Nat  BY DEF B
  <2> QED  BY <1>1, <2>1, <2>2, WFMin
<1>3. PICK x \in B : \A y \in B : ~ (<<y, x>> \in R)  BY <1>2
<1>4. x \in Nat /\ x # 0 /\ x \notin S  OBVIOUS
<1>5. x - 1 \in Nat /\ x - 1 + 1 = x  BY <1>4
<1>6. x - 1 \notin S  BY <1>4, <1>5
<1>7. <<x - 1, x>> \in R  BY <1>4, <1>5
<1> QED  BY <1>3, <1>5, <1>6, <1>7

-----------------------------------------------------------------------------
(* The recursive function of Only.                                          *)
Selects(f, s, S) ==
    f = [i \in 0 .. Len(s) |->
           IF i = 0 THEN <<>>
           ELSE IF s[i] \in S THEN Append(f[i - 1], s[i]) ELSE f[i - 1]]

LEMMA SelectsValue ==
    ASSUME NEW s, NEW S, NEW f, Selects(f, s, S), NEW i \in 0 .. Len(s)
    PROVE  f[i] = IF i = 0 THEN <<>>
                  ELSE IF s[i] \in S THEN Append(f[i - 1], s[i]) ELSE f[i - 1]
<1> DEFINE v(j) == IF j = 0 THEN <<>>
                   ELSE IF s[j] \in S THEN Append(f[j - 1], s[j]) ELSE f[j - 1]
<1>1. f = [j \in 0 .. Len(s) |-> v(j)]  BY DEF Selects
<1> HIDE DEF v
<1>2. f[i] = v(i)  BY <1>1
<1> QED  BY <1>2 DEF v

LEMMA SelectsEqual ==
    ASSUME NEW s, NEW S, NEW f, NEW g, Len(s) \in Nat, Selects(f, s, S),
           NEW t, Len(t) \in Nat, Selects(g, t, S), Len(s) <= Len(t),
           \A i \in 1 .. Len(s) : s[i] = t[i]
    PROVE  \A i \in 0 .. Len(s) : f[i] = g[i]
<1> DEFINE A == {n \in Nat : n <= Len(s) => f[n] = g[n]}
<1>1. 0 \in A  BY DEF Selects
<1>2. ASSUME NEW n \in Nat, n \in A PROVE n + 1 \in A
  <2> SUFFICES ASSUME n + 1 <= Len(s) PROVE f[n + 1] = g[n + 1]
    OBVIOUS
  <2>2. /\ n + 1 \in 0 .. Len(s) /\ n + 1 \in 1 .. Len(s) /\ n + 1 \in 0 .. Len(t)
        /\ n + 1 # 0 /\ n + 1 - 1 = n /\ n <= Len(s)
    OBVIOUS
  <2>3. f[n + 1] = IF s[n + 1] \in S THEN Append(f[n], s[n + 1]) ELSE f[n]
    BY <2>2, SelectsValue
  <2>4. g[n + 1] = IF t[n + 1] \in S THEN Append(g[n], t[n + 1]) ELSE g[n]
    BY <2>2, SelectsValue
  <2>5. f[n] = g[n] /\ s[n + 1] = t[n + 1]  BY <1>2, <2>2
  <2> QED  BY <2>3, <2>4, <2>5
<1> HIDE DEF A
<1>3. \A n \in Nat : n \in A  BY <1>1, <1>2, SetInduction
<1> QED  BY <1>3 DEF A

LEMMA SelectsExists ==
    ASSUME NEW S, NEW T
    PROVE  \A s \in Seq(T) : \E f : Selects(f, s, S)
<1> DEFINE A == {n \in Nat : \A s \in Seq(T) : Len(s) = n => \E f : Selects(f, s, S)}
<1>1. 0 \in A
  <2>1. ASSUME NEW s \in Seq(T), Len(s) = 0 PROVE \E f : Selects(f, s, S)
    <3>1. Selects([i \in 0 .. 0 |-> <<>>], s, S)  BY <2>1 DEF Selects
    <3> QED  BY <3>1
  <2> QED  BY <2>1
<1>2. ASSUME NEW n \in Nat, n \in A PROVE n + 1 \in A
  <2>1. ASSUME NEW t \in Seq(T), Len(t) = n + 1 PROVE \E f : Selects(f, t, S)
    <3>1. PICK s \in Seq(T) : Len(s) = n /\ \A i \in 1 .. n : s[i] = t[i]
      <4>1. Len([i \in 1 .. n |-> t[i]]) = n /\ [i \in 1 .. n |-> t[i]] \in Seq(T)
        <5>1. \A i \in 1 .. n : t[i] \in T  BY <2>1, ElementOfSeq
        <5> QED  BY <5>1, IsASeq
      <4> QED  BY <4>1
    <3>2. PICK f : Selects(f, s, S)  BY <1>2, <3>1
    <3> DEFINE g == [i \in 0 .. Len(t) |->
                       IF i <= n THEN f[i]
                       ELSE IF t[i] \in S THEN Append(f[n], t[i]) ELSE f[n]]
    <3>3. ASSUME NEW i \in 0 .. Len(t)
          PROVE  g[i] = IF i = 0 THEN <<>>
                        ELSE IF t[i] \in S THEN Append(g[i - 1], t[i]) ELSE g[i - 1]
      <4>1. CASE i = 0  BY <3>1, <3>2, <4>1, SelectsValue
      <4>2. CASE i # 0 /\ i <= n
        <5>1. /\ i \in 0 .. n /\ i \in 1 .. n /\ i - 1 \in 0 .. Len(t) /\ i - 1 <= n
          BY <2>1, <4>2
        <5>2. g[i] = f[i] /\ g[i - 1] = f[i - 1] /\ s[i] = t[i]
          BY <3>1, <4>2, <5>1
        <5>3. f[i] = IF s[i] \in S THEN Append(f[i - 1], s[i]) ELSE f[i - 1]
          BY <3>1, <3>2, <4>2, <5>1, SelectsValue
        <5> HIDE DEF g
        <5> QED  BY <4>2, <5>2, <5>3
      <4>3. CASE ~(i <= n)
        <5>1. i = n + 1 /\ i # 0 /\ i - 1 = n /\ n \in 0 .. Len(t)  BY <2>1, <4>3
        <5>2. g[n] = f[n]  BY <5>1
        <5>3. g[i] = IF t[i] \in S THEN Append(f[n], t[i]) ELSE f[n]  BY <4>3
        <5> HIDE DEF g
        <5> QED  BY <5>1, <5>2, <5>3
      <4> QED  BY <4>1, <4>2, <4>3
    <3>4. Selects(g, t, S)
      <4>1. g = [i \in 0 .. Len(t) |-> g[i]]  OBVIOUS
      <4> HIDE DEF g
      <4>2. [i \in 0 .. Len(t) |-> g[i]]
              = [i \in 0 .. Len(t) |->
                   IF i = 0 THEN <<>>
                   ELSE IF t[i] \in S THEN Append(g[i - 1], t[i]) ELSE g[i - 1]]
        BY <3>3
      <4> QED  BY <4>1, <4>2 DEF Selects
    <3> QED  BY <3>4
  <2> QED  BY <2>1
<1> HIDE DEF A
<1>3. \A n \in Nat : n \in A  BY <1>1, <1>2, SetInduction
<1>4. ASSUME NEW s \in Seq(T) PROVE Len(s) \in A  BY <1>3, LenProperties
<1> QED  BY <1>4 DEF A

LEMMA OnlyDef ==
    ASSUME NEW T, NEW s \in Seq(T), NEW S
    PROVE  \E f : Selects(f, s, S) /\ Only(s, S) = f[Len(s)]
<1>1. \E f : Selects(f, s, S)  BY SelectsExists
<1>2. Only(s, S) = (CHOOSE f : f = [i \in 0 .. Len(s) |->
           IF i = 0 THEN <<>>
           ELSE IF s[i] \in S THEN Append(f[i - 1], s[i]) ELSE f[i - 1]])[Len(s)]
  BY DEF Only
<1>3. Only(s, S) = (CHOOSE f : Selects(f, s, S))[Len(s)]  BY <1>2 DEF Selects
<1> QED  BY <1>1, <1>3

-----------------------------------------------------------------------------
(* Only, one element after the other.                                       *)
LEMMA OnlyEmpty == ASSUME NEW S PROVE Only(<<>>, S) = <<>>
<1>1. <<>> \in Seq({}) /\ Len(<<>>) = 0  BY EmptySeq
<1>2. PICK f : Selects(f, <<>>, S) /\ Only(<<>>, S) = f[0]  BY <1>1, OnlyDef
<1> QED  BY <1>1, <1>2, SelectsValue

LEMMA OnlyAppend ==
    ASSUME NEW T, NEW s \in Seq(T), NEW x \in T, NEW S
    PROVE  Only(Append(s, x), S) = IF x \in S THEN Append(Only(s, S), x) ELSE Only(s, S)
<1> DEFINE t == Append(s, x)
<1>1. /\ t \in Seq(T) /\ Len(s) \in Nat /\ Len(t) = Len(s) + 1
      /\ \A i \in 1 .. Len(s) : s[i] = t[i]
      /\ t[Len(s) + 1] = x
  BY AppendProperties, LenProperties
<1> HIDE DEF t
<1>2. PICK f : Selects(f, s, S) /\ Only(s, S) = f[Len(s)]  BY OnlyDef
<1>3. PICK g : Selects(g, t, S) /\ Only(t, S) = g[Len(t)]  BY <1>1, OnlyDef
<1>4. Len(t) \in Nat /\ Len(s) <= Len(t)  BY <1>1
<1>5. f[Len(s)] = g[Len(s)]
  <2>1. \A i \in 0 .. Len(s) : f[i] = g[i]
    BY <1>1, <1>2, <1>3, <1>4, SelectsEqual
  <2> QED  BY <1>1, <2>1
<1>6. g[Len(t)] = IF x \in S THEN Append(g[Len(s)], x) ELSE g[Len(s)]
  <2>1. Len(t) \in 0 .. Len(t) /\ Len(t) # 0 /\ Len(t) - 1 = Len(s) /\ t[Len(t)] = x
    BY <1>1
  <2> QED  BY <1>3, <2>1, SelectsValue
<1> QED  BY <1>2, <1>3, <1>5, <1>6 DEF t

(* Induction over the sequences with elements in T.                         *)
LEMMA SeqInduction ==
    ASSUME NEW T, NEW A, <<>> \in A,
           \A s \in Seq(T), x \in T : s \in A => Append(s, x) \in A
    PROVE  \A s \in Seq(T) : s \in A
<1> DEFINE N == {n \in Nat : \A s \in Seq(T) : Len(s) = n => s \in A}
<1>1. 0 \in N  BY EmptySeq
<1>2. ASSUME NEW n \in Nat, n \in N PROVE n + 1 \in N
  <2>1. ASSUME NEW t \in Seq(T), Len(t) = n + 1 PROVE t \in A
    <3>1. t # <<>>  BY <2>1, EmptySeq
    <3>2. PICK s \in Seq(T), x \in T : t = Append(s, x)
      BY <3>1, SequenceEmptyOrAppend
    <3>3. Len(t) = Len(s) + 1 /\ Len(s) \in Nat  BY <3>2, AppendProperties, LenProperties
    <3>4. Len(s) = n  BY <2>1, <3>3
    <3> QED  BY <1>2, <3>2, <3>4
  <2> QED  BY <2>1
<1> HIDE DEF N
<1>3. \A n \in Nat : n \in N  BY <1>1, <1>2, SetInduction
<1>4. ASSUME NEW s \in Seq(T) PROVE Len(s) \in N  BY <1>3, LenProperties
<1> QED  BY <1>4 DEF N

-----------------------------------------------------------------------------
(* Only, for whole sequences.                                               *)
LEMMA OnlyType ==
    ASSUME NEW T, NEW S
    PROVE  \A s \in Seq(T) : Only(s, S) \in Seq(T \cap S) /\ Only(s, S) \in Seq(T)
<1> DEFINE A == {s \in Seq(T) : Only(s, S) \in Seq(T \cap S)}
<1>1. <<>> \in A  BY OnlyEmpty, EmptySeq
<1>2. ASSUME NEW s \in Seq(T), NEW x \in T, s \in A PROVE Append(s, x) \in A
  <2>1. Append(s, x) \in Seq(T)  BY AppendProperties
  <2>2. Only(s, S) \in Seq(T \cap S)  BY <1>2
  <2>3. x \in S => Append(Only(s, S), x) \in Seq(T \cap S)  BY <2>2, AppendProperties
  <2>4. Only(Append(s, x), S) = IF x \in S THEN Append(Only(s, S), x) ELSE Only(s, S)
    BY OnlyAppend
  <2>5. Only(Append(s, x), S) \in Seq(T \cap S)
    <3> HIDE DEF A
    <3> QED  BY <2>2, <2>3, <2>4
  <2> QED  BY <2>1, <2>5
<1> HIDE DEF A
<1>3. \A s \in Seq(T) : s \in A  BY <1>1, <1>2, SeqInduction
<1>4. \A s \in Seq(T) : Only(s, S) \in Seq(T \cap S)  BY <1>3 DEF A
<1>5. Seq(T \cap S) \subseteq Seq(T)  BY SeqMonotonic
<1> QED  BY <1>4, <1>5

LEMMA ConcatAppend ==
    ASSUME NEW T, NEW s \in Seq(T), NEW t \in Seq(T), NEW x \in T
    PROVE  s \o Append(t, x) = Append(s \o t, x)
<1>1. <<x>> \in Seq(T)  OBVIOUS
<1>2. Append(t, x) = t \o <<x>>  BY AppendIsConcat
<1>3. s \o t \in Seq(T)  BY ConcatProperties
<1>4. Append(s \o t, x) = (s \o t) \o <<x>>  BY <1>3, AppendIsConcat
<1>5. (s \o t) \o <<x>> = s \o (t \o <<x>>)  BY <1>1, ConcatAssociative
<1> QED  BY <1>2, <1>4, <1>5

LEMMA OnlyConcat ==
    ASSUME NEW T, NEW S, NEW s \in Seq(T)
    PROVE  \A t \in Seq(T) : Only(s \o t, S) = Only(s, S) \o Only(t, S)
<1> DEFINE A == {t \in Seq(T) : Only(s \o t, S) = Only(s, S) \o Only(t, S)}
<1>0. Only(s, S) \in Seq(T)  BY OnlyType
<1>1. <<>> \in A
  <2>1. s \o <<>> = s /\ Only(s, S) \o <<>> = Only(s, S)  BY <1>0, ConcatEmptySeq
  <2> QED  BY <2>1, OnlyEmpty, EmptySeq
<1>2. ASSUME NEW t \in Seq(T), NEW x \in T, t \in A PROVE Append(t, x) \in A
  <2>1. Append(t, x) \in Seq(T) /\ s \o t \in Seq(T) /\ Only(t, S) \in Seq(T)
    BY AppendProperties, ConcatProperties, OnlyType
  <2>2. s \o Append(t, x) = Append(s \o t, x)  BY ConcatAppend
  <2>3. Only(s, S) \o Append(Only(t, S), x) = Append(Only(s, S) \o Only(t, S), x)
    BY <1>0, <2>1, ConcatAppend
  <2>4. Only(s \o t, S) = Only(s, S) \o Only(t, S)  BY <1>2
  <2>5. Only(Append(s \o t, x), S)
          = IF x \in S THEN Append(Only(s \o t, S), x) ELSE Only(s \o t, S)
    BY <2>1, OnlyAppend
  <2>6. Only(Append(t, x), S) = IF x \in S THEN Append(Only(t, S), x) ELSE Only(t, S)
    BY OnlyAppend
  <2>7. Only(s \o Append(t, x), S) = Only(s, S) \o Only(Append(t, x), S)
    <3> HIDE DEF A
    <3>1. CASE x \in S  BY <2>2, <2>3, <2>4, <2>5, <2>6, <3>1
    <3>2. CASE x \notin S  BY <2>2, <2>4, <2>5, <2>6, <3>2
    <3> QED  BY <3>1, <3>2
  <2> QED  BY <2>1, <2>7
<1> HIDE DEF A
<1>3. \A t \in Seq(T) : t \in A  BY <1>1, <1>2, SeqInduction
<1> QED  BY <1>3 DEF A

LEMMA OnlyNone ==
    ASSUME NEW T, NEW S, T \cap S = {}
    PROVE  \A s \in Seq(T) : Only(s, S) = <<>>
<1>1. ASSUME NEW s \in Seq(T) PROVE Only(s, S) = <<>>
  <2>1. Only(s, S) \in Seq({})  BY OnlyType
  <2>2. ASSUME Only(s, S) # <<>> PROVE FALSE
    <3>1. Head(Only(s, S)) \in {}  BY <2>1, <2>2, HeadTailProperties
    <3> QED  BY <3>1
  <2> QED  BY <2>2
<1> QED  BY <1>1

LEMMA OnlyAll ==
    ASSUME NEW T, NEW S, T \subseteq S
    PROVE  \A s \in Seq(T) : Only(s, S) = s
<1> DEFINE A == {s \in Seq(T) : Only(s, S) = s}
<1>1. <<>> \in A  BY OnlyEmpty, EmptySeq
<1>2. ASSUME NEW s \in Seq(T), NEW x \in T, s \in A PROVE Append(s, x) \in A
  <2>1. Only(Append(s, x), S) = IF x \in S THEN Append(Only(s, S), x) ELSE Only(s, S)
    BY OnlyAppend
  <2>2. Append(s, x) \in Seq(T)  BY AppendProperties
  <2> QED  BY <1>2, <2>1, <2>2
<1> HIDE DEF A
<1>3. \A s \in Seq(T) : s \in A  BY <1>1, <1>2, SeqInduction
<1> QED  BY <1>3 DEF A

Elements(s) == {s[i] : i \in 1 .. Len(s)}
Distinct(s) == \A i, j \in 1 .. Len(s) : s[i] = s[j] => i = j

LEMMA ElementsAppend ==
    ASSUME NEW T, NEW s \in Seq(T), NEW x \in T
    PROVE  /\ Elements(Append(s, x)) = Elements(s) \cup {x}
           /\ Distinct(Append(s, x)) <=> Distinct(s) /\ x \notin Elements(s)
<1> DEFINE t == Append(s, x)
<1>1. /\ Len(s) \in Nat /\ Len(t) = Len(s) + 1
      /\ \A i \in 1 .. Len(s) : t[i] = s[i]
      /\ t[Len(s) + 1] = x
  BY AppendProperties, LenProperties
<1> HIDE DEF t
<1>2. 1 .. Len(t) = 1 .. Len(s) \cup {Len(s) + 1}  BY <1>1
<1>3. Elements(t) = Elements(s) \cup {x}  BY <1>1, <1>2 DEF Elements
<1>4. ASSUME Distinct(t) PROVE Distinct(s) /\ x \notin Elements(s)
  <2>1. Distinct(s)  BY <1>1, <1>2, <1>4 DEF Distinct
  <2>2. ASSUME NEW i \in 1 .. Len(s), s[i] = x PROVE FALSE
    <3>1. i \in 1 .. Len(t) /\ Len(s) + 1 \in 1 .. Len(t) /\ t[i] = t[Len(s) + 1]
      BY <1>1, <1>2, <2>2
    <3>2. i = Len(s) + 1  BY <1>4, <3>1 DEF Distinct
    <3> QED  BY <1>1, <3>2
  <2> QED  BY <2>1, <2>2 DEF Elements
<1>5. ASSUME Distinct(s), x \notin Elements(s),
             NEW i \in 1 .. Len(t), NEW j \in 1 .. Len(t), t[i] = t[j]
      PROVE  i = j
  <2>1. CASE i \in 1 .. Len(s) /\ j \in 1 .. Len(s)
    BY <1>1, <1>5, <2>1 DEF Distinct
  <2>2. CASE i \in 1 .. Len(s) /\ j = Len(s) + 1
    BY <1>1, <1>5, <2>2 DEF Elements
  <2>3. CASE i = Len(s) + 1 /\ j \in 1 .. Len(s)
    BY <1>1, <1>5, <2>3 DEF Elements
  <2>4. CASE i = Len(s) + 1 /\ j = Len(s) + 1  BY <2>4
  <2> QED  BY <1>2, <2>1, <2>2, <2>3, <2>4
<1>6. Distinct(s) /\ x \notin Elements(s) => Distinct(t)  BY <1>5 DEF Distinct
<1> QED  BY <1>3, <1>4, <1>6 DEF t

LEMMA OnlyElements ==
    ASSUME NEW T, NEW S
    PROVE  \A s \in Seq(T) : /\ Elements(Only(s, S)) = Elements(s) \cap S
                             /\ Distinct(s) => Distinct(Only(s, S))
<1> DEFINE Good(s) == /\ Elements(Only(s, S)) = Elements(s) \cap S
                      /\ Distinct(s) => Distinct(Only(s, S))
           A == {s \in Seq(T) : Good(s)}
<1>1. Good(<<>>)
  <2>1. Elements(<<>>) = {} /\ Distinct(<<>>)  BY EmptySeq DEF Elements, Distinct
  <2> QED  BY <2>1, OnlyEmpty
<1>2. ASSUME NEW s \in Seq(T), NEW x \in T, Good(s) PROVE Good(Append(s, x))
  <2>1. /\ Elements(Append(s, x)) = Elements(s) \cup {x}
        /\ Distinct(Append(s, x)) <=> Distinct(s) /\ x \notin Elements(s)
    BY ElementsAppend
  <2>2. Only(s, S) \in Seq(T)  BY OnlyType
  <2>3. /\ Elements(Append(Only(s, S), x)) = Elements(Only(s, S)) \cup {x}
        /\ Distinct(Append(Only(s, S), x))
             <=> Distinct(Only(s, S)) /\ x \notin Elements(Only(s, S))
    BY <2>2, ElementsAppend
  <2>4. Only(Append(s, x), S) = IF x \in S THEN Append(Only(s, S), x) ELSE Only(s, S)
    BY OnlyAppend
  <2>5. CASE x \in S
    <3>1. Only(Append(s, x), S) = Append(Only(s, S), x)  BY <2>4, <2>5
    <3>2. Elements(Only(Append(s, x), S)) = Elements(Append(s, x)) \cap S
      BY <1>2, <2>1, <2>3, <2>5, <3>1
    <3>3. ASSUME Distinct(Append(s, x)) PROVE Distinct(Only(Append(s, x), S))
      <4>1. x \notin Elements(Only(s, S)) /\ Distinct(Only(s, S))
        BY <1>2, <2>1, <3>3
      <4> QED  BY <2>3, <3>1, <4>1
    <3> QED  BY <3>2, <3>3
  <2>6. CASE x \notin S
    <3>1. Only(Append(s, x), S) = Only(s, S)  BY <2>4, <2>6
    <3>2. Elements(Only(Append(s, x), S)) = Elements(Append(s, x)) \cap S
      BY <1>2, <2>1, <2>6, <3>1
    <3>3. Distinct(Append(s, x)) => Distinct(Only(Append(s, x), S))
      BY <1>2, <2>1, <3>1
    <3> QED  BY <3>2, <3>3
  <2> QED  BY <2>5, <2>6
<1> HIDE DEF Good
<1>3. <<>> \in A /\ \A s \in Seq(T), x \in T : s \in A => Append(s, x) \in A
  BY <1>1, <1>2, AppendProperties, EmptySeq
<1> HIDE DEF A
<1>4. \A s \in Seq(T) : s \in A  BY <1>3, SeqInduction
<1>5. \A s \in Seq(T) : Good(s)  BY <1>4 DEF A
<1> QED  BY <1>5 DEF Good

-----------------------------------------------------------------------------
(* Says.                                                                    *)
LEMMA SaysType ==
    ASSUME NEW T, NEW U, \A m \in T : m.says \in U, NEW s \in Seq(T)
    PROVE  /\ Says(s) \in Seq(U) /\ Len(Says(s)) = Len(s)
           /\ \A i \in 1 .. Len(s) : Says(s)[i] = s[i].says
<1>1. Len(s) \in Nat /\ \A i \in 1 .. Len(s) : s[i] \in T
  BY LenProperties, ElementOfSeq
<1>2. Says(s) = [i \in 1 .. Len(s) |-> s[i].says]  BY DEF Says
<1>3. \A i \in 1 .. Len(s) : s[i].says \in U  BY <1>1
<1>4. [i \in 1 .. Len(s) |-> s[i].says] \in Seq(U)  BY <1>1, <1>3, IsASeq
<1> QED  BY <1>1, <1>2, <1>4, LenProperties

LEMMA SaysAppend ==
    ASSUME NEW T, NEW U, \A m \in T : m.says \in U, NEW s \in Seq(T), NEW x \in T
    PROVE  Says(Append(s, x)) = Append(Says(s), x.says)
<1> DEFINE t == Append(s, x)
           a == Says(t)
           b == Append(Says(s), x.says)
<1>1. /\ t \in Seq(T) /\ Len(s) \in Nat /\ Len(t) = Len(s) + 1
      /\ \A i \in 1 .. Len(s) : t[i] = s[i]
      /\ t[Len(s) + 1] = x
  BY AppendProperties, LenProperties
<1> HIDE DEF t
<1>2. /\ a \in Seq(U) /\ Len(a) = Len(t) /\ \A i \in 1 .. Len(t) : a[i] = t[i].says
  BY <1>1, SaysType
<1>3. /\ Says(s) \in Seq(U) /\ Len(Says(s)) = Len(s)
      /\ \A i \in 1 .. Len(s) : Says(s)[i] = s[i].says
  BY SaysType
<1>4. /\ b \in Seq(U) /\ Len(b) = Len(s) + 1
      /\ \A i \in 1 .. Len(s) : b[i] = s[i].says
      /\ b[Len(s) + 1] = x.says
  BY <1>3, AppendProperties
<1> HIDE DEF a, b
<1>5. \A i \in 1 .. Len(a) : a[i] = b[i]
  <2>1. 1 .. Len(a) = 1 .. Len(s) \cup {Len(s) + 1} /\ 1 .. Len(t) = 1 .. Len(a)
    BY <1>1, <1>2
  <2> QED  BY <1>1, <1>2, <1>4, <2>1
<1>6. a = b  BY <1>1, <1>2, <1>4, <1>5, SeqEqual
<1> QED  BY <1>6 DEF a, b, t

LEMMA SaysConcat ==
    ASSUME NEW T, NEW U, \A m \in T : m.says \in U, NEW s \in Seq(T)
    PROVE  \A t \in Seq(T) : Says(s \o t) = Says(s) \o Says(t)
<1> DEFINE A == {t \in Seq(T) : Says(s \o t) = Says(s) \o Says(t)}
<1>0. Says(s) \in Seq(U)  BY SaysType
<1>1. <<>> \in A
  <2>1. s \o <<>> = s /\ Says(s) \o <<>> = Says(s)  BY <1>0, ConcatEmptySeq
  <2>2. <<>> \in Seq(T) /\ Len(<<>>) = 0  BY EmptySeq
  <2>3. Says(<<>>) = <<>>
    <3>1. Says(<<>>) \in Seq(U) /\ Len(Says(<<>>)) = 0  BY <2>2, SaysType
    <3> QED  BY <3>1, EmptySeq
  <2> QED  BY <2>1, <2>2, <2>3
<1>2. ASSUME NEW t \in Seq(T), NEW x \in T, t \in A PROVE Append(t, x) \in A
  <2>1. Append(t, x) \in Seq(T) /\ s \o t \in Seq(T) /\ Says(t) \in Seq(U)
    BY AppendProperties, ConcatProperties, SaysType
  <2>2. x.says \in U  OBVIOUS
  <2>3. s \o Append(t, x) = Append(s \o t, x)  BY ConcatAppend
  <2>4. Says(Append(s \o t, x)) = Append(Says(s \o t), x.says)  BY <2>1, SaysAppend
  <2>5. Says(s) \o Append(Says(t), x.says) = Append(Says(s) \o Says(t), x.says)
    BY <1>0, <2>1, <2>2, ConcatAppend
  <2>6. Says(Append(t, x)) = Append(Says(t), x.says)  BY SaysAppend
  <2>7. Says(s \o Append(t, x)) = Says(s) \o Says(Append(t, x))
    BY <1>2, <2>3, <2>4, <2>5, <2>6
  <2> QED  BY <2>1, <2>7
<1> HIDE DEF A
<1>3. \A t \in Seq(T) : t \in A  BY <1>1, <1>2, SeqInduction
<1> QED  BY <1>3 DEF A
-----------------------------------------------------------------------------
(* What is left of q behind its first b elements.                           *)
Left(q, b) == SubSeq(q, b + 1, Len(q))

LEMMA LeftShape ==
    ASSUME NEW T, NEW q \in Seq(T), NEW b \in 0 .. Len(q)
    PROVE  /\ Left(q, b) \in Seq(T) /\ Len(Left(q, b)) = Len(q) - b
           /\ \A i \in 1 .. Len(q) - b : Left(q, b)[i] = q[b + i]
<1>1. Len(q) \in Nat  BY LenProperties
<1>2. \A i \in b + 1 .. Len(q) : q[i] \in T  BY <1>1, ElementOfSeq
<1>3. b + 1 \in Int /\ Len(q) \in Int  BY <1>1
<1> DEFINE r == SubSeq(q, b + 1, Len(q))
<1>4. /\ r \in Seq(T)
      /\ Len(r) = IF b + 1 <= Len(q) THEN Len(q) - (b + 1) + 1 ELSE 0
      /\ \A i \in 1 .. Len(q) - (b + 1) + 1 : r[i] = q[b + 1 + i - 1]
  BY <1>2, <1>3, SubSeqProperties
<1> HIDE DEF r
<1>5. Len(r) = Len(q) - b  BY <1>1, <1>4
<1>6. ASSUME NEW i \in 1 .. Len(q) - b PROVE r[i] = q[b + i]
  <2>1. i \in 1 .. Len(q) - (b + 1) + 1 /\ b + 1 + i - 1 = b + i  BY <1>1
  <2> QED  BY <1>4, <2>1
<1>7. Left(q, b) = r  BY DEF Left, r
<1> QED  BY <1>4, <1>5, <1>6, <1>7

LEMMA LeftGrows ==
    ASSUME NEW T, NEW q \in Seq(T), NEW b \in 0 .. Len(q), NEW m \in T
    PROVE  Left(Append(q, m), b) = Append(Left(q, b), m)
<1> DEFINE r == Append(q, m)
           w == Left(q, b)
           u == Left(r, b)
           v == Append(w, m)
<1>1. Len(q) \in Nat  BY LenProperties
<1>2. /\ r \in Seq(T) /\ Len(r) = Len(q) + 1
      /\ \A i \in 1 .. Len(q) : r[i] = q[i]
      /\ r[Len(q) + 1] = m
  BY AppendProperties
<1>3. /\ w \in Seq(T) /\ Len(w) = Len(q) - b
      /\ \A i \in 1 .. Len(q) - b : w[i] = q[b + i]
  BY LeftShape
<1> HIDE DEF r, w
<1>4. b \in 0 .. Len(r)  BY <1>1, <1>2
<1>5. /\ u \in Seq(T) /\ Len(u) = Len(r) - b
      /\ \A i \in 1 .. Len(r) - b : u[i] = r[b + i]
  BY <1>2, <1>4, LeftShape
<1>6. /\ v \in Seq(T) /\ Len(v) = Len(w) + 1
      /\ \A i \in 1 .. Len(w) : v[i] = w[i]
      /\ v[Len(w) + 1] = m
  BY <1>3, AppendProperties
<1> HIDE DEF u, v
<1>7. Len(u) = Len(v)  BY <1>1, <1>2, <1>3, <1>5, <1>6
<1>8. ASSUME NEW i \in 1 .. Len(u) PROVE u[i] = v[i]
  <2>1. i \in 1 .. Len(q) - b + 1 /\ u[i] = r[b + i]  BY <1>1, <1>2, <1>5
  <2>2. CASE i <= Len(q) - b
    <3>1. b + i \in 1 .. Len(q) /\ i \in 1 .. Len(q) - b  BY <1>1, <2>1, <2>2
    <3>2. r[b + i] = q[b + i]  BY <1>2, <3>1
    <3>3. v[i] = w[i] /\ w[i] = q[b + i]  BY <1>3, <1>6, <3>1
    <3> QED  BY <2>1, <3>2, <3>3
  <2>3. CASE ~(i <= Len(q) - b)
    <3>a. i = Len(q) - b + 1  BY <1>1, <2>1, <2>3
    <3>1. b + i = Len(q) + 1 /\ i = Len(w) + 1  BY <1>1, <1>3, <3>a
    <3>2. r[b + i] = m  BY <1>2, <3>1
    <3>3. v[i] = m  BY <1>6, <3>1
    <3> QED  BY <2>1, <3>2, <3>3
  <2> QED  BY <2>2, <2>3
<1>9. u = v  BY <1>5, <1>6, <1>7, <1>8, SeqEqual
<1> QED  BY <1>9 DEF u, v, r, w

-----------------------------------------------------------------------------
(* Pieces of a sequence.                                                    *)
LEMMA PieceShape ==
    ASSUME NEW T, NEW s \in Seq(T), NEW m \in Nat, NEW k \in Nat, m + k <= Len(s)
    PROVE  /\ SubSeq(s, m + 1, m + k) \in Seq(T) /\ Len(SubSeq(s, m + 1, m + k)) = k
           /\ \A i \in 1 .. k : SubSeq(s, m + 1, m + k)[i] = s[m + i]
<1>1. \A i \in m + 1 .. m + k : s[i] \in T  BY LenProperties, ElementOfSeq
<1>2. /\ SubSeq(s, m + 1, m + k) \in Seq(T)
      /\ Len(SubSeq(s, m + 1, m + k)) = IF m + 1 <= m + k THEN m + k - (m + 1) + 1 ELSE 0
      /\ \A i \in 1 .. m + k - (m + 1) + 1 : SubSeq(s, m + 1, m + k)[i] = s[m + 1 + i - 1]
  BY <1>1, SubSeqProperties
<1> QED  BY <1>2

LEMMA PieceSplits ==
    ASSUME NEW T, NEW s \in Seq(T), NEW m \in Nat, NEW k \in Nat, m + k <= Len(s),
           NEW j \in 0 .. k
    PROVE  SubSeq(s, m + 1, m + k) = SubSeq(s, m + 1, m + j) \o SubSeq(s, m + j + 1, m + k)
<1> DEFINE a == SubSeq(s, m + 1, m + k)
           b == SubSeq(s, m + 1, m + j)
           d == SubSeq(s, (m + j) + 1, (m + j) + (k - j))
<1>0. Len(s) \in Nat  BY LenProperties
<1>1. a \in Seq(T) /\ Len(a) = k /\ \A i \in 1 .. k : a[i] = s[m + i]
  BY PieceShape
<1>2. j \in Nat /\ m + j <= Len(s)  BY <1>0
<1>3. b \in Seq(T) /\ Len(b) = j /\ \A i \in 1 .. j : b[i] = s[m + i]
  BY <1>2, PieceShape
<1>4. m + j \in Nat /\ k - j \in Nat /\ (m + j) + (k - j) <= Len(s)
      /\ (m + j) + (k - j) = m + k
  BY <1>0
<1>5. d \in Seq(T) /\ Len(d) = k - j /\ \A i \in 1 .. k - j : d[i] = s[(m + j) + i]
  <2>1. \A n \in Nat, l \in Nat : n + l <= Len(s) =>
          /\ SubSeq(s, n + 1, n + l) \in Seq(T) /\ Len(SubSeq(s, n + 1, n + l)) = l
          /\ \A i \in 1 .. l : SubSeq(s, n + 1, n + l)[i] = s[n + i]
    BY PieceShape
  <2> QED  BY <1>4, <2>1
<1>6. d = SubSeq(s, m + j + 1, m + k)  BY <1>4
<1> HIDE DEF a, b, d
<1>7. /\ b \o d \in Seq(T) /\ Len(b \o d) = Len(b) + Len(d)
      /\ \A i \in 1 .. Len(b) + Len(d) :
            (b \o d)[i] = IF i <= Len(b) THEN b[i] ELSE d[i - Len(b)]
  BY <1>3, <1>5, ConcatProperties
<1>8. Len(a) = Len(b \o d)  BY <1>1, <1>3, <1>5, <1>7
<1>9. ASSUME NEW i \in 1 .. Len(a) PROVE a[i] = (b \o d)[i]
  <2>1. i \in 1 .. k /\ a[i] = s[m + i]  BY <1>1
  <2>2. (b \o d)[i] = IF i <= j THEN b[i] ELSE d[i - j]
    <3>1. i \in 1 .. Len(b) + Len(d)  BY <1>3, <1>5, <2>1
    <3>2. (b \o d)[i] = IF i <= Len(b) THEN b[i] ELSE d[i - Len(b)]  BY <1>7, <3>1
    <3> QED  BY <1>3, <3>2
  <2>3. CASE i <= j
    <3>1. b[i] = s[m + i]  BY <1>3, <2>1, <2>3
    <3> QED  BY <2>1, <2>2, <2>3, <3>1
  <2>4. CASE ~(i <= j)
    <3>1. i - j \in 1 .. k - j /\ (m + j) + (i - j) = m + i  BY <2>1, <2>4
    <3>2. d[i - j] = s[m + i]  BY <1>5, <3>1
    <3> QED  BY <2>1, <2>2, <2>4, <3>2
  <2> QED  BY <2>3, <2>4
<1>10. a = b \o d  BY <1>1, <1>7, <1>8, <1>9, SeqEqual
<1> QED  BY <1>6, <1>10 DEF a, b

LEMMA StartShape ==
    ASSUME NEW T, NEW s \in Seq(T), NEW n \in 0 .. Len(s)
    PROVE  /\ SubSeq(s, 1, n) \in Seq(T) /\ Len(SubSeq(s, 1, n)) = n
           /\ \A i \in 1 .. n : SubSeq(s, 1, n)[i] = s[i]
<1>1. Len(s) \in Nat /\ n \in Nat /\ n <= Len(s)  BY LenProperties
<1>2. \A i \in 1 .. n : s[i] \in T  BY <1>1, ElementOfSeq
<1>3. /\ SubSeq(s, 1, n) \in Seq(T)
      /\ Len(SubSeq(s, 1, n)) = IF 1 <= n THEN n - 1 + 1 ELSE 0
      /\ \A i \in 1 .. n - 1 + 1 : SubSeq(s, 1, n)[i] = s[1 + i - 1]
  BY <1>1, <1>2, SubSeqProperties
<1> QED  BY <1>1, <1>3

LEMMA StartSplits ==
    ASSUME NEW T, NEW s \in Seq(T), NEW m \in Nat, NEW k \in Nat, m + k <= Len(s)
    PROVE  SubSeq(s, 1, m + k) = SubSeq(s, 1, m) \o SubSeq(s, m + 1, m + k)
<1>1. \A n \in Nat : n <= Len(s) => \A j \in 0 .. n :
        SubSeq(s, 0 + 1, 0 + n) = SubSeq(s, 0 + 1, 0 + j) \o SubSeq(s, 0 + j + 1, 0 + n)
  BY PieceSplits
<1>2. m + k \in Nat /\ m \in 0 .. m + k  OBVIOUS
<1>3. 0 + 1 = 1 /\ 0 + (m + k) = m + k /\ 0 + m = m  OBVIOUS
<1> QED  BY <1>1, <1>2, <1>3

LEMMA StartOfConcat ==
    ASSUME NEW T, NEW s \in Seq(T), NEW t \in Seq(T), NEW n \in 0 .. Len(s)
    PROVE  SubSeq(s \o t, 1, n) = SubSeq(s, 1, n)
<1>1. /\ Len(s) \in Nat /\ Len(t) \in Nat
      /\ s \o t \in Seq(T) /\ Len(s \o t) = Len(s) + Len(t)
      /\ \A i \in 1 .. Len(s) + Len(t) :
            (s \o t)[i] = IF i <= Len(s) THEN s[i] ELSE t[i - Len(s)]
  BY LenProperties, ConcatProperties
<1> DEFINE u == s \o t
<1>2. n \in 0 .. Len(u)  BY <1>1
<1>3. \A i \in 1 .. n : u[i] = s[i]  BY <1>1
<1> HIDE DEF u
<1>4. /\ SubSeq(u, 1, n) \in Seq(T) /\ Len(SubSeq(u, 1, n)) = n
      /\ \A i \in 1 .. n : SubSeq(u, 1, n)[i] = u[i]
  BY <1>1, <1>2, StartShape DEF u
<1>5. /\ SubSeq(s, 1, n) \in Seq(T) /\ Len(SubSeq(s, 1, n)) = n
      /\ \A i \in 1 .. n : SubSeq(s, 1, n)[i] = s[i]
  BY StartShape
<1>6. SubSeq(u, 1, n) = SubSeq(s, 1, n)  BY <1>3, <1>4, <1>5, SeqEqual
<1> QED  BY <1>6 DEF u

LEMMA StartOfAppend ==
    ASSUME NEW T, NEW s \in Seq(T), NEW x \in T, NEW n \in 0 .. Len(s)
    PROVE  SubSeq(Append(s, x), 1, n) = SubSeq(s, 1, n)
<1>1. <<x>> \in Seq(T)  OBVIOUS
<1>2. Append(s, x) = s \o <<x>>  BY AppendIsConcat
<1> QED  BY <1>1, <1>2, StartOfConcat
=============================================================================
