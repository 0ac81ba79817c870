-------------------------- MODULE RequestQueueLemmas --------------------------
(***************************************************************************)
(* What the operators on request queues return, and what a sum over a      *)
(* finite set of requests does when one comes or goes.                     *)
(***************************************************************************)
EXTENDS RequestQueue, SequenceTheorems, FiniteSetTheorems, TLAPS

-------------------------------------------------------------------------------
(* Queues *)

LEMMA WithoutProperties ==
    ASSUME NEW S, NEW s \in Seq(S), NEW i \in 1 .. Len(s), NoRepeats(s)
    PROVE  /\ Without(s, i) \in Seq(S) /\ NoRepeats(Without(s, i))
           /\ Waiting(Without(s, i)) = Waiting(s) \ {s[i]}
  <1> DEFINE t == Without(s, i)
  <1>1. Len(s) \in Nat \ {0} /\ \A j \in 1 .. Len(s) : s[j] \in S
    BY LenProperties, ElementOfSeq
  <1>2. t \in [1 .. Len(s) - 1 -> S]
    BY <1>1 DEF Without
  <1>3. t \in Seq(S) /\ Len(t) = Len(s) - 1
    BY <1>1, <1>2
  <1>4. \A j \in 1 .. Len(s) - 1 : t[j] = IF j < i THEN s[j] ELSE s[j + 1]
    BY <1>1 DEF Without
  <1> HIDE DEF t
  <1> DEFINE m(j) == IF j < i THEN j ELSE j + 1
  <1>5. \A j \in 1 .. Len(t) : m(j) \in 1 .. Len(s) /\ m(j) # i /\ t[j] = s[m(j)]
    BY <1>1, <1>3, <1>4
  <1>6. NoRepeats(t)
    <2> SUFFICES ASSUME NEW j \in 1 .. Len(t), NEW k \in 1 .. Len(t), t[j] = t[k]
                 PROVE  j = k
      BY DEF NoRepeats
    <2>1. m(j) = m(k)
      BY <1>5 DEF NoRepeats
    <2> QED BY <1>1, <2>1
  <1>7. Waiting(t) \subseteq Waiting(s) \ {s[i]}
    <2> SUFFICES ASSUME NEW j \in 1 .. Len(t)
                 PROVE  t[j] \in Waiting(s) \ {s[i]}
      BY DEF Waiting
    <2> QED BY <1>1, <1>5 DEF NoRepeats, Waiting
  <1>8. ASSUME NEW x \in Waiting(s) \ {s[i]} PROVE x \in Waiting(t)
    <2>1. PICK j \in 1 .. Len(s) : s[j] = x /\ j # i
      BY <1>8 DEF Waiting
    <2>2. CASE j < i
      <3>1. j \in 1 .. Len(t) /\ t[j] = x
        BY <1>1, <1>3, <1>4, <2>1, <2>2
      <3> QED BY <3>1 DEF Waiting
    <2>3. CASE j > i
      <3>1. j - 1 \in 1 .. Len(t) /\ t[j - 1] = x
        BY <1>1, <1>3, <1>4, <2>1, <2>3
      <3> QED BY <3>1 DEF Waiting
    <2> QED BY <1>1, <2>1, <2>2, <2>3
  <1> QED
    BY <1>3, <1>6, <1>7, <1>8 DEF t

LEMMA TailProperties ==
    ASSUME NEW S, NEW s \in Seq(S), s # <<>>, NoRepeats(s)
    PROVE  /\ Head(s) \in S /\ Head(s) \in Waiting(s)
           /\ Tail(s) \in Seq(S) /\ NoRepeats(Tail(s))
           /\ Waiting(Tail(s)) = Waiting(s) \ {Head(s)}
  <1>1. Len(s) \in Nat \ {0} /\ \A j \in 1 .. Len(s) : s[j] \in S
    BY EmptySeq, ElementOfSeq
  <1>2. /\ Head(s) = s[1]
        /\ Tail(s) \in Seq(S) /\ Len(Tail(s)) = Len(s) - 1
        /\ \A i \in 1 .. Len(s) - 1 : Tail(s)[i] = s[i + 1]
    BY HeadTailProperties
  <1>3. Head(s) \in S /\ Head(s) \in Waiting(s)
    BY <1>1, <1>2 DEF Waiting
  <1>4. NoRepeats(Tail(s))
    BY <1>1, <1>2 DEF NoRepeats
  <1>5. Waiting(Tail(s)) \subseteq Waiting(s) \ {Head(s)}
    BY <1>1, <1>2 DEF NoRepeats, Waiting
  <1>6. ASSUME NEW x \in Waiting(s) \ {Head(s)} PROVE x \in Waiting(Tail(s))
    <2>1. PICK j \in 1 .. Len(s) : s[j] = x /\ j # 1
      BY <1>2, <1>6 DEF Waiting
    <2>2. j - 1 \in 1 .. Len(Tail(s)) /\ Tail(s)[j - 1] = x
      BY <1>1, <1>2, <2>1
    <2> QED BY <2>2 DEF Waiting
  <1> QED
    BY <1>2, <1>3, <1>4, <1>5, <1>6

LEMMA AppendToQueue ==
    ASSUME NEW S, NEW s \in Seq(S), NEW x \in S, NoRepeats(s), x \notin Waiting(s)
    PROVE  /\ Append(s, x) \in Seq(S) /\ NoRepeats(Append(s, x))
           /\ Waiting(Append(s, x)) = Waiting(s) \cup {x}
  <1> DEFINE t == Append(s, x)
  <1>1. /\ Len(s) \in Nat
        /\ t \in Seq(S) /\ Len(t) = Len(s) + 1
        /\ \A i \in 1 .. Len(s) : t[i] = s[i]
        /\ t[Len(s) + 1] = x
    BY AppendProperties, LenProperties
  <1> HIDE DEF t
  <1>2. NoRepeats(t)
    BY <1>1 DEF NoRepeats, Waiting
  <1>3. Waiting(t) = Waiting(s) \cup {x}
    BY <1>1 DEF Waiting
  <1> QED
    BY <1>1, <1>2, <1>3 DEF t

LEMMA EmptyQueue ==
    ASSUME NEW S
    PROVE  <<>> \in Seq(S) /\ NoRepeats(<<>>) /\ Waiting(<<>>) = {}
  BY DEF NoRepeats, Waiting

LEMMA WaitingInQueue ==
    ASSUME NEW S, NEW s \in Seq(S)
    PROVE  Waiting(s) \subseteq S /\ (Waiting(s) = {} => s = <<>>)
  <1>1. \A j \in 1 .. Len(s) : s[j] \in S
    BY ElementOfSeq
  <1>2. s # <<>> => s[1] \in Waiting(s)
    <2>1. s # <<>> => Len(s) \in Nat \ {0}
      BY EmptySeq
    <2> QED BY <2>1 DEF Waiting
  <1> QED
    BY <1>1, <1>2 DEF Waiting

\* A queue with one request before it.
LEMMA FrontProperties ==
    ASSUME NEW S, NEW c \in S, NEW s \in Seq(S), NEW t, t = <<c>> \o s
    PROVE  /\ t \in Seq(S) /\ t # <<>> /\ Len(t) = Len(s) + 1
           /\ t[1] = c /\ Head(t) = c /\ Tail(t) = s
           /\ \A i \in 1 .. Len(s) : t[i + 1] = s[i]
  <1>1. <<c>> \in Seq(S) /\ Len(<<c>>) = 1 /\ <<c>>[1] = c /\ Len(s) \in Nat
    BY LenProperties
  <1>2. /\ t \in Seq(S) /\ Len(t) = 1 + Len(s)
        /\ \A i \in 1 .. 1 + Len(s) : t[i] = IF i <= 1 THEN <<c>>[i] ELSE s[i - 1]
    BY <1>1, ConcatProperties
  <1>3. /\ t[1] = c /\ t # <<>>
        /\ \A i \in 1 .. Len(s) : t[i + 1] = s[i]
    BY <1>1, <1>2, EmptySeq
  <1>4. Tail(t) = s
    <2>1. /\ Tail(t) \in Seq(S) /\ Len(Tail(t)) = Len(s)
          /\ \A i \in 1 .. Len(Tail(t)) : Tail(t)[i] = t[i + 1]
      BY <1>1, <1>2, <1>3, HeadTailProperties
    <2> QED BY <1>3, <2>1, SeqEqual
  <1> QED
    BY <1>1, <1>2, <1>3, <1>4

LEMMA WaitingWithFront ==
    ASSUME NEW S, NEW c \in S, NEW s \in Seq(S)
    PROVE  Waiting(<<c>> \o s) = {c} \cup Waiting(s)
  <1> DEFINE t == <<c>> \o s
  <1>1. /\ Len(t) = Len(s) + 1 /\ Len(s) \in Nat
        /\ t[1] = c /\ \A i \in 1 .. Len(s) : t[i + 1] = s[i]
    BY FrontProperties, LenProperties
  <1> HIDE DEF t
  <1>2. ASSUME NEW i \in 1 .. Len(t) PROVE t[i] \in {c} \cup Waiting(s)
    <2>1. i = 1 \/ (i - 1 \in 1 .. Len(s) /\ (i - 1) + 1 = i)
      BY <1>1
    <2> QED BY <1>1, <2>1 DEF Waiting
  <1>3. ASSUME NEW i \in 1 .. Len(s) PROVE s[i] \in Waiting(t)
    <2>1. i + 1 \in 1 .. Len(t) /\ t[i + 1] = s[i]
      BY <1>1
    <2> QED BY <2>1 DEF Waiting
  <1>4. c \in Waiting(t)
    BY <1>1 DEF Waiting
  <1>5. Waiting(t) = {c} \cup Waiting(s)
    BY <1>2, <1>3, <1>4 DEF Waiting
  <1> QED
    BY <1>5 DEF t

LEMMA HeadAndTail ==
    ASSUME NEW S, NEW s \in Seq(S), s # <<>>
    PROVE  <<Head(s)>> \o Tail(s) = s
  <1>1. /\ Len(s) \in Nat \ {0} /\ Head(s) \in S /\ Head(s) = s[1]
        /\ Tail(s) \in Seq(S) /\ Len(Tail(s)) = Len(s) - 1
        /\ \A i \in 1 .. Len(Tail(s)) : Tail(s)[i] = s[i + 1]
    BY HeadTailProperties, EmptySeq
  <1>2. PICK c, u : c = Head(s) /\ u = Tail(s)
    OBVIOUS
  <1>3. PICK t : t = <<c>> \o u
    OBVIOUS
  <1>4. /\ t \in Seq(S) /\ Len(t) = Len(u) + 1 /\ t[1] = c
        /\ \A i \in 1 .. Len(u) : t[i + 1] = u[i]
    BY <1>1, <1>2, <1>3, FrontProperties
  <1>5. ASSUME NEW i \in 1 .. Len(s) PROVE t[i] = s[i]
    <2>1. i = 1 \/ (i - 1 \in 1 .. Len(u) /\ (i - 1) + 1 = i)
      BY <1>1, <1>2
    <2>2. \A j \in 1 .. Len(u) : t[j + 1] = s[j + 1]
      BY <1>1, <1>2, <1>4
    <2> QED BY <1>1, <1>2, <1>4, <2>1, <2>2
  <1>6. t = s
    <2>1. Len(t) = Len(s)
      BY <1>1, <1>2, <1>4
    <2> QED BY <1>4, <1>5, <2>1, SeqEqual
  <1> QED
    BY <1>2, <1>3, <1>6

\* What is taken out behind the front one.
LEMMA TakenBehindTheFront ==
    ASSUME NEW S, NEW c \in S, NEW s \in Seq(S), NEW i \in 1 .. Len(s)
    PROVE  <<c>> \o Without(s, i) = Without(<<c>> \o s, i + 1)
  <1> DEFINE t == <<c>> \o s
  <1>a. /\ t \in Seq(S) /\ t # <<>> /\ Len(t) = Len(s) + 1 /\ Len(s) \in Nat
        /\ t[1] = c /\ \A j \in 1 .. Len(s) : t[j + 1] = s[j]
    BY FrontProperties, LenProperties
  <1>b. \A j \in 1 .. Len(s) : s[j] \in S
    BY ElementOfSeq
  <1> HIDE DEF t
  <1>1. /\ Without(s, i) \in [1 .. Len(s) - 1 -> S]
        /\ \A j \in 1 .. Len(s) - 1 :
              Without(s, i)[j] = IF j < i THEN s[j] ELSE s[j + 1]
    BY <1>a, <1>b DEF Without
  <1>2. Without(s, i) \in Seq(S) /\ Len(Without(s, i)) = Len(s) - 1
    <2>1. Len(s) - 1 \in Nat
      BY <1>a
    <2>2. PICK v, n : v = Without(s, i) /\ n = Len(s) - 1
      OBVIOUS
    <2>3. v \in Seq(S) /\ Len(v) = n
      BY <1>1, <2>1, <2>2
    <2> QED BY <2>2, <2>3
  <1>3. PICK u : u = <<c>> \o Without(s, i)
    OBVIOUS
  <1>4. /\ u \in Seq(S) /\ Len(u) = Len(s) /\ u[1] = c
        /\ \A j \in 1 .. Len(s) - 1 : u[j + 1] = Without(s, i)[j]
    BY <1>a, <1>2, <1>3, FrontProperties
  <1>5. /\ Without(t, i + 1) = [j \in 1 .. Len(s) |->
                                  IF j < i + 1 THEN t[j] ELSE t[j + 1]]
        /\ \A j \in 1 .. Len(t) : t[j] \in S
    BY <1>a, ElementOfSeq DEF Without
  <1>6. /\ Without(t, i + 1) \in Seq(S) /\ Len(Without(t, i + 1)) = Len(s)
        /\ \A j \in 1 .. Len(s) :
              Without(t, i + 1)[j] = IF j < i + 1 THEN t[j] ELSE t[j + 1]
    <2>1. Without(t, i + 1) \in [1 .. Len(s) -> S]
      BY <1>a, <1>5
    <2> QED BY <1>a, <1>5, <2>1
  <1>7. ASSUME NEW j \in 1 .. Len(s) PROVE u[j] = Without(t, i + 1)[j]
    <2>1. CASE j = 1
      BY <1>a, <1>4, <1>6, <2>1
    <2>2. CASE j # 1
      <3>1. j - 1 \in 1 .. Len(s) - 1 /\ j \in 1 .. Len(s) /\ (j - 1) + 1 = j
        BY <1>a, <2>2
      <3>2. u[j] = IF j - 1 < i THEN s[j - 1] ELSE s[j]
        BY <1>1, <1>4, <3>1
      <3>3. t[j] = s[j - 1] /\ t[j + 1] = s[j]
        BY <1>a, <3>1
      <3> QED BY <1>a, <1>6, <3>1, <3>2, <3>3
    <2> QED BY <2>1, <2>2
  <1>8. u = Without(t, i + 1)
    BY <1>4, <1>6, <1>7, SeqEqual
  <1> QED BY <1>3, <1>8 DEF t

\* What is appended or left after a cut behind the front one.
LEMMA BehindTheFront ==
    ASSUME NEW S, NEW c \in S, NEW s \in Seq(S)
    PROVE  /\ \A x \in S : <<c>> \o Append(s, x) = Append(<<c>> \o s, x)
           /\ Without(<<c>> \o s, 1) = s
           /\ SubSeq(<<c>> \o s, 1, 1) = <<c>>
  <1> DEFINE t == <<c>> \o s
  <1>1. /\ t \in Seq(S) /\ t # <<>> /\ Len(t) = Len(s) + 1 /\ Len(s) \in Nat
        /\ t[1] = c /\ \A i \in 1 .. Len(s) : t[i + 1] = s[i]
    BY FrontProperties, LenProperties
  <1>2. \A j \in 1 .. Len(s) : s[j] \in S
    BY ElementOfSeq
  <1> HIDE DEF t
  <1>3. ASSUME NEW x \in S PROVE <<c>> \o Append(s, x) = Append(t, x)
    <2>1. /\ Append(s, x) \in Seq(S) /\ Len(Append(s, x)) = Len(s) + 1
          /\ \A i \in 1 .. Len(s) : Append(s, x)[i] = s[i]
          /\ Append(s, x)[Len(s) + 1] = x
      BY AppendProperties
    <2>2. /\ Append(t, x) \in Seq(S) /\ Len(Append(t, x)) = Len(t) + 1
          /\ \A i \in 1 .. Len(t) : Append(t, x)[i] = t[i]
          /\ Append(t, x)[Len(t) + 1] = x
      BY <1>1, AppendProperties
    <2>3. PICK u : u = <<c>> \o Append(s, x)
      OBVIOUS
    <2>4. /\ u \in Seq(S) /\ Len(u) = Len(s) + 2 /\ u[1] = c
          /\ \A i \in 1 .. Len(s) + 1 : u[i + 1] = Append(s, x)[i]
      BY <1>1, <2>1, <2>3, FrontProperties
    <2>5. \A i \in 1 .. Len(s) + 2 : u[i] = Append(t, x)[i]
      <3>1. ASSUME NEW i \in 1 .. Len(s) PROVE u[i + 1] = Append(t, x)[i + 1]
        BY <1>1, <2>1, <2>2, <2>4
      <3>2. u[Len(s) + 2] = x /\ Append(t, x)[Len(s) + 2] = x
        BY <1>1, <2>1, <2>2, <2>4
      <3>3. u[1] = Append(t, x)[1]
        BY <1>1, <2>2, <2>4
      <3>4. ASSUME NEW i \in 1 .. Len(s) + 2
            PROVE  i = 1 \/ i = Len(s) + 2 \/ (i - 1 \in 1 .. Len(s) /\ (i - 1) + 1 = i)
        BY <1>1
      <3> QED BY <3>1, <3>2, <3>3, <3>4
    <2>6. u = Append(t, x)
      BY <1>1, <2>2, <2>4, <2>5, SeqEqual
    <2> QED BY <2>3, <2>6
  <1>5. Without(t, 1) = s
    <2>1. Without(t, 1) = [j \in 1 .. Len(s) |-> t[j + 1]]
      BY <1>1 DEF Without
    <2>2. /\ Without(t, 1) \in Seq(S) /\ Len(Without(t, 1)) = Len(s)
          /\ \A j \in 1 .. Len(s) : Without(t, 1)[j] = s[j]
      <3>1. Without(t, 1) \in [1 .. Len(s) -> S]
        BY <1>1, <1>2, <2>1
      <3> QED BY <1>1, <2>1, <3>1
    <2> QED BY <2>2, SeqEqual
  <1>6. SubSeq(t, 1, 1) = <<c>>
    <2>1. /\ SubSeq(t, 1, 1) \in Seq(S) /\ Len(SubSeq(t, 1, 1)) = 1
          /\ SubSeq(t, 1, 1)[1] = c
      BY <1>1, SubSeqProperties
    <2>2. <<c>> \in Seq(S) /\ Len(<<c>>) = 1 /\ <<c>>[1] = c
      OBVIOUS
    <2>3. PICK u, v : u = SubSeq(t, 1, 1) /\ v = <<c>>
      OBVIOUS
    <2>4. /\ u \in Seq(S) /\ v \in Seq(S) /\ Len(u) = Len(v)
          /\ \A i \in 1 .. Len(u) : u[i] = v[i]
      BY <2>1, <2>2, <2>3
    <2>5. u = v
      BY <2>4, SeqEqual
    <2> QED BY <2>3, <2>5
  <1> QED
    BY <1>3, <1>5, <1>6 DEF t

-------------------------------------------------------------------------------
(* Sums over a finite set *)

\* The set of subsets with a property has a smallest one.
LEMMA SmallestSubset ==
    ASSUME NEW S, IsFiniteSet(S), NEW B, B \subseteq SUBSET S, B # {}
    PROVE  \E t \in B : \A u \in B : u \subseteq t => u = t
  <1>1. IsWellFoundedOn(StrictSubsetOrdering(S), FiniteSubsetsOf(S))
    BY FS_StrictSubsetOrderingWellFounded
  <1>2. B \subseteq FiniteSubsetsOf(S)
    BY FS_FiniteSubsetsOfFinite
  <1>3. PICK t \in B : \A u \in B : <<u, t>> \notin StrictSubsetOrdering(S)
    BY <1>1, <1>2, WFMin
  <1>4. \A u \in B : u \subseteq t => u = t
    BY <1>3 DEF StrictSubsetOrdering
  <1> QED
    BY <1>4

\* SumFunctionOnSet takes the elements one by one, in the order CHOOSE gives them.
Chosen(s) == CHOOSE x \in s : TRUE

SumsOf(f, S, g) ==
    g = [s \in SUBSET S |->
           IF s = {} THEN 0 ELSE f[Chosen(s)] + g[s \ {Chosen(s)}]]

LEMMA SumExpands ==
    ASSUME NEW f, NEW S
    PROVE  SumFunctionOnSet(f, S) = (CHOOSE g : SumsOf(f, S, g))[S]
  BY DEF SumFunctionOnSet, FoldFunctionOnSet, MapThenFoldSet, SumsOf, Chosen

LEMMA ChosenIsMember ==
    ASSUME NEW s, s # {}
    PROVE  Chosen(s) \in s
  BY DEF Chosen

LEMMA SumsOfStep ==
    ASSUME NEW f, NEW S, NEW g, SumsOf(f, S, g), NEW s \in SUBSET S
    PROVE  g[s] = IF s = {} THEN 0 ELSE f[Chosen(s)] + g[s \ {Chosen(s)}]
  BY Zenon DEF SumsOf

\* Two such functions agree where both are defined.
LEMMA SumsAgree ==
    ASSUME NEW f, NEW S, NEW T, NEW g, NEW h, SumsOf(f, S, g), SumsOf(f, T, h),
           NEW u, IsFiniteSet(u), u \subseteq S, u \subseteq T
    PROVE  g[u] = h[u]
  <1> DEFINE bad == {t \in SUBSET u : g[t] # h[t]}
  <1>1. SUFFICES ASSUME bad # {} PROVE FALSE
    OBVIOUS
  <1>2. PICK t \in bad : \A v \in bad : v \subseteq t => v = t
    <2>1. bad \subseteq SUBSET u
      OBVIOUS
    <2> HIDE DEF bad
    <2> QED BY <1>1, <2>1, SmallestSubset
  <1>3. /\ g[t] = IF t = {} THEN 0 ELSE f[Chosen(t)] + g[t \ {Chosen(t)}]
        /\ h[t] = IF t = {} THEN 0 ELSE f[Chosen(t)] + h[t \ {Chosen(t)}]
    BY SumsOfStep
  <1>4. t # {}
    BY <1>2, <1>3
  <1>5. Chosen(t) \in t
    BY <1>4, ChosenIsMember
  <1>6. t \ {Chosen(t)} \notin bad
    BY <1>2, <1>5
  <1>7. g[t \ {Chosen(t)}] = h[t \ {Chosen(t)}]
    BY <1>6
  <1> QED
    BY <1>2, <1>3, <1>4, <1>7

LEMMA SumsExist ==
    ASSUME NEW f, NEW S, IsFiniteSet(S)
    PROVE  \E g : SumsOf(f, S, g)
  <1> DEFINE bad == {t \in SUBSET S : ~ \E g : SumsOf(f, t, g)}
  <1>1. SUFFICES ASSUME bad # {} PROVE FALSE
    OBVIOUS
  <1>2. PICK t \in bad : \A v \in bad : v \subseteq t => v = t
    <2>1. bad \subseteq SUBSET S
      OBVIOUS
    <2> HIDE DEF bad
    <2> QED BY <1>1, <2>1, SmallestSubset
  <1> DEFINE sums(v) == CHOOSE g : SumsOf(f, v, g)
             total == [s \in SUBSET t |->
                         IF s = {} THEN 0
                         ELSE f[Chosen(s)] + sums(s \ {Chosen(s)})[s \ {Chosen(s)}]]
  <1>3. t \in SUBSET S /\ \A v \in SUBSET t : v # t => SumsOf(f, v, sums(v))
    BY <1>2
  <1> HIDE DEF bad, sums
  <1>4. ASSUME NEW s \in SUBSET t, s # {}
        PROVE  total[s] = f[Chosen(s)] + total[s \ {Chosen(s)}]
    <2> DEFINE u == s \ {Chosen(s)}
    <2>1. u \in SUBSET t /\ u # t /\ IsFiniteSet(u) /\ Chosen(s) \in s
      BY <1>3, <1>4, ChosenIsMember, FS_Subset
    <2>2. total[s] = f[Chosen(s)] + sums(u)[u]
      BY <1>4
    <2>3. sums(u)[u] = total[u]
      <3>1. sums(u)[u] = IF u = {} THEN 0
                         ELSE f[Chosen(u)] + sums(u)[u \ {Chosen(u)}]
        <4>1. SumsOf(f, u, sums(u))
          BY <1>3, <2>1
        <4> HIDE DEF u
        <4> QED BY <4>1, SumsOfStep
      <3>2. CASE u = {}
        BY <2>1, <3>1, <3>2
      <3>3. CASE u # {}
        <4> DEFINE v == u \ {Chosen(u)}
        <4>1. /\ v \in SUBSET t /\ v # t /\ IsFiniteSet(v) /\ v \subseteq u
          BY <2>1, <3>3, ChosenIsMember, FS_Subset
        <4>2. SumsOf(f, u, sums(u)) /\ SumsOf(f, v, sums(v))
          BY <1>3, <2>1, <4>1
        <4> HIDE DEF v
        <4>3. sums(u)[v] = sums(v)[v]
          BY <4>1, <4>2, SumsAgree
        <4>4. total[u] = f[Chosen(u)] + sums(v)[v]
          BY <2>1, <3>3 DEF v
        <4> QED BY <3>1, <3>3, <4>3, <4>4 DEF v
      <3> QED BY <3>2, <3>3
    <2> QED BY <2>2, <2>3
  <1>5. total[{}] = 0
    OBVIOUS
  <1>6. SumsOf(f, t, total)
    <2>1. \A s \in SUBSET t :
             total[s] = IF s = {} THEN 0 ELSE f[Chosen(s)] + total[s \ {Chosen(s)}]
      <3> HIDE DEF total
      <3> QED BY <1>4, <1>5, Zenon
    <2>2. total = [s \in SUBSET t |-> total[s]]
      OBVIOUS
    <2> HIDE DEF total
    <2> QED BY <2>1, <2>2 DEF SumsOf
  <1> QED
    BY <1>2, <1>6 DEF bad

\* The sum over nothing, and over a set when the element chosen is taken out.
LEMMA SumStep ==
    ASSUME NEW f, NEW S, IsFiniteSet(S)
    PROVE  SumFunctionOnSet(f, S) =
             IF S = {} THEN 0
             ELSE f[Chosen(S)] + SumFunctionOnSet(f, S \ {Chosen(S)})
  <1> DEFINE g(s) == CHOOSE h : SumsOf(f, s, h)
             rest == S \ {Chosen(S)}
  <1>1. IsFiniteSet(rest)
    BY FS_Subset
  <1>2. SumsOf(f, S, g(S)) /\ SumsOf(f, rest, g(rest))
    BY <1>1, SumsExist
  <1>3. SumFunctionOnSet(f, S) = g(S)[S] /\ SumFunctionOnSet(f, rest) = g(rest)[rest]
    BY SumExpands
  <1> HIDE DEF g
  <1>4. g(S)[rest] = g(rest)[rest]
    BY <1>1, <1>2, SumsAgree
  <1>5. g(S)[S] = IF S = {} THEN 0 ELSE f[Chosen(S)] + g(S)[rest]
    BY <1>2, SumsOfStep
  <1> QED
    BY <1>3, <1>4, <1>5

LEMMA SumIsNat ==
    ASSUME NEW D, NEW f \in [D -> Nat], NEW S, IsFiniteSet(S), S \subseteq D
    PROVE  SumFunctionOnSet(f, S) \in Nat
  <1> DEFINE bad == {t \in SUBSET S : SumFunctionOnSet(f, t) \notin Nat}
  <1>1. SUFFICES ASSUME bad # {} PROVE FALSE
    OBVIOUS
  <1>2. PICK t \in bad : \A v \in bad : v \subseteq t => v = t
    <2>1. bad \subseteq SUBSET S
      OBVIOUS
    <2> HIDE DEF bad
    <2> QED BY <1>1, <2>1, SmallestSubset
  <1>3. IsFiniteSet(t)
    BY FS_Subset
  <1>4. SumFunctionOnSet(f, t) =
          IF t = {} THEN 0 ELSE f[Chosen(t)] + SumFunctionOnSet(f, t \ {Chosen(t)})
    BY <1>3, SumStep
  <1>5. t # {} /\ Chosen(t) \in t
    BY <1>2, <1>4, ChosenIsMember
  <1>6. SumFunctionOnSet(f, t \ {Chosen(t)}) \in Nat
    BY <1>2, <1>5
  <1>7. f[Chosen(t)] \in Nat
    BY <1>5
  <1> QED
    BY <1>2, <1>4, <1>5, <1>6, <1>7

\* Any element can be taken out.
LEMMA SumWithout ==
    ASSUME NEW D, NEW f \in [D -> Nat], NEW S, IsFiniteSet(S), S \subseteq D,
           NEW y \in S
    PROVE  SumFunctionOnSet(f, S) = f[y] + SumFunctionOnSet(f, S \ {y})
  <1> DEFINE sum(s) == SumFunctionOnSet(f, s)
             bad == {t \in SUBSET S : \E z \in t : sum(t) # f[z] + sum(t \ {z})}
  <1>1. SUFFICES ASSUME bad # {} PROVE FALSE
    OBVIOUS
  <1>2. PICK t \in bad : \A v \in bad : v \subseteq t => v = t
    <2>1. bad \subseteq SUBSET S
      OBVIOUS
    <2> HIDE DEF bad
    <2> QED BY <1>1, <2>1, SmallestSubset
  <1>3. PICK z \in t : sum(t) # f[z] + sum(t \ {z})
    OBVIOUS
  <1> DEFINE x == Chosen(t)
  <1>4. x \in t /\ x \in D /\ z \in D
    BY <1>3, ChosenIsMember
  <1>5. IsFiniteSet(t) /\ IsFiniteSet(t \ {x}) /\ IsFiniteSet((t \ {x}) \ {z})
    BY FS_Subset
  <1>6. sum(t) = f[x] + sum(t \ {x})
    BY <1>4, <1>5, SumStep
  <1>7. x # z
    BY <1>3, <1>6
  <1>8. t \ {x} \notin bad /\ t \ {z} \notin bad
    BY <1>2, <1>3, <1>4
  <1>9. /\ sum(t \ {x}) = f[z] + sum((t \ {x}) \ {z})
        /\ sum(t \ {z}) = f[x] + sum((t \ {z}) \ {x})
    BY <1>3, <1>4, <1>7, <1>8
  <1>10. (t \ {z}) \ {x} = (t \ {x}) \ {z}
    OBVIOUS
  <1>11. sum((t \ {x}) \ {z}) \in Nat /\ f[x] \in Nat /\ f[z] \in Nat
    BY <1>4, <1>5, SumIsNat
  <1> HIDE DEF sum, x
  <1> QED
    BY <1>3, <1>6, <1>9, <1>10, <1>11

\* Only the values on the set matter.
LEMMA SumDependsOn ==
    ASSUME NEW f, NEW g, NEW S, IsFiniteSet(S), \A x \in S : f[x] = g[x]
    PROVE  SumFunctionOnSet(f, S) = SumFunctionOnSet(g, S)
  <1> DEFINE bad == {t \in SUBSET S : SumFunctionOnSet(f, t) # SumFunctionOnSet(g, t)}
  <1>1. SUFFICES ASSUME bad # {} PROVE FALSE
    OBVIOUS
  <1>2. PICK t \in bad : \A v \in bad : v \subseteq t => v = t
    <2>1. bad \subseteq SUBSET S
      OBVIOUS
    <2> HIDE DEF bad
    <2> QED BY <1>1, <2>1, SmallestSubset
  <1>3. IsFiniteSet(t)
    BY FS_Subset
  <1>4. /\ SumFunctionOnSet(f, t) =
             IF t = {} THEN 0 ELSE f[Chosen(t)] + SumFunctionOnSet(f, t \ {Chosen(t)})
        /\ SumFunctionOnSet(g, t) =
             IF t = {} THEN 0 ELSE g[Chosen(t)] + SumFunctionOnSet(g, t \ {Chosen(t)})
    BY <1>3, SumStep
  <1>5. t # {} /\ Chosen(t) \in t
    BY <1>2, <1>4, ChosenIsMember
  <1>6. SumFunctionOnSet(f, t \ {Chosen(t)}) = SumFunctionOnSet(g, t \ {Chosen(t)})
    BY <1>2, <1>5
  <1> QED
    BY <1>2, <1>4, <1>5, <1>6

\* What a request adds to the sum when it comes, and takes from it when it goes.
LEMMA SumWith ==
    ASSUME NEW D, NEW f \in [D -> Nat], NEW S, IsFiniteSet(S), S \subseteq D,
           NEW y \in D, y \notin S
    PROVE  SumFunctionOnSet(f, S \cup {y}) = SumFunctionOnSet(f, S) + f[y]
  <1>1. IsFiniteSet(S \cup {y}) /\ (S \cup {y}) \ {y} = S
    BY FS_AddElement
  <1>2. SumFunctionOnSet(f, S \cup {y}) = f[y] + SumFunctionOnSet(f, S)
    BY <1>1, SumWithout
  <1> QED
    BY <1>2, SumIsNat
===============================================================================
