----------------------- MODULE ProviderEmulator_proofs -----------------------
(***************************************************************************)
(* What the emulator's faults do to its events, for every sequence of      *)
(* instruments, every curve, queue limit and bound: the three invariants   *)
(* of ProviderEmulator.                                                    *)
(*                                                                         *)
(* Count, EventsIn and Only are first brought to laws about one append,    *)
(* one concatenation, one filter.  A step then is one of four, seen from   *)
(* the events: it moves them (Continues), collects new ones (Starts),      *)
(* takes up a batch, dropping some (Takes), or is through with one         *)
(* (Injects).  The invariant Sound is kept by each of the four; the order  *)
(* of what is published, and what is held, are followed on their own.      *)
(***************************************************************************)
EXTENDS ProviderEmulator, FiniteSetTheorems, FunctionTheorems, SequenceTheorems,
        WellFoundedInduction, TLAPS

\* The order of the naturals as a set of pairs, in a form the provers can read.
NatLess == {pair \in Nat \X Nat : pair[1] < pair[2]}

\* A set that holds 0 and the successor of each number it holds has them all: a
\* number it lacks would be preceded by another.
LEMMA AllNumbers ==
    ASSUME NEW S \in SUBSET Nat, 0 \in S, \A n \in S : n + 1 \in S
    PROVE  S = Nat
<1>1. OpToRel(<, Nat) = NatLess
  BY Zenon DEF OpToRel, NatLess
<1>2. IsWellFoundedOn(NatLess, Nat)
  BY <1>1, NatLessThanWellFounded, Zenon
<1> SUFFICES ASSUME Nat \ S # {} PROVE FALSE
  OBVIOUS
<1>3. Nat \ S \in SUBSET Nat
  OBVIOUS
<1>4. PICK m \in Nat \ S : \A y \in Nat \ S : <<y, m>> \notin NatLess
  BY <1>2, <1>3, WFMin
<1>5. m # 0 /\ m - 1 \in Nat /\ (m - 1) + 1 = m
  OBVIOUS
<1>6. m - 1 \in Nat \ S
  BY <1>5
<1>7. <<m - 1, m>> \in NatLess
  BY <1>5 DEF NatLess
<1> QED
  BY <1>4, <1>6, <1>7

-----------------------------------------------------------------------------

\* Whether an event is of a name, to be added up.
One(e, name) == IF Name(e) = name THEN 1 ELSE 0

\* What an operation on a sequence does to the number of its events of a name.
LEMMA CountOfNone ==
    ASSUME NEW name
    PROVE  Count(<<>>, name) = 0
  BY FS_EmptySet DEF Count, Positions

LEMMA CountIsNatural ==
    ASSUME NEW s \in Seq(Event), NEW name
    PROVE  Positions(s, name) \in SUBSET (1..Len(s)) /\ IsFiniteSet(Positions(s, name))
           /\ Count(s, name) \in Nat
<1>1. Positions(s, name) \in SUBSET (1..Len(s)) /\ 1 \in Int /\ Len(s) \in Int
  BY DEF Positions
<1>2. IsFiniteSet(1..Len(s))
  BY <1>1, FS_Interval
<1>3. IsFiniteSet(Positions(s, name))
  BY <1>1, <1>2, FS_Subset
<1> QED
  BY <1>1, <1>3, FS_CardinalityType DEF Count

LEMMA CountOfAppended ==
    ASSUME NEW s \in Seq(Event), NEW e \in Event, NEW name
    PROVE  Count(Append(s, e), name) = Count(s, name) + One(e, name)
<1>1. /\ Len(s) \in Nat /\ DOMAIN s = 1..Len(s) /\ DOMAIN Append(s, e) = 1..(Len(s) + 1)
      /\ \A k \in 1..Len(s) : Append(s, e)[k] = s[k]
      /\ Append(s, e)[Len(s) + 1] = e
  OBVIOUS
<1>2. CASE Name(e) = name
  <2>1. Positions(Append(s, e), name) = Positions(s, name) \cup {Len(s) + 1}
    BY <1>1, <1>2 DEF Positions
  <2>2. Len(s) + 1 \notin Positions(s, name)
    BY <1>1 DEF Positions
  <2>3. IsFiniteSet(Positions(s, name))
    BY CountIsNatural
  <2>4. Cardinality(Positions(s, name) \cup {Len(s) + 1}) = Cardinality(Positions(s, name)) + 1
    BY <2>2, <2>3, FS_AddElement
  <2> QED
    BY <1>2, <2>1, <2>4 DEF Count, One
<1>3. CASE Name(e) # name
  <2>1. Positions(Append(s, e), name) = Positions(s, name)
    BY <1>1, <1>3 DEF Positions
  <2> QED
    BY <1>3, <2>1, CountIsNatural DEF Count, One
<1> QED
  BY <1>2, <1>3

LEMMA CountOfJoined ==
    ASSUME NEW s \in Seq(Event), NEW t \in Seq(Event), NEW name
    PROVE  Count(s \o t, name) = Count(s, name) + Count(t, name)
<1> DEFINE P == Positions(s, name)
           Q == {Len(s) + k : k \in Positions(t, name)}
           shift == [k \in Positions(t, name) |-> Len(s) + k]
<1>1. /\ Len(s) \in Nat /\ Len(t) \in Nat
      /\ DOMAIN s = 1..Len(s) /\ DOMAIN t = 1..Len(t) /\ DOMAIN (s \o t) = 1..(Len(s) + Len(t))
      /\ \A k \in 1..Len(s) : (s \o t)[k] = s[k]
      /\ \A k \in 1..Len(t) : (s \o t)[Len(s) + k] = t[k]
  OBVIOUS
<1>2. \A k \in 1..(Len(s) + Len(t)) : k \in 1..Len(s) \/ \E j \in 1..Len(t) : k = Len(s) + j
  <2> SUFFICES ASSUME NEW k \in 1..(Len(s) + Len(t)), k \notin 1..Len(s)
               PROVE  \E j \in 1..Len(t) : k = Len(s) + j
    OBVIOUS
  <2>1. k - Len(s) \in 1..Len(t) /\ k = Len(s) + (k - Len(s))
    BY <1>1
  <2> QED
    BY <2>1
<1>3. Positions(s \o t, name) = P \cup Q
  <2>1. ASSUME NEW k \in Positions(s \o t, name) PROVE k \in P \cup Q
    <3>1. k \in 1..(Len(s) + Len(t)) /\ Name((s \o t)[k]) = name
      BY <1>1 DEF Positions
    <3>2. CASE k \in 1..Len(s)
      BY <1>1, <3>1, <3>2 DEF Positions
    <3>3. ASSUME NEW j \in 1..Len(t), k = Len(s) + j PROVE k \in Q
      BY <1>1, <3>1, <3>3 DEF Positions
    <3> QED
      BY <1>2, <3>1, <3>2, <3>3
  <2>2. ASSUME NEW k \in P \cup Q PROVE k \in Positions(s \o t, name)
    <3>1. CASE k \in P
      BY <1>1, <3>1 DEF Positions
    <3>2. CASE k \in Q
      <4>1. PICK j \in Positions(t, name) : k = Len(s) + j
        BY <3>2
      <4>2. j \in 1..Len(t) /\ Len(s) + j \in 1..(Len(s) + Len(t))
        BY <1>1 DEF Positions
      <4> QED
        BY <1>1, <4>1, <4>2 DEF Positions
    <3> QED
      BY <2>2, <3>1, <3>2
  <2> QED
    BY <2>1, <2>2
<1>4. P \cap Q = {}
  BY <1>1 DEF Positions
<1>5. Cardinality(Q) = Cardinality(Positions(t, name)) /\ IsFiniteSet(Q)
  <2>1. Positions(t, name) \subseteq Nat
    BY <1>1 DEF Positions
  <2>2. /\ shift \in [Positions(t, name) -> Q]
        /\ \A j, k \in Positions(t, name) : shift[j] = shift[k] => j = k
    BY <1>1, <2>1
  <2>3. \A q \in Q : \E k \in Positions(t, name) : shift[k] = q
    OBVIOUS
  <2> HIDE DEF shift, Q
  <2>4. shift \in Bijection(Positions(t, name), Q)
    BY <2>2, <2>3, Fun_IsBij
  <2>5. ExistsBijection(Positions(t, name), Q)
    BY <2>4 DEF ExistsBijection
  <2> QED
    BY <2>5, CountIsNatural, FS_Bijection
<1>6. IsFiniteSet(P)
  BY CountIsNatural
<1> HIDE DEF P, Q
<1>7. Cardinality(P \cup Q) = Cardinality(P) + Cardinality(Q) - Cardinality({})
  BY <1>4, <1>5, <1>6, FS_Union
<1> QED
  BY <1>3, <1>5, <1>7, CountIsNatural, FS_EmptySet DEF Count, P

LEMMA CountOfTwice ==
    ASSUME NEW e \in Event, NEW name
    PROVE  /\ <<e, e>> \in Seq(Event) /\ ToSet(<<e, e>>) = {e}
           /\ Count(<<e, e>>, name) = One(e, name) + One(e, name)
<1> DEFINE s == <<e, e>>
<1>1. s \in Seq(Event) /\ DOMAIN s = {1, 2} /\ s[1] = e /\ s[2] = e
  OBVIOUS
<1> HIDE DEF s
<1>2. ToSet(s) = {e}
  BY <1>1 DEF ToSet
<1>3. Positions(s, name) = IF Name(e) = name THEN {1, 2} ELSE {}
  BY <1>1 DEF Positions
<1>4. Cardinality({1, 2}) = 2 /\ Cardinality({}) = 0
  <2>1. Cardinality({1}) = 1 /\ IsFiniteSet({1}) /\ 2 \notin {1}
    <3>1. 2 \notin {1}
      OBVIOUS
    <3> QED
      BY <3>1, FS_Singleton, Zenon
  <2>2. Cardinality({1} \cup {2}) = 2 /\ {1} \cup {2} = {1, 2}
    BY <2>1, FS_AddElement
  <2> QED
    BY <2>2, FS_EmptySet
<1>5. Count(s, name) = One(e, name) + One(e, name)
  BY <1>3, <1>4 DEF Count, One
<1> QED
  BY <1>1, <1>2, <1>5 DEF s

LEMMA CountOfRest ==
    ASSUME NEW s \in Seq(Event), s # <<>>, NEW name
    PROVE  Count(s, name) = One(Head(s), name) + Count(Tail(s), name)
<1> DEFINE h == <<Head(s)>>
           t == Tail(s)
<1>1. /\ h \in Seq(Event) /\ t \in Seq(Event) /\ s = h \o t
      /\ DOMAIN h = {1} /\ h[1] = Head(s)
  OBVIOUS
<1> HIDE DEF h, t
<1>2. Positions(h, name) = IF Name(Head(s)) = name THEN {1} ELSE {}
  BY <1>1 DEF Positions
<1>3. Count(h, name) = One(Head(s), name)
  BY <1>2, FS_EmptySet, FS_Singleton DEF Count, One
<1>4. Count(s, name) = Count(h, name) + Count(t, name)
  BY <1>1, CountOfJoined
<1> QED
  BY <1>3, <1>4 DEF t

\* A sequence has no event of a name, or some.
LEMMA CountOfAbsent ==
    ASSUME NEW s \in Seq(Event), NEW name
    PROVE  Count(s, name) = 0 <=> \A e \in ToSet(s) : Name(e) # name
<1>1. Count(s, name) = 0 <=> Positions(s, name) = {}
  BY CountIsNatural, FS_EmptySet DEF Count
<1> QED
  BY <1>1 DEF Positions, ToSet

-----------------------------------------------------------------------------

\* The function in Only(s, S) is there: one that is right up to n extends to n + 1.
Filters(only, s, S, n) ==
    only = [m \in 0..n |->
              IF m = 0 THEN <<>>
              ELSE IF s[m] \in S THEN Append(only[m - 1], s[m]) ELSE only[m - 1]]

LEMMA OnlyUnrolls ==
    ASSUME NEW s \in Seq(Event), NEW S
    PROVE  \E only : /\ only[0] = <<>>
                     /\ \A n \in 1..Len(s) :
                           only[n] = IF s[n] \in S THEN Append(only[n - 1], s[n]) ELSE only[n - 1]
                     /\ Only(s, S) = only[Len(s)]
<1> DEFINE Good == {n \in Nat : \E f : Filters(f, s, S, n)}
<1>1. 0 \in Good
  <2>1. 0..0 = {0}
    OBVIOUS
  <2>2. Filters([m \in 0..0 |-> <<>>], s, S, 0)
    BY <2>1 DEF Filters
  <2> QED
    BY <2>2
<1>2. ASSUME NEW n \in Good PROVE n + 1 \in Good
  <2>1. PICK f : Filters(f, s, S, n)
    OBVIOUS
  <2> DEFINE g == [m \in 0..(n + 1) |->
                     IF m = n + 1
                     THEN IF s[m] \in S THEN Append(f[n], s[m]) ELSE f[n]
                     ELSE f[m]]
  <2>2. \A m \in 0..n : f[m] = IF m = 0 THEN <<>>
                              ELSE IF s[m] \in S THEN Append(f[m - 1], s[m]) ELSE f[m - 1]
    BY <2>1 DEF Filters
  <2>3. /\ n \in Nat /\ n + 1 # 0 /\ (n + 1) - 1 = n
        /\ \A m \in 0..(n + 1) : m = n + 1 \/ m \in 0..n
        /\ \A m \in 0..n : m \in 0..(n + 1) /\ m # n + 1
        /\ \A m \in 0..(n + 1) : m # 0 => m - 1 \in 0..n
    OBVIOUS
  <2>4. \A m \in 0..n : g[m] = f[m]
    BY <2>3
  <2>5. \A m \in 0..(n + 1) :
           g[m] = IF m = 0 THEN <<>>
                  ELSE IF s[m] \in S THEN Append(g[m - 1], s[m]) ELSE g[m - 1]
    <3> SUFFICES ASSUME NEW m \in 0..(n + 1)
                 PROVE  g[m] = IF m = 0 THEN <<>>
                               ELSE IF s[m] \in S THEN Append(g[m - 1], s[m]) ELSE g[m - 1]
      OBVIOUS
    <3>1. CASE m = n + 1
      <4>1. g[m - 1] = f[n]
        BY <2>3, <2>4, <3>1
      <4> QED
        BY <2>3, <3>1, <4>1
    <3>2. CASE m \in 0..n
      <4>1. g[m] = f[m] /\ (m # 0 => g[m - 1] = f[m - 1])
        BY <2>3, <2>4, <3>2
      <4> HIDE DEF g
      <4> QED
        BY <2>2, <3>2, <4>1
    <3> QED
      BY <2>3, <3>1, <3>2
  <2>6. g = [m \in 0..(n + 1) |-> g[m]]
    OBVIOUS
  <2> HIDE DEF g
  <2>7. Filters(g, s, S, n + 1)
    BY <2>5, <2>6 DEF Filters
  <2> QED
    BY <2>3, <2>7
<1>3. Good = Nat
  <2>1. Good \in SUBSET Nat
    OBVIOUS
  <2> HIDE DEF Good
  <2> QED
    BY <1>1, <1>2, <2>1, AllNumbers
<1>4. Len(s) \in Nat
  OBVIOUS
<1>5. \E f : Filters(f, s, S, Len(s))
  BY <1>3, <1>4
<1> DEFINE only == CHOOSE f : Filters(f, s, S, Len(s))
<1>6. Filters(only, s, S, Len(s))
  BY <1>5
<1>7. Only(s, S) = only[Len(s)]
  BY DEF Only, Filters
<1> HIDE DEF only
<1>8. \A n \in 0..Len(s) : only[n] = IF n = 0 THEN <<>>
          ELSE IF s[n] \in S THEN Append(only[n - 1], s[n]) ELSE only[n - 1]
  BY <1>6 DEF Filters
<1>9. only[0] = <<>> /\ \A n \in 1..Len(s) :
          only[n] = IF s[n] \in S THEN Append(only[n - 1], s[n]) ELSE only[n - 1]
  BY <1>4, <1>8
<1> QED
  BY <1>7, <1>9

\* The events of a curve follow each other by tenor.
Rising(s) == \A j, k \in DOMAIN s : j < k => s[j].tenor < s[k].tenor

LEMMA RisingPositions ==
    ASSUME NEW s \in Seq(Event), Rising(s), NEW j \in DOMAIN s, NEW k \in DOMAIN s,
           s[j].tenor = s[k].tenor
    PROVE  j = k
<1>1. s[j] \in Event /\ j \in Nat /\ k \in Nat
  OBVIOUS
<1>2. s[j].tenor \in Nat
  BY <1>1 DEF Event
<1>3. ~(j < k) /\ ~(k < j)
  BY <1>2 DEF Rising
<1> QED
  BY <1>1, <1>3

LEMMA AppendElements ==
    ASSUME NEW s \in Seq(Event), NEW e \in Event
    PROVE  /\ Append(s, e) \in Seq(Event) /\ Len(Append(s, e)) = Len(s) + 1
           /\ ToSet(Append(s, e)) = ToSet(s) \cup {e}
           /\ Rising(s) /\ (\A d \in ToSet(s) : d.tenor < e.tenor) => Rising(Append(s, e))
<1>1. /\ Append(s, e) \in Seq(Event) /\ Len(Append(s, e)) = Len(s) + 1 /\ Len(s) \in Nat
      /\ DOMAIN s = 1..Len(s) /\ DOMAIN Append(s, e) = 1..(Len(s) + 1)
      /\ \A k \in 1..Len(s) : Append(s, e)[k] = s[k]
      /\ Append(s, e)[Len(s) + 1] = e
  OBVIOUS
<1>2. \A k \in 1..(Len(s) + 1) : k = Len(s) + 1 \/ k \in 1..Len(s)
  BY <1>1
<1>3. ToSet(Append(s, e)) = ToSet(s) \cup {e}
  BY <1>1, <1>2 DEF ToSet
<1>4. ASSUME Rising(s), \A d \in ToSet(s) : d.tenor < e.tenor
      PROVE  Rising(Append(s, e))
  <2> SUFFICES ASSUME NEW j \in 1..(Len(s) + 1), NEW k \in 1..(Len(s) + 1), j < k
               PROVE  Append(s, e)[j].tenor < Append(s, e)[k].tenor
    BY <1>1 DEF Rising
  <2>1. j \in 1..Len(s) /\ Append(s, e)[j] = s[j] /\ s[j] \in ToSet(s)
    BY <1>1 DEF ToSet
  <2> QED
    BY <1>1, <1>2, <1>4, <2>1 DEF Rising
<1> QED
  BY <1>1, <1>3, <1>4

\* Only(s, S) has the elements of s that are in S, in the order of s.
LEMMA OnlyProperties ==
    ASSUME NEW s \in Seq(Event), NEW S
    PROVE  /\ Only(s, S) \in Seq(Event) /\ Len(Only(s, S)) <= Len(s)
           /\ ToSet(Only(s, S)) = ToSet(s) \cap S
           /\ Rising(s) => Rising(Only(s, S))
<1>1. PICK only : /\ only[0] = <<>>
                  /\ \A n \in 1..Len(s) :
                        only[n] = IF s[n] \in S THEN Append(only[n - 1], s[n]) ELSE only[n - 1]
                  /\ Only(s, S) = only[Len(s)]
  BY OnlyUnrolls
<1> DEFINE First(n) == {s[k] : k \in 1..n}
           P(n) == /\ only[n] \in Seq(Event) /\ Len(only[n]) <= n
                   /\ ToSet(only[n]) = First(n) \cap S
                   /\ Rising(s) => Rising(only[n])
           Good == {n \in Nat : n <= Len(s) => P(n)}
<1>2. 0 \in Good
  <2>1. /\ <<>> \in Seq(Event) /\ Len(<<>>) <= 0 /\ ToSet(<<>>) = {} /\ Rising(<<>>)
        /\ First(0) = {}
    BY DEF ToSet, Rising
  <2> QED
    BY <1>1, <2>1
<1>3. ASSUME NEW n \in Good PROVE n + 1 \in Good
  <2> SUFFICES ASSUME n + 1 <= Len(s) PROVE P(n + 1)
    OBVIOUS
  <2>1. /\ n \in Nat /\ Len(s) \in Nat /\ P(n) /\ n + 1 \in 1..Len(s) /\ (n + 1) - 1 = n
        /\ \A k \in 1..(n + 1) : k = n + 1 \/ k \in 1..n
        /\ \A k \in 1..n : k \in 1..(n + 1)
        /\ \A k \in 1..n : k \in 1..Len(s) /\ k < n + 1
        /\ n + 1 \in 1..(n + 1)
    OBVIOUS
  <2>2. s[n + 1] \in Event /\ DOMAIN s = 1..Len(s)
    BY <2>1
  <2>3. First(n + 1) = First(n) \cup {s[n + 1]}
    BY <2>1
  <2>4. Rising(s) => \A d \in First(n) : d.tenor < s[n + 1].tenor
    BY <2>1, <2>2 DEF Rising
  <2>5. only[n + 1] = IF s[n + 1] \in S THEN Append(only[n], s[n + 1]) ELSE only[n]
    BY <1>1, <2>1
  <2> HIDE DEF First
  <2>6. CASE s[n + 1] \in S
    <3>1. only[n] \in Seq(Event) /\ only[n + 1] = Append(only[n], s[n + 1])
      BY <2>1, <2>5, <2>6
    <3>2. /\ only[n + 1] \in Seq(Event) /\ Len(only[n + 1]) = Len(only[n]) + 1
          /\ ToSet(only[n + 1]) = ToSet(only[n]) \cup {s[n + 1]}
          /\ Rising(only[n]) /\ (\A d \in ToSet(only[n]) : d.tenor < s[n + 1].tenor)
                => Rising(only[n + 1])
      BY <2>2, <3>1, AppendElements
    <3>3. Len(only[n]) \in Nat
      BY <3>1
    <3> QED
      BY <2>1, <2>3, <2>4, <2>6, <3>2, <3>3
  <2>7. CASE s[n + 1] \notin S
    <3>1. only[n + 1] = only[n] /\ First(n + 1) \cap S = First(n) \cap S
      BY <2>3, <2>5, <2>7
    <3>2. Len(only[n]) \in Nat
      BY <2>1
    <3> QED
      BY <2>1, <3>1, <3>2
  <2> QED
    BY <2>6, <2>7
<1>4. Good = Nat
  <2>1. Good \in SUBSET Nat
    OBVIOUS
  <2> HIDE DEF Good
  <2> QED
    BY <1>2, <1>3, <2>1, AllNumbers
<1>5. P(Len(s))
  <2>1. Len(s) \in Nat /\ Len(s) <= Len(s)
    OBVIOUS
  <2> HIDE DEF P
  <2> QED
    BY <1>4, <2>1
<1>6. First(Len(s)) = ToSet(s)
  BY DEF ToSet
<1> QED
  BY <1>1, <1>5, <1>6

\* What is taken out and what is left are, name by name, what there was.
LEMMA OnlySplits ==
    ASSUME NEW s \in Seq(Event), NEW S, NEW name
    PROVE  Count(Only(s, S), name) + Count(Only(s, ToSet(s) \ S), name) = Count(s, name)
<1>1. PICK in : /\ in[0] = <<>>
                /\ \A n \in 1..Len(s) :
                      in[n] = IF s[n] \in S THEN Append(in[n - 1], s[n]) ELSE in[n - 1]
                /\ Only(s, S) = in[Len(s)]
  BY OnlyUnrolls
<1>2. PICK out : /\ out[0] = <<>>
                 /\ \A n \in 1..Len(s) :
                       out[n] = IF s[n] \in ToSet(s) \ S
                                THEN Append(out[n - 1], s[n]) ELSE out[n - 1]
                 /\ Only(s, ToSet(s) \ S) = out[Len(s)]
  BY OnlyUnrolls
<1> DEFINE Upto(n) == {k \in 1..n : Name(s[k]) = name}
           P(n) == /\ in[n] \in Seq(Event) /\ out[n] \in Seq(Event)
                   /\ IsFiniteSet(Upto(n))
                   /\ Count(in[n], name) + Count(out[n], name) = Cardinality(Upto(n))
           Good == {n \in Nat : n <= Len(s) => P(n)}
<1>3. P(0)
  <2>1. Upto(0) = {} /\ <<>> \in Seq(Event)
    OBVIOUS
  <2> QED
    BY <1>1, <1>2, <2>1, CountOfNone, FS_EmptySet
<1>4. ASSUME NEW n \in Nat, n + 1 <= Len(s), P(n) PROVE P(n + 1)
  <2>1. /\ Len(s) \in Nat /\ n + 1 \in 1..Len(s) /\ (n + 1) - 1 = n
        /\ \A k \in 1..(n + 1) : k = n + 1 \/ k \in 1..n
        /\ \A k \in 1..n : k \in 1..(n + 1)
        /\ n + 1 \in 1..(n + 1) /\ n + 1 \notin 1..n
    BY <1>4
  <2> DEFINE e == s[n + 1]
  <2>2. e \in Event /\ e \in ToSet(s)
    BY <2>1 DEF ToSet
  <2>3. /\ in[n + 1] = IF e \in S THEN Append(in[n], e) ELSE in[n]
        /\ out[n + 1] = IF e \in S THEN out[n] ELSE Append(out[n], e)
    BY <1>1, <1>2, <2>1, <2>2
  <2>4. Upto(n + 1) = IF Name(e) = name THEN Upto(n) \cup {n + 1} ELSE Upto(n)
    BY <2>1
  <2>5. n + 1 \notin Upto(n)
    BY <2>1
  <2>6. /\ in[n] \in Seq(Event) /\ out[n] \in Seq(Event) /\ IsFiniteSet(Upto(n))
        /\ Count(in[n], name) + Count(out[n], name) = Cardinality(Upto(n))
    BY <1>4
  <2> HIDE DEF e, Upto
  <2>7. Cardinality(Upto(n + 1)) = Cardinality(Upto(n)) + One(e, name)
        /\ IsFiniteSet(Upto(n + 1)) /\ One(e, name) \in Nat
    <3>1. CASE Name(e) = name
      BY <2>4, <2>5, <2>6, <3>1, FS_AddElement, FS_CardinalityType DEF One
    <3>2. CASE Name(e) # name
      BY <2>4, <2>6, <3>2, FS_CardinalityType DEF One
    <3> QED
      BY <3>1, <3>2
  <2>8. Count(in[n], name) \in Nat /\ Count(out[n], name) \in Nat
    BY <2>6, CountIsNatural
  <2>9. CASE e \in S
    <3>1. in[n + 1] = Append(in[n], e) /\ out[n + 1] = out[n]
      BY <2>3, <2>9
    <3>2. Append(in[n], e) \in Seq(Event)
      BY <2>2, <2>6, AppendElements
    <3>3. Count(in[n + 1], name) = Count(in[n], name) + One(e, name)
      BY <2>2, <2>6, <3>1, CountOfAppended
    <3> QED
      BY <2>6, <2>7, <2>8, <3>1, <3>2, <3>3
  <2>10. CASE e \notin S
    <3>1. out[n + 1] = Append(out[n], e) /\ in[n + 1] = in[n]
      BY <2>3, <2>10
    <3>2. Append(out[n], e) \in Seq(Event)
      BY <2>2, <2>6, AppendElements
    <3>3. Count(out[n + 1], name) = Count(out[n], name) + One(e, name)
      BY <2>2, <2>6, <3>1, CountOfAppended
    <3> QED
      BY <2>6, <2>7, <2>8, <3>1, <3>2, <3>3
  <2> QED
    BY <2>9, <2>10
<1>5. Upto(Len(s)) = Positions(s, name)
  BY DEF Positions
<1> HIDE DEF P
<1>6. Good = Nat
  <2>1. Good \in SUBSET Nat /\ 0 \in Good
    BY <1>3
  <2>2. ASSUME NEW n \in Good PROVE n + 1 \in Good
    <3>1. n \in Nat /\ Len(s) \in Nat /\ (n + 1 <= Len(s) => n <= Len(s))
      OBVIOUS
    <3> QED
      BY <1>4, <3>1
  <2> HIDE DEF Good
  <2> QED
    BY <2>1, <2>2, AllNumbers
<1>7. P(Len(s))
  <2>1. Len(s) \in Nat /\ Len(s) <= Len(s)
    OBVIOUS
  <2> QED
    BY <1>6, <2>1
<1> QED
  BY <1>1, <1>2, <1>5, <1>7 DEF P, Count

\* What a mark changes.
LEMMA MarkedProperties ==
    ASSUME NEW e \in Event, NEW mark \in Marks
    PROVE  /\ Marked(e, mark) \in Event
           /\ Marked(e, mark).pass = e.pass /\ Marked(e, mark).instrument = e.instrument
           /\ Marked(e, mark).tenor = e.tenor
           /\ Marked(e, mark).marks = e.marks \cup {mark}
  BY DEF Marked, Event

\* What Head and Tail divide a sequence into, and what \o joins.
LEMMA RestPositions ==
    ASSUME NEW S, NEW s \in Seq(S), s # <<>>
    PROVE  /\ Head(s) \in S /\ Tail(s) \in Seq(S) /\ Len(Tail(s)) <= Len(s)
           /\ 1 \in DOMAIN s /\ s[1] = Head(s)
           /\ \A k \in DOMAIN Tail(s) : k \in Nat /\ k + 1 \in DOMAIN s /\ Tail(s)[k] = s[k + 1]
           /\ \A k \in DOMAIN Tail(s) : 1 < k + 1
           /\ \A k \in DOMAIN s : k = 1 \/ (k - 1 \in DOMAIN Tail(s) /\ s[k] = Tail(s)[k - 1])
<1>1. /\ Tail(s) \in Seq(S) /\ Head(s) \in S /\ Len(s) \in Nat \ {0}
      /\ DOMAIN s = 1..Len(s) /\ DOMAIN Tail(s) = 1..(Len(s) - 1) /\ Len(Tail(s)) = Len(s) - 1
      /\ Head(s) = s[1] /\ \A k \in 1..(Len(s) - 1) : Tail(s)[k] = s[k + 1]
  OBVIOUS
<1>2. \A k \in DOMAIN Tail(s) :
         k \in Nat /\ k + 1 \in DOMAIN s /\ 1 < k + 1 /\ Tail(s)[k] = s[k + 1]
  BY <1>1
<1>3. /\ 1 \in DOMAIN s
      /\ \A k \in DOMAIN s : k = 1 \/ (k - 1 \in DOMAIN Tail(s) /\ s[k] = Tail(s)[k - 1])
  BY <1>1
<1> QED
  BY <1>1, <1>2, <1>3

LEMMA RestElements ==
    ASSUME NEW S, NEW s \in Seq(S), s # <<>>
    PROVE  /\ Head(s) \in S /\ Tail(s) \in Seq(S) /\ Len(Tail(s)) <= Len(s)
           /\ ToSet(s) = {Head(s)} \cup ToSet(Tail(s))
           /\ Rising(s) => Rising(Tail(s)) /\ \A f \in ToSet(Tail(s)) : Head(s).tenor < f.tenor
<1> DEFINE h == Head(s)
           t == Tail(s)
<1>1. h \in S /\ t \in Seq(S) /\ Len(t) <= Len(s)
  BY RestPositions
<1>2. /\ 1 \in DOMAIN s /\ s[1] = h
      /\ \A k \in DOMAIN t : k \in Nat /\ k + 1 \in DOMAIN s /\ t[k] = s[k + 1]
      /\ \A k \in DOMAIN t : 1 < k + 1
      /\ \A k \in DOMAIN s : k = 1 \/ (k - 1 \in DOMAIN t /\ s[k] = t[k - 1])
  BY RestPositions
<1> HIDE DEF h, t
<1>3. ASSUME NEW e \in ToSet(s) PROVE e = h \/ e \in ToSet(t)
  <2>1. PICK k \in DOMAIN s : e = s[k]
    BY DEF ToSet
  <2>2. CASE k = 1
    BY <1>2, <2>1, <2>2
  <2>3. CASE k - 1 \in DOMAIN t /\ s[k] = t[k - 1]
    BY <2>1, <2>3 DEF ToSet
  <2> QED
    BY <1>2, <2>2, <2>3
<1>4. h \in ToSet(s) /\ \A e \in ToSet(t) : e \in ToSet(s)
  BY <1>2 DEF ToSet
<1>5. ToSet(s) = {h} \cup ToSet(t)
  BY <1>3, <1>4
<1>6. ASSUME Rising(s) PROVE Rising(t)
  <2> SUFFICES ASSUME NEW j \in DOMAIN t, NEW k \in DOMAIN t, j < k
               PROVE  t[j].tenor < t[k].tenor
    BY DEF Rising
  <2>1. j + 1 \in DOMAIN s /\ k + 1 \in DOMAIN s /\ j + 1 < k + 1
        /\ t[j] = s[j + 1] /\ t[k] = s[k + 1]
    BY <1>2
  <2> QED
    BY <1>6, <2>1 DEF Rising
<1>7. ASSUME Rising(s), NEW f \in ToSet(t) PROVE h.tenor < f.tenor
  <2>1. PICK k \in DOMAIN t : f = t[k]
    BY DEF ToSet
  <2>2. k + 1 \in DOMAIN s /\ 1 < k + 1 /\ f = s[k + 1]
    BY <1>2, <2>1
  <2> QED
    BY <1>2, <1>7, <2>2 DEF Rising
<1> QED
  BY <1>1, <1>5, <1>6, <1>7 DEF h, t

LEMMA JoinedElements ==
    ASSUME NEW S, NEW s \in Seq(S), NEW t \in Seq(S)
    PROVE  s \o t \in Seq(S) /\ ToSet(s \o t) = ToSet(s) \cup ToSet(t)
<1>1. /\ s \o t \in Seq(S) /\ Len(s) \in Nat /\ Len(t) \in Nat
      /\ DOMAIN s = 1..Len(s) /\ DOMAIN t = 1..Len(t) /\ DOMAIN (s \o t) = 1..(Len(s) + Len(t))
      /\ \A k \in 1..(Len(s) + Len(t)) : (s \o t)[k] = IF k <= Len(s) THEN s[k] ELSE t[k - Len(s)]
  OBVIOUS
<1>2. \A k \in 1..(Len(s) + Len(t)) : k \in 1..Len(s) \/ k - Len(s) \in 1..Len(t)
  BY <1>1
<1>3. \A k \in DOMAIN s : k \in DOMAIN (s \o t) /\ (s \o t)[k] = s[k]
  BY <1>1
<1>4. \A k \in DOMAIN t : Len(s) + k \in DOMAIN (s \o t) /\ (s \o t)[Len(s) + k] = t[k]
  BY <1>1
<1>5. ASSUME NEW k \in DOMAIN (s \o t) PROVE (s \o t)[k] \in ToSet(s) \cup ToSet(t)
  <2>1. CASE k \in 1..Len(s)
    BY <1>1, <1>3, <2>1 DEF ToSet
  <2>2. CASE k - Len(s) \in 1..Len(t)
    <3>1. ~(k <= Len(s))
      BY <1>1, <2>2
    <3> QED
      BY <1>1, <2>2, <3>1 DEF ToSet
  <2> QED
    BY <1>1, <1>2, <2>1, <2>2
<1> DEFINE st == s \o t
<1> HIDE DEF st
<1>6. ToSet(st) \subseteq ToSet(s) \cup ToSet(t)
  BY <1>5 DEF ToSet, st
<1>7. ToSet(s) \subseteq ToSet(st) /\ ToSet(t) \subseteq ToSet(st)
  <2>1. \A k \in DOMAIN s : k \in DOMAIN st /\ st[k] = s[k]
    BY <1>3 DEF st
  <2>2. \A k \in DOMAIN t : Len(s) + k \in DOMAIN st /\ st[Len(s) + k] = t[k]
    BY <1>4 DEF st
  <2> QED
    BY <2>1, <2>2 DEF ToSet
<1> QED
  BY <1>1, <1>6, <1>7 DEF st

\* The first batch and the batches after it.
LEMMA RestBatches ==
    ASSUME NEW c \in Seq(Seq(Event)), c # <<>>
    PROVE  /\ Head(c) \in Seq(Event) /\ Tail(c) \in Seq(Seq(Event))
           /\ EventsIn(c) = ToSet(Head(c)) \cup EventsIn(Tail(c))
           /\ 1 \in DOMAIN c /\ c[1] = Head(c)
           /\ \A n \in DOMAIN Tail(c) : n + 1 \in DOMAIN c /\ n + 1 # 1 /\ Tail(c)[n] = c[n + 1]
           /\ \A n, m \in DOMAIN Tail(c) : n + 1 = m + 1 => n = m
<1> DEFINE h == Head(c)
           t == Tail(c)
<1>1. h \in Seq(Event) /\ t \in Seq(Seq(Event))
  OBVIOUS
<1>2. /\ 1 \in DOMAIN c /\ c[1] = h
      /\ \A n \in DOMAIN t : n \in Nat /\ n + 1 \in DOMAIN c /\ t[n] = c[n + 1] /\ 1 < n + 1
  <2> DEFINE S == Seq(Event)
  <2>1. c \in Seq(S)
    OBVIOUS
  <2> HIDE DEF S
  <2> QED
    BY <2>1, RestPositions
<1> HIDE DEF h, t
<1>3. /\ \A n \in DOMAIN t : n + 1 # 1
      /\ \A n, m \in DOMAIN t : n + 1 = m + 1 => n = m
  BY <1>2
<1>4. ToSet(c) = {h} \cup ToSet(t)
  <2> DEFINE S == Seq(Event)
  <2>1. c \in Seq(S)
    OBVIOUS
  <2> HIDE DEF S
  <2> QED
    BY <2>1, RestElements DEF h, t
<1>5. \A e : e \in EventsIn(c) <=> e \in ToSet(h) \cup EventsIn(t)
  BY <1>4 DEF EventsIn
<1> QED
  BY <1>1, <1>2, <1>3, <1>5 DEF h, t

\* The events of all lists.
LEMMA EventsOfLists ==
    ASSUME NEW c \in Seq(Seq(Event)), NEW b \in Seq(Event), NEW d \in Seq(Event),
           NEW r \in Seq(Event), NEW p \in Seq(Event), NEW a \in Seq(Event)
    PROVE  EventsIn(c \o <<b, d, r, p, a>>)
             = EventsIn(c) \cup ToSet(b) \cup ToSet(d) \cup ToSet(r) \cup ToSet(p) \cup ToSet(a)
<1> DEFINE l == <<b, d, r, p, a>>
<1>1. l \in Seq(Seq(Event)) /\ DOMAIN l = 1..5
      /\ l[1] = b /\ l[2] = d /\ l[3] = r /\ l[4] = p /\ l[5] = a
  OBVIOUS
<1> HIDE DEF l
<1>2. ToSet(l) = {b, d, r, p, a}
  BY <1>1 DEF ToSet
<1>3. ToSet(c \o l) = ToSet(c) \cup {b, d, r, p, a}
  <2> DEFINE S == Seq(Event)
  <2>1. c \in Seq(S) /\ l \in Seq(S)
    BY <1>1
  <2> HIDE DEF S
  <2>2. ToSet(c \o l) = ToSet(c) \cup ToSet(l)
    BY <2>1, JoinedElements
  <2> QED
    BY <1>2, <2>2
<1>4. EventsIn(c \o l) = UNION {ToSet(x) : x \in ToSet(c) \cup {b, d, r, p, a}}
  BY <1>3 DEF EventsIn
<1>5. \A e : e \in EventsIn(c \o l) <=> e \in EventsIn(c) \cup ToSet(b) \cup ToSet(d)
                                                    \cup ToSet(r) \cup ToSet(p) \cup ToSet(a)
  BY <1>4 DEF EventsIn
<1> QED
  BY <1>5 DEF l

\* The curve of an instrument, and the batches of a cycle.
LEMMA CurveProperties ==
    ASSUME NEW pass \in 1..MaxCycles, NEW i \in InstrumentSet, NEW size \in Nat,
           NEW cached \in BOOLEAN
    PROVE  /\ Curve(pass, i, size, cached) \in Seq(Event)
           /\ Rising(Curve(pass, i, size, cached))
           /\ \A e \in ToSet(Curve(pass, i, size, cached)) :
                 e.pass = pass /\ e.instrument = i /\ e.marks = {}
<1>1. \A k \in 1..size : [pass |-> pass, instrument |-> i, tenor |-> k,
                 cached |-> cached, marks |-> {}] \in Event
  BY DEF Event
<1>2. Curve(pass, i, size, cached) \in [1..size -> Event]
  BY <1>1 DEF Curve
<1>3. Curve(pass, i, size, cached) \in Seq(Event) /\ DOMAIN Curve(pass, i, size, cached) = 1..size
  BY <1>2
<1>4. \A k \in 1..size :
         Curve(pass, i, size, cached)[k] = [pass |-> pass, instrument |-> i, tenor |-> k,
                 cached |-> cached, marks |-> {}]
  BY DEF Curve
<1> QED
  BY <1>3, <1>4 DEF Rising, ToSet

\* A sequence that rises has at most one event of a name.
LEMMA CountOfRising ==
    ASSUME NEW s \in Seq(Event), Rising(s), NEW name
    PROVE  Count(s, name) = IF \E e \in ToSet(s) : Name(e) = name THEN 1 ELSE 0
<1>1. CASE \E e \in ToSet(s) : Name(e) = name
  <2>1. PICK k \in DOMAIN s : Name(s[k]) = name
    BY <1>1 DEF ToSet
  <2>2. \A j \in DOMAIN s : Name(s[j]) = name => j = k
    <3> SUFFICES ASSUME NEW j \in DOMAIN s, Name(s[j]) = name PROVE j = k
      OBVIOUS
    <3>1. s[j].tenor = s[k].tenor
      BY <2>1 DEF Name
    <3> QED
      BY <3>1, RisingPositions
  <2>3. Positions(s, name) = {k}
    BY <2>1, <2>2 DEF Positions
  <2> QED
    BY <1>1, <2>3, FS_Singleton DEF Count
<1>2. CASE ~\E e \in ToSet(s) : Name(e) = name
  BY <1>2, CountOfAbsent
<1> QED
  BY <1>1, <1>2

-----------------------------------------------------------------------------
(* The invariant.                                                          *)

\* The events that inject() is through with.
Injected == ToSet(delayQueue) \cup oooQueue \cup ToSet(ready) \cup ToSet(published)
                \cup ToSet(abandoned)
Pair(e) == <<e.pass, e.instrument>>

Typed == TypeOK /\ IsFiniteSet(oooQueue)

\* Nothing is from a cycle to come.
Passes ==
    /\ dropped \subseteq Event
    /\ \A e \in Events \cup dropped : e.pass <= cycle
    /\ \A name \in collected : name[1] \in 1..cycle

\* The lists of a cycle are empty outside it.
Lull ==
    /\ pc # "inject" => clean = <<>> /\ batch = <<>>
    /\ pc \in {"check", "refresh", "stopped"} => ready = <<>>

\* The batches to come are curves of this cycle, of an instrument each, and clean.
Curves(batches, pass) ==
    /\ \A n \in DOMAIN batches :
          /\ Rising(batches[n])
          /\ \A e \in ToSet(batches[n]) : e.pass = pass /\ e.marks = {}
    /\ \A n, m \in DOMAIN batches : \A e \in ToSet(batches[n]), f \in ToSet(batches[m]) :
          e.instrument = f.instrument <=> n = m

\* So is what is left of the batch at hand, but for the mark of a partial one.
AtHand ==
    /\ Rising(batch)
    /\ \A e \in ToSet(batch) : e.pass = cycle /\ e.marks \subseteq {"PARTIAL_CURVE"}
    /\ \A e, f \in ToSet(batch) : e.instrument = f.instrument

\* Nothing has been done yet with the instrument of a batch to come, nor with the
\* tenors at hand and later ones.
Ahead ==
    /\ \A e \in EventsIn(clean) : \A f \in Injected \cup ToSet(batch) \cup dropped :
          Pair(e) # Pair(f)
    /\ \A e \in ToSet(batch) : \A f \in Injected : Pair(e) = Pair(f) => f.tenor < e.tenor
    /\ \A e \in ToSet(batch) : \A f \in dropped : Name(e) # Name(f)

\* What is held is marked as held.
WasHeld(e) == e.marks \cap {"DELAYED", "OUT_OF_ORDER"} # {}
HeldMarked == \A e \in Held : WasHeld(e)

\* Of what is published, or about to be, only what was held is out of order.
Ordered(s) == \A m, n \in DOMAIN s : m < n /\ Precedes(s[n], s[m]) => WasHeld(s[n])

\* An event is there for what was collected and not dropped: once, or twice with
\* the mark of a duplicate.
Discarded == {Name(e) : e \in dropped}
Conserved ==
    /\ \A e \in Events : Name(e) \in collected \ Discarded
    /\ \A name \in collected \ Discarded :
          \/ Copies(name) = 1 /\ \A e \in Events : Name(e) = name => "DUPLICATE" \notin e.marks
          \/ Copies(name) = 2 /\ \A e \in Events : Name(e) = name => "DUPLICATE" \in e.marks

\* What is so whatever lists the events lie in, and all that is so.
Tracked ==
    /\ Passes /\ Curves(clean, cycle) /\ AtHand /\ Ahead
    /\ PartialCurvesRecorded /\ Conserved
Sound == Typed /\ Lull /\ Tracked /\ HeldMarked /\ Ordered(published \o ready)

-----------------------------------------------------------------------------
(* What the lists of a cycle hold, and how many of a name.                 *)

LEMMA CountOfBatches ==
    ASSUME NEW c \in Seq(Seq(Event)), NEW pass, Curves(c, pass), NEW name
    PROVE  Cardinality(UNION {{n} \X Positions(c[n], name) : n \in DOMAIN c})
             = IF \E e \in EventsIn(c) : Name(e) = name THEN 1 ELSE 0
<1> DEFINE P == UNION {{n} \X Positions(c[n], name) : n \in DOMAIN c}
<1>1. \A n \in DOMAIN c : c[n] \in Seq(Event)
  OBVIOUS
<1>2. \A n \in DOMAIN c : \A k \in DOMAIN c[n] : c[n][k] \in ToSet(c[n]) /\ c[n][k] \in EventsIn(c)
  BY DEF ToSet, EventsIn
<1>3. CASE \E e \in EventsIn(c) : Name(e) = name
  <2>1. PICK n \in DOMAIN c : \E e \in ToSet(c[n]) : Name(e) = name
    BY <1>3 DEF EventsIn, ToSet
  <2>2. PICK k \in DOMAIN c[n] : Name(c[n][k]) = name
    BY <2>1 DEF ToSet
  <2>3. ASSUME NEW m \in DOMAIN c, NEW j \in Positions(c[m], name)
        PROVE  m = n /\ j = k
    <3>1. j \in DOMAIN c[m] /\ Name(c[m][j]) = name
      BY DEF Positions
    <3>2. c[m][j].instrument = c[n][k].instrument /\ c[m][j].tenor = c[n][k].tenor
      BY <2>2, <3>1 DEF Name
    <3>3. m = n
      BY <1>2, <2>2, <3>1, <3>2 DEF Curves
    <3>4. j = k
      <4> DEFINE d == c[n]
      <4>1. d \in Seq(Event) /\ Rising(d) /\ j \in DOMAIN d /\ k \in DOMAIN d
            /\ d[j].tenor = d[k].tenor
        BY <1>1, <3>1, <3>2, <3>3 DEF Curves
      <4> HIDE DEF d
      <4> QED
        BY <4>1, RisingPositions
    <3> QED
      BY <3>3, <3>4
  <2>4. k \in Positions(c[n], name)
    BY <2>2 DEF Positions
  <2>5. P = {<<n, k>>}
    BY <2>3, <2>4
  <2> HIDE DEF P
  <2>6. Cardinality(P) = 1
    BY <2>5, FS_Singleton
  <2> QED
    BY <1>3, <2>6 DEF P
<1>4. CASE ~\E e \in EventsIn(c) : Name(e) = name
  <2>1. \A n \in DOMAIN c : Positions(c[n], name) = {}
    BY <1>2, <1>4 DEF Positions
  <2>2. P = {}
    BY <2>1
  <2> HIDE DEF P
  <2>3. Cardinality(P) = 0
    BY <2>2, FS_EmptySet
  <2> QED
    BY <1>4, <2>3 DEF P
<1> QED
  BY <1>3, <1>4

\* StartCycle collects a curve of the new cycle for each instrument.
LEMMA CollectedProperties ==
    ASSUME cycle \in 0..MaxCycles, cycle < MaxCycles
    PROVE  /\ Collected \in Seq(Seq(Event)) /\ Curves(Collected, cycle + 1)
           /\ \A e \in EventsIn(Collected) : e \in Event /\ e.pass = cycle + 1 /\ e.marks = {}
<1>1. cycle + 1 \in 1..MaxCycles /\ MaxCycles \in Nat
  BY EmulatorAssumption
<1>2. \A n \in DOMAIN Instruments : Instruments[n] \in InstrumentSet
  BY EmulatorAssumption DEF InstrumentSet, ToSet
<1>3. ASSUME NEW n \in DOMAIN Instruments
      PROVE  /\ Collected[n] \in Seq(Event) /\ Rising(Collected[n])
             /\ \A e \in ToSet(Collected[n]) :
                   e.pass = cycle + 1 /\ e.instrument = Instruments[n] /\ e.marks = {}
  <2> DEFINE i == Instruments[n]
             size == IF i \in cache THEN Bars[i] ELSE Tenors[i]
             cached == i \in cache
  <2>1. i \in InstrumentSet /\ size \in Nat
    BY <1>2, EmulatorAssumption
  <2>2. Collected[n] = Curve(cycle + 1, i, size, cached) /\ cached \in BOOLEAN
    BY DEF Collected, BatchOf
  <2> DEFINE pass == cycle + 1
  <2> HIDE DEF i, size, cached, pass
  <2>3. /\ Collected[n] \in Seq(Event) /\ Rising(Collected[n])
        /\ \A e \in ToSet(Collected[n]) : e.pass = pass /\ e.instrument = i /\ e.marks = {}
    <3>1. pass \in 1..MaxCycles /\ Collected[n] = Curve(pass, i, size, cached)
      BY <1>1, <2>2 DEF pass
    <3> DEFINE c == Curve(pass, i, size, cached)
    <3>2. /\ c \in Seq(Event) /\ Rising(c)
          /\ \A e \in ToSet(c) : e.pass = pass /\ e.instrument = i /\ e.marks = {}
      BY <2>1, <2>2, <3>1, CurveProperties, SMTT(30)
    <3> HIDE DEF c
    <3>3. Collected[n] = c
      BY <3>1 DEF c
    <3> QED
      BY <3>2, <3>3
  <2> QED
    BY <2>3 DEF i, pass
<1>4. DOMAIN Collected = DOMAIN Instruments /\ DOMAIN Instruments = 1..Len(Instruments)
      /\ Len(Instruments) \in Nat
  BY EmulatorAssumption DEF Collected
<1>5. Collected \in Seq(Seq(Event))
  <2>1. Collected \in [1..Len(Instruments) -> Seq(Event)]
    BY <1>3, <1>4 DEF Collected
  <2> QED
    BY <1>4, <2>1
<1>6. ASSUME NEW n \in DOMAIN Collected, NEW m \in DOMAIN Collected,
             NEW e \in ToSet(Collected[n]), NEW f \in ToSet(Collected[m])
      PROVE  e.instrument = f.instrument <=> n = m
  <2>1. e.instrument = Instruments[n] /\ f.instrument = Instruments[m]
    BY <1>3, <1>4
  <2>2. Instruments[n] = Instruments[m] => n = m
    BY <1>4, EmulatorAssumption DEF IsInjective
  <2> QED
    BY <2>1, <2>2
<1>7. Curves(Collected, cycle + 1)
  BY <1>3, <1>4, <1>6 DEF Curves
<1>8. ASSUME NEW e \in EventsIn(Collected)
      PROVE  e \in Event /\ e.pass = cycle + 1 /\ e.marks = {}
  <2>1. PICK n \in DOMAIN Collected : e \in ToSet(Collected[n])
    BY DEF EventsIn, ToSet
  <2>2. Collected[n] \in Seq(Event)
    BY <1>3, <1>4
  <2>3. e \in Event
    BY <2>1, <2>2 DEF ToSet
  <2> QED
    BY <1>3, <1>4, <2>1, <2>3
<1> QED
  BY <1>5, <1>7, <1>8

\* The out-of-order queue, name by name.
Named(S, name) == {e \in S : Name(e) = name}

LEMMA CountOfHeld ==
    ASSUME NEW S, IsFiniteSet(S), NEW name
    PROVE  /\ IsFiniteSet(Named(S, name)) /\ Cardinality(Named(S, name)) \in Nat
           /\ \A x : x \notin S => Cardinality(Named(S \cup {x}, name))
                                     = Cardinality(Named(S, name)) + One(x, name)
           /\ \A T : Cardinality(Named(S \cap T, name)) + Cardinality(Named(S \ T, name))
                       = Cardinality(Named(S, name))
<1>1. Named(S, name) \in SUBSET S
  BY DEF Named
<1>2. IsFiniteSet(Named(S, name)) /\ Cardinality(Named(S, name)) \in Nat
  BY <1>1, FS_Subset, FS_CardinalityType
<1>3. ASSUME NEW x, x \notin S
      PROVE  Cardinality(Named(S \cup {x}, name)) = Cardinality(Named(S, name)) + One(x, name)
  <2>1. CASE Name(x) = name
    <3>1. Named(S \cup {x}, name) = Named(S, name) \cup {x} /\ x \notin Named(S, name)
      BY <1>3, <2>1 DEF Named
    <3>2. Cardinality(Named(S, name) \cup {x}) = Cardinality(Named(S, name)) + 1
      BY <1>2, <3>1, FS_AddElement
    <3> QED
      BY <2>1, <3>1, <3>2 DEF One
  <2>2. CASE Name(x) # name
    <3>1. Named(S \cup {x}, name) = Named(S, name)
      BY <2>2 DEF Named
    <3> QED
      BY <1>2, <2>2, <3>1 DEF One
  <2> QED
    BY <2>1, <2>2
<1>4. ASSUME NEW T
      PROVE  Cardinality(Named(S \cap T, name)) + Cardinality(Named(S \ T, name))
               = Cardinality(Named(S, name))
  <2> DEFINE A == Named(S \cap T, name)
             B == Named(S \ T, name)
  <2>1. A \in SUBSET S /\ B \in SUBSET S /\ A \cap B = {} /\ A \cup B = Named(S, name)
    BY DEF Named
  <2> HIDE DEF A, B
  <2>2. IsFiniteSet(A) /\ IsFiniteSet(B) /\ Cardinality(A) \in Nat /\ Cardinality(B) \in Nat
    BY <2>1, FS_Subset, FS_CardinalityType
  <2>3. Cardinality(A \cup B) = Cardinality(A) + Cardinality(B) - Cardinality(A \cap B)
    BY <2>2, FS_Union
  <2>4. Cardinality(A \cap B) = 0 /\ Cardinality(A \cup B) = Cardinality(Named(S, name))
    BY <2>1, FS_EmptySet
  <2>5. Cardinality(A) + Cardinality(B) = Cardinality(Named(S, name))
    BY <2>2, <2>3, <2>4
  <2> QED
    BY <2>5 DEF A, B
<1> QED
  BY <1>2, <1>3, <1>4

\* What is released shuffled is what was due, each event once.
LEMMA ShuffledProperties ==
    ASSUME NEW S \in SUBSET Event, IsFiniteSet(S), NEW s \in SetToSeqs(S)
    PROVE  /\ s \in Seq(Event) /\ ToSet(s) = S
           /\ \A name : Count(s, name) = Cardinality(Named(S, name))
<1> DEFINE D == 1..Cardinality(S)
<1>1. Cardinality(S) \in Nat
  BY FS_CardinalityType
<1>2. s \in [D -> S] /\ \A i, j \in D : i # j => s[i] # s[j]
  BY DEF SetToSeqs
<1>3. s \in Seq(Event) /\ DOMAIN s = D
  BY <1>1, <1>2
<1>4. \A x \in S : \E k \in D : s[k] = x
  <2>1. IsFiniteSet(D) /\ Cardinality(D) = Cardinality(S)
    BY <1>1, FS_Interval
  <2>2. s \in Injection(D, S)
    <3> HIDE DEF D
    <3>1. s \in [D -> S] /\ \A i, j \in D : s[i] = s[j] => i = j
      BY <1>2
    <3> QED
      BY <3>1, Fun_IsInj
  <2> HIDE DEF D
  <2>3. s \in Surjection(D, S)
    BY <2>1, <2>2, FS_Injection
  <2> QED
    BY <2>3 DEF Surjection
<1>5. ToSet(s) = S
  BY <1>2, <1>3, <1>4 DEF ToSet
<1>6. ASSUME NEW name
      PROVE  Count(s, name) = Cardinality(Named(S, name))
  <2> DEFINE P == Positions(s, name)
             N == Named(S, name)
             at == [k \in P |-> s[k]]
  <2>1. \A k \in P : k \in D /\ s[k] \in N
    BY <1>2, <1>3 DEF Positions, Named
  <2>2. \A x \in N : \E k \in P : s[k] = x
    BY <1>3, <1>4 DEF Positions, Named
  <2>3. /\ at \in [P -> N]
        /\ \A i, j \in P : at[i] = at[j] => i = j
        /\ \A x \in N : \E k \in P : at[k] = x
    BY <1>2, <2>1, <2>2
  <2>4. IsFiniteSet(P)
    BY <1>3, CountIsNatural
  <2> HIDE DEF P, N, at
  <2>5. at \in Bijection(P, N)
    BY <2>3, Fun_IsBij
  <2>6. Cardinality(N) = Cardinality(P)
    BY <2>4, <2>5, FS_Bijection DEF ExistsBijection
  <2> QED
    BY <2>6 DEF P, N, Count
<1> QED
  BY <1>3, <1>5, <1>6

-----------------------------------------------------------------------------
(* The steps.                                                              *)

\* What a partial curve leaves of a batch.
LEMMA KeptProperties ==
    ASSUME NEW s \in Seq(Event), NEW gone
    PROVE  /\ Kept(s, gone) \in Seq(Event)
           /\ Rising(s) => Rising(Kept(s, gone))
           /\ ToSet(Kept(s, gone)) = {Marked(e, "PARTIAL_CURVE") : e \in ToSet(s) \ gone}
<1> DEFINE kept == Only(s, ToSet(s) \ gone)
<1>1. /\ kept \in Seq(Event) /\ ToSet(kept) = ToSet(s) \ gone
      /\ Rising(s) => Rising(kept)
  <2>1. ToSet(s) \cap (ToSet(s) \ gone) = ToSet(s) \ gone
    OBVIOUS
  <2> QED
    BY <2>1, OnlyProperties
<1>2. Kept(s, gone) = [k \in DOMAIN kept |-> Marked(kept[k], "PARTIAL_CURVE")]
  BY DEF Kept
<1> HIDE DEF kept
<1>3. DOMAIN kept = 1..Len(kept) /\ Len(kept) \in Nat /\ \A k \in DOMAIN kept : kept[k] \in Event
  BY <1>1
<1>4. \A e \in Event : Marked(e, "PARTIAL_CURVE") \in Event
                       /\ Marked(e, "PARTIAL_CURVE").tenor = e.tenor
  BY MarkedProperties DEF Marks
<1>5. Kept(s, gone) \in [1..Len(kept) -> Event]
  BY <1>2, <1>3, <1>4
<1>6. Kept(s, gone) \in Seq(Event) /\ DOMAIN Kept(s, gone) = DOMAIN kept
  BY <1>3, <1>5
<1>7. \A k \in DOMAIN kept : Kept(s, gone)[k] = Marked(kept[k], "PARTIAL_CURVE")
  BY <1>2
<1>8. Rising(kept) => Rising(Kept(s, gone))
  BY <1>3, <1>4, <1>6, <1>7 DEF Rising
<1>9. ToSet(Kept(s, gone)) = {Marked(e, "PARTIAL_CURVE") : e \in ToSet(kept)}
  BY <1>6, <1>7 DEF ToSet
<1> QED
  BY <1>1, <1>6, <1>8, <1>9

\* TypeOK in three parts, of different kinds of values.
ListsOK ==
    /\ clean \in Seq(Seq(Event))
    /\ batch \in Seq(Event)
    /\ ready \in Seq(Event)
    /\ delayQueue \in Seq(Event)
    /\ published \in Seq(Event)
    /\ abandoned \in Seq(Event)
    /\ oooQueue \subseteq Event
    /\ due \subseteq Held
    /\ Len(delayQueue) <= QueueMax
    /\ Cardinality(oooQueue) <= QueueMax
CountersOK ==
    /\ cycle \in 0..MaxCycles
    /\ pc \in {"check", "inject", "publish", "refresh", "stopped"}
    /\ cache \subseteq Mapped
    /\ faults \in 0..MaxFaults
    /\ outages \in 0..MaxOutages
    /\ raises \in 0..MaxRaises
ShutdownOK == shutdown \in BOOLEAN

LEMMA TypeParts ==
    /\ TypeOK <=> ListsOK /\ CountersOK /\ ShutdownOK
    /\ TypeOK' <=> ListsOK' /\ CountersOK' /\ ShutdownOK'
<1>1. TypeOK <=> ListsOK /\ CountersOK /\ ShutdownOK
  BY Zenon DEF TypeOK, ListsOK, CountersOK, ShutdownOK
<1>2. TypeOK' <=> ListsOK' /\ CountersOK' /\ ShutdownOK'
  BY Zenon DEF TypeOK, ListsOK, CountersOK, ShutdownOK
<1> QED
  BY <1>1, <1>2

LEMMA ShutdownStep == ASSUME ShutdownOK, [Next]_vars PROVE ShutdownOK'
<1>1. shutdown' = shutdown \/ shutdown' = TRUE
  BY Zenon DEF Next, Loop, StartCycle, TakeBatch, InjectEvent, Drain, PublishEvent, PublishRaises,
     FinishCycle, Refresh, Shutdown, Elapse, HandleSignal, vars
<1> QED
  BY <1>1, Zenon DEF ShutdownOK

\* What a refresh fetches.
LEMMA MappedIsFinite == IsFiniteSet(Mapped)
<1>1. InstrumentSet = {Instruments[n] : n \in 1..Len(Instruments)} /\ Len(Instruments) \in Nat
  BY EmulatorAssumption DEF InstrumentSet, ToSet
<1> DEFINE D == 1..Len(Instruments)
           f == [n \in D |-> Instruments[n]]
<1>2. f \in [D -> InstrumentSet] /\ \A i \in InstrumentSet : \E n \in D : f[n] = i
  BY <1>1
<1>0. 1 \in Int /\ Len(Instruments) \in Int
  BY <1>1
<1>6. IsFiniteSet(D)
  BY <1>0, FS_Interval
<1> HIDE DEF D, f
<1>3. f \in Surjection(D, InstrumentSet)
  BY <1>2, Fun_IsSurj
<1>4. IsFiniteSet(InstrumentSet)
  BY <1>6, <1>3, FS_Surjection
<1>5. Mapped \in SUBSET InstrumentSet
  BY DEF Mapped
<1> QED
  BY <1>4, <1>5, FS_Subset

LEMMA CountersStep == ASSUME CountersOK, [Next]_vars PROVE CountersOK'
<1>1. /\ cycle \in Nat /\ faults \in Nat /\ outages \in Nat /\ raises \in Nat
      /\ MaxCycles \in Nat /\ MaxFaults \in Nat /\ MaxOutages \in Nat /\ MaxRaises \in Nat
  BY EmulatorAssumption DEF CountersOK
<1>2. CASE StartCycle
  BY <1>1, <1>2 DEF CountersOK, StartCycle, boundVars
<1>3. CASE TakeBatch
  <2>1. faults' = faults \/ (faults' = faults + 1 /\ faults < MaxFaults)
    BY <1>3 DEF TakeBatch
  <2> QED
    BY <1>1, <1>3, <2>1 DEF CountersOK, TakeBatch
<1>4. CASE InjectEvent
  <2>1. faults' <= MaxFaults /\ \E altered \in {0, 1} :
           faults' = faults + altered \/ faults' = faults + altered + 1
    BY <1>4 DEF InjectEvent
  <2> QED
    BY <1>1, <1>4, <2>1 DEF CountersOK, InjectEvent
<1>5. CASE Drain
  BY <1>1, <1>5 DEF CountersOK, Drain, boundVars
<1>6. CASE PublishEvent
  BY <1>1, <1>6 DEF CountersOK, PublishEvent, boundVars
<1>7. CASE PublishRaises
  BY <1>1, <1>7 DEF CountersOK, PublishRaises
<1>8. CASE FinishCycle
  BY <1>8 DEF CountersOK, FinishCycle, boundVars
<1>9. CASE Refresh
  <2>1. outages' \in 0..MaxOutages /\ cache' \subseteq Mapped
    <3>1. CASE UNCHANGED <<cache, outages>>
      BY <3>1 DEF CountersOK
    <3>2. ASSUME NEW failing \in SUBSET Mapped, outages' = outages + Cardinality(failing),
                 outages' <= MaxOutages, cache' = Fetched(failing)
          PROVE  outages' \in 0..MaxOutages /\ cache' \subseteq Mapped
      <4>1. Cardinality(failing) \in Nat
        BY MappedIsFinite, FS_Subset, FS_CardinalityType
      <4> QED
        BY <1>1, <3>2, <4>1 DEF Fetched
    <3> QED
      BY <1>9, <3>1, <3>2 DEF Refresh
  <2> QED
    BY <1>9, <2>1 DEF CountersOK, Refresh
<1>10. CASE Shutdown
  BY <1>10 DEF CountersOK, Shutdown, boundVars
<1>11. CASE Elapse
  BY <1>11 DEF CountersOK, Elapse, boundVars
<1>12. CASE HandleSignal
  BY <1>12 DEF CountersOK, HandleSignal, boundVars
<1>13. CASE UNCHANGED vars
  BY <1>13 DEF CountersOK, vars, boundVars
<1> QED
  BY <1>2, <1>3, <1>4, <1>5, <1>6, <1>7, <1>8, <1>9, <1>10, <1>11, <1>12, <1>13
     DEF Next, Loop

\* The events come to lie in another list, or are marked, in four kinds of step.
Rest == UNCHANGED <<cycle, clean, batch, delayQueue, oooQueue, ready, published, abandoned,
                    collected, dropped>>

LEMMA Kinds ==
    ASSUME [Next]_vars
    PROVE  \/ StartCycle \/ TakeBatch \/ InjectEvent \/ Drain \/ PublishEvent \/ PublishRaises
           \/ Rest /\ due' \subseteq due \cup Held
<1>1. CASE FinishCycle
  BY <1>1 DEF FinishCycle, Rest, queueVars, historyVars
<1>2. CASE Refresh
  BY <1>2 DEF Refresh, Rest, queueVars, historyVars
<1>3. CASE Shutdown
  BY <1>3 DEF Shutdown, Rest, queueVars, historyVars
<1>4. CASE Elapse
  BY <1>4 DEF Elapse, Rest, historyVars
<1>5. CASE HandleSignal
  BY <1>5 DEF HandleSignal, Rest, queueVars, historyVars
<1>6. CASE UNCHANGED vars
  BY <1>6 DEF vars, Rest, queueVars, historyVars
<1> QED
  BY <1>1, <1>2, <1>3, <1>4, <1>5, <1>6 DEF Next, Loop

LEMMA ListsStep ==
    ASSUME ListsOK, CountersOK, IsFiniteSet(oooQueue), [Next]_vars
    PROVE  ListsOK' /\ IsFiniteSet(oooQueue)'
<1>1. /\ clean \in Seq(Seq(Event)) /\ batch \in Seq(Event) /\ ready \in Seq(Event)
      /\ delayQueue \in Seq(Event) /\ published \in Seq(Event) /\ abandoned \in Seq(Event)
      /\ oooQueue \subseteq Event /\ due \subseteq Held
      /\ Len(delayQueue) <= QueueMax /\ Cardinality(oooQueue) <= QueueMax /\ QueueMax \in Nat
      /\ Cardinality(oooQueue) \in Nat
  BY FS_CardinalityType, EmulatorAssumption DEF ListsOK
<1>2. CASE StartCycle
  <2>1. clean' \in Seq(Seq(Event))
    <3>1. CASE cycle < MaxCycles
      BY <1>2, <3>1, CollectedProperties DEF StartCycle, CountersOK
    <3>2. CASE ~(cycle < MaxCycles)
      BY <1>1, <1>2, <3>2 DEF StartCycle
    <3> QED
      BY <3>1, <3>2
  <2> QED
    BY <1>1, <1>2, <2>1 DEF ListsOK, StartCycle, queueVars, Held, historyVars
<1>3. CASE TakeBatch
  <2>1. clean' \in Seq(Seq(Event)) /\ Head(clean) \in Seq(Event)
    BY <1>1, <1>3, RestBatches DEF TakeBatch
  <2>2. batch' \in Seq(Event)
    BY <1>3, <2>1, KeptProperties DEF TakeBatch
  <2> QED
    BY <1>1, <1>3, <2>1, <2>2 DEF ListsOK, TakeBatch, queueVars, Held
<1>4. CASE InjectEvent
  <2>1. Head(batch) \in Event /\ batch' \in Seq(Event)
    BY <1>1, <1>4, RestElements DEF InjectEvent
  <2>2. PICK e \in Event : PassOn(e) \/ Delay(e) \/ HoldBack(e) \/ Duplicate(e)
    BY <1>4, <2>1, MarkedProperties DEF InjectEvent, Marks
  <2>3. \A mark \in Marks : Marked(e, mark) \in Event
    BY MarkedProperties
  <2>4. /\ ready' \in Seq(Event) /\ delayQueue' \in Seq(Event) /\ oooQueue' \subseteq Event
        /\ Len(delayQueue') <= QueueMax /\ Cardinality(oooQueue') <= QueueMax
        /\ Held \subseteq Held' /\ IsFiniteSet(oooQueue')
    <3>1. CASE PassOn(e)
      BY <1>1, <3>1 DEF PassOn, Held
    <3>2. CASE Delay(e)
      <4> DEFINE x == Marked(e, "DELAYED")
      <4>1. x \in Event /\ delayQueue' = Append(delayQueue, x) /\ Len(delayQueue) < QueueMax
            /\ UNCHANGED <<oooQueue, ready>>
        BY <2>3, <3>2 DEF Delay, Marks
      <4> HIDE DEF x
      <4>2. /\ delayQueue' \in Seq(Event) /\ Len(delayQueue') = Len(delayQueue) + 1
            /\ ToSet(delayQueue) \subseteq ToSet(delayQueue') /\ Len(delayQueue) \in Nat
        BY <1>1, <4>1, AppendElements
      <4> QED
        BY <1>1, <4>1, <4>2 DEF Held
    <3>3. CASE HoldBack(e)
      <4> DEFINE x == Marked(e, "OUT_OF_ORDER")
      <4>1. x \in Event /\ oooQueue' = oooQueue \cup {x} /\ Cardinality(oooQueue) < QueueMax
            /\ UNCHANGED <<delayQueue, ready>>
        BY <2>3, <3>3 DEF HoldBack, Marks
      <4> HIDE DEF x
      <4>2. /\ IsFiniteSet(oooQueue \cup {x})
            /\ \/ Cardinality(oooQueue \cup {x}) = Cardinality(oooQueue)
               \/ Cardinality(oooQueue \cup {x}) = Cardinality(oooQueue) + 1
        BY FS_AddElement
      <4> QED
        BY <1>1, <4>1, <4>2 DEF Held
    <3>4. CASE Duplicate(e)
      <4> DEFINE x == Marked(e, "DUPLICATE")
      <4>1. x \in Event /\ ready' = ready \o <<x, x>> /\ UNCHANGED <<delayQueue, oooQueue>>
        BY <2>3, <3>4 DEF Duplicate, Marks
      <4> HIDE DEF x
      <4> QED
        BY <1>1, <4>1 DEF Held
    <3> QED
      BY <2>2, <3>1, <3>2, <3>3, <3>4
  <2> QED
    BY <1>1, <1>4, <2>1, <2>4 DEF ListsOK, InjectEvent, historyVars
<1>5. CASE Drain
  <2>1. PICK shuffled \in SetToSeqs(oooQueue \cap due) : ready' = ready \o Due \o shuffled
    BY <1>5 DEF Drain
  <2>2. shuffled \in Seq(Event)
    <3>1. oooQueue \cap due \in SUBSET Event /\ IsFiniteSet(oooQueue \cap due)
      BY <1>1, FS_Intersection
    <3> QED
      BY <3>1, ShuffledProperties
  <2>3. Due \in Seq(Event) /\ Early \in Seq(Event) /\ Len(Early) <= Len(delayQueue)
        /\ Len(Early) \in Nat /\ Len(delayQueue) \in Nat
    BY <1>1, OnlyProperties DEF Due, Early
  <2>4. ready' \in Seq(Event)
    BY <1>1, <2>1, <2>2, <2>3
  <2>5. /\ delayQueue' = Early /\ oooQueue' = oooQueue \ due /\ due' = {}
        /\ Cardinality(oooQueue \ due) <= Cardinality(oooQueue)
        /\ Cardinality(oooQueue \ due) \in Nat /\ IsFiniteSet(oooQueue \ due)
    <3>1. oooQueue \ due \in SUBSET oooQueue
      OBVIOUS
    <3> QED
      BY <1>5, <3>1, FS_Subset, FS_CardinalityType DEF Drain
  <2>6. /\ Len(delayQueue') <= QueueMax /\ Cardinality(oooQueue') <= QueueMax
        /\ delayQueue' \in Seq(Event) /\ oooQueue' \subseteq Event /\ due' \subseteq Held'
        /\ IsFiniteSet(oooQueue')
    BY <1>1, <2>3, <2>5
  <2> QED
    BY <1>1, <1>5, <2>4, <2>6 DEF ListsOK, Drain, historyVars
<1>6. CASE PublishEvent
  <2>1. Head(ready) \in Event /\ Tail(ready) \in Seq(Event)
    BY <1>1, <1>6, RestElements DEF PublishEvent
  <2>2. published' \in Seq(Event) /\ ready' \in Seq(Event)
    BY <1>1, <1>6, <2>1, AppendElements DEF PublishEvent
  <2> QED
    BY <1>1, <1>6, <2>2 DEF ListsOK, PublishEvent, queueVars, Held, historyVars
<1>7. CASE PublishRaises
  <2>1. abandoned' \in Seq(Event) /\ ready' \in Seq(Event)
    BY <1>1, <1>7 DEF PublishRaises
  <2> QED
    BY <1>1, <1>7, <2>1 DEF ListsOK, PublishRaises, queueVars, Held
<1>8. CASE Rest /\ due' \subseteq due \cup Held
  BY <1>1, <1>8 DEF ListsOK, Rest, Held
<1> QED
  BY <1>2, <1>3, <1>4, <1>5, <1>6, <1>7, <1>8, Kinds

-----------------------------------------------------------------------------
(* What a step does to the events, whatever lists they lie in.             *)

\* The events of a name that inject() is through with.
Passed(name) ==
    Count(delayQueue, name) + Cardinality(Named(oooQueue, name)) + Count(ready, name)
        + Count(published, name) + Count(abandoned, name)

Continues ==
    /\ UNCHANGED <<cycle, clean, batch, collected, dropped>>
    /\ Injected' = Injected
    /\ \A name : Passed(name)' = Passed(name)

Starts ==
    /\ pc = "check" /\ cycle < MaxCycles
    /\ cycle' = cycle + 1 /\ clean' = Collected
    /\ collected' = collected \cup {Name(e) : e \in EventsIn(Collected)}
    /\ UNCHANGED <<batch, dropped>>
    /\ Injected' = Injected
    /\ \A name : Passed(name)' = Passed(name)

Takes(gone) ==
    /\ batch = <<>> /\ clean # <<>>
    /\ clean' = Tail(clean)
    /\ gone \subseteq ToSet(Head(clean)) /\ dropped' = dropped \cup gone
    /\ Rising(batch')
    /\ ToSet(batch') = IF gone = {} THEN ToSet(Head(clean))
                       ELSE {Marked(e, "PARTIAL_CURVE") : e \in ToSet(Head(clean)) \ gone}
    /\ UNCHANGED <<cycle, collected>>
    /\ Injected' = Injected
    /\ \A name : Passed(name)' = Passed(name)

Injects(x) ==
    /\ batch # <<>> /\ batch' = Tail(batch)
    /\ x \in Event /\ x.pass = Head(batch).pass
    /\ x.instrument = Head(batch).instrument /\ x.tenor = Head(batch).tenor
    /\ "PARTIAL_CURVE" \in x.marks <=> "PARTIAL_CURVE" \in Head(batch).marks
    /\ UNCHANGED <<cycle, clean, collected, dropped>>
    /\ Injected' = Injected \cup {x}
    /\ \A name : Passed(name)' = Passed(name) + One(x, name)
                                  + IF "DUPLICATE" \in x.marks THEN One(x, name) ELSE 0

\* The terms of Passed are numbers.
LEMMA PassedIsNatural ==
    ASSUME ListsOK, IsFiniteSet(oooQueue), NEW name
    PROVE  /\ Count(delayQueue, name) \in Nat /\ Cardinality(Named(oooQueue, name)) \in Nat
           /\ Count(ready, name) \in Nat /\ Count(published, name) \in Nat
           /\ Count(abandoned, name) \in Nat /\ Passed(name) \in Nat
           /\ (\A e \in Injected : Name(e) # name) => Passed(name) = 0
<1>1. /\ Count(delayQueue, name) \in Nat /\ Count(ready, name) \in Nat
      /\ Count(published, name) \in Nat /\ Count(abandoned, name) \in Nat
  BY CountIsNatural DEF ListsOK
<1>2. Cardinality(Named(oooQueue, name)) \in Nat
  BY CountOfHeld
<1>3. ASSUME \A e \in Injected : Name(e) # name PROVE Passed(name) = 0
  <2>1. /\ Count(delayQueue, name) = 0 /\ Count(ready, name) = 0
        /\ Count(published, name) = 0 /\ Count(abandoned, name) = 0
    BY <1>3, CountOfAbsent DEF Injected, ListsOK
  <2>2. Named(oooQueue, name) = {}
    BY <1>3 DEF Injected, Named
  <2> QED
    BY <2>1, <2>2, FS_EmptySet DEF Passed
<1> QED
  BY <1>1, <1>2, <1>3 DEF Passed

\* A step that leaves the five lists alone.
LEMMA ListsAlone ==
    ASSUME UNCHANGED <<delayQueue, oooQueue, ready, published, abandoned>>
    PROVE  Injected' = Injected /\ \A name : Passed(name)' = Passed(name)
<1>1. Injected' = Injected
  BY DEF Injected
<1>2. ASSUME NEW name PROVE Passed(name)' = Passed(name)
  BY DEF Passed
<1> QED
  BY <1>1, <1>2

LEMMA DrainContinues ==
    ASSUME ListsOK, IsFiniteSet(oooQueue), Drain
    PROVE  Continues
<1>1. PICK shuffled \in SetToSeqs(oooQueue \cap due) : ready' = ready \o Due \o shuffled
  BY DEF Drain
<1>2. /\ delayQueue \in Seq(Event) /\ ready \in Seq(Event) /\ oooQueue \subseteq Event
      /\ delayQueue' = Early /\ oooQueue' = oooQueue \ due
      /\ UNCHANGED <<cycle, clean, batch, collected, dropped, published, abandoned>>
  BY DEF ListsOK, Drain, historyVars
<1>3. /\ shuffled \in Seq(Event) /\ ToSet(shuffled) = oooQueue \cap due
      /\ \A name : Count(shuffled, name) = Cardinality(Named(oooQueue \cap due, name))
  <2>1. oooQueue \cap due \in SUBSET Event /\ IsFiniteSet(oooQueue \cap due)
    BY <1>2, FS_Intersection
  <2> QED
    BY <2>1, ShuffledProperties
<1>4. /\ Due \in Seq(Event) /\ ToSet(Due) = ToSet(delayQueue) \cap due
      /\ Early \in Seq(Event) /\ ToSet(Early) = ToSet(delayQueue) \ due
  BY <1>2, OnlyProperties DEF Due, Early
<1>5. ready \o Due \in Seq(Event) /\ ToSet(ready \o Due) = ToSet(ready) \cup ToSet(Due)
  BY <1>2, <1>4, JoinedElements
<1> DEFINE more == ready \o Due
<1>6. /\ ready' = more \o shuffled /\ more \in Seq(Event)
      /\ ToSet(ready') = ToSet(ready) \cup ToSet(Due) \cup ToSet(shuffled)
  <2>1. ready' = more \o shuffled /\ more \in Seq(Event)
    BY <1>1, <1>5
  <2> HIDE DEF more
  <2>2. ToSet(more \o shuffled) = ToSet(more) \cup ToSet(shuffled)
    BY <1>3, <2>1, JoinedElements
  <2>3. ToSet(more) = ToSet(ready) \cup ToSet(Due)
    BY <1>5 DEF more
  <2> QED
    BY <2>1, <2>2, <2>3
<1>7. Injected' = Injected
  BY <1>2, <1>3, <1>4, <1>6 DEF Injected
<1>8. ASSUME NEW name PROVE Passed(name)' = Passed(name)
  <2>1. Count(ready', name) = Count(ready, name) + Count(Due, name) + Count(shuffled, name)
    <3>1. Count(more, name) = Count(ready, name) + Count(Due, name)
      BY <1>2, <1>4, CountOfJoined
    <3> HIDE DEF more
    <3>2. Count(more \o shuffled, name) = Count(more, name) + Count(shuffled, name)
      BY <1>3, <1>6, CountOfJoined
    <3> QED
      BY <1>6, <3>1, <3>2
  <2>2. Count(Due, name) + Count(Early, name) = Count(delayQueue, name)
    BY <1>2, OnlySplits DEF Due, Early
  <2>3. Cardinality(Named(oooQueue \cap due, name)) + Cardinality(Named(oooQueue \ due, name))
          = Cardinality(Named(oooQueue, name))
    BY CountOfHeld
  <2>4. Count(Due, name) \in Nat /\ Count(Early, name) \in Nat /\ Count(shuffled, name) \in Nat
    BY <1>3, <1>4, CountIsNatural
  <2>5. Cardinality(Named(oooQueue \ due, name)) \in Nat
    BY CountOfHeld, FS_Difference
  <2>6. Passed(name)' = Count(Early, name) + Cardinality(Named(oooQueue \ due, name))
                          + Count(ready', name) + Count(published, name) + Count(abandoned, name)
    BY <1>2 DEF Passed
  <2>7. /\ Count(delayQueue, name) \in Nat /\ Cardinality(Named(oooQueue, name)) \in Nat
        /\ Count(ready, name) \in Nat /\ Count(published, name) \in Nat
        /\ Count(abandoned, name) \in Nat
    BY PassedIsNatural
  <2>8. Count(shuffled, name) = Cardinality(Named(oooQueue \cap due, name))
    BY <1>3
  <2> QED
    BY <2>1, <2>2, <2>3, <2>4, <2>5, <2>6, <2>7, <2>8 DEF Passed
<1> QED
  BY <1>2, <1>7, <1>8 DEF Continues

LEMMA PublishContinues ==
    ASSUME ListsOK, IsFiniteSet(oooQueue), PublishEvent \/ PublishRaises
    PROVE  Continues
<1>1. ready \in Seq(Event) /\ ready # <<>> /\ published \in Seq(Event) /\ abandoned \in Seq(Event)
  BY DEF ListsOK, PublishEvent, PublishRaises
<1>2. /\ Head(ready) \in Event /\ Tail(ready) \in Seq(Event)
      /\ ToSet(ready) = {Head(ready)} \cup ToSet(Tail(ready))
  BY <1>1, RestElements
<1>3. CASE PublishEvent
  <2>1. /\ published' = Append(published, Head(ready)) /\ ready' = Tail(ready)
        /\ UNCHANGED <<cycle, clean, batch, collected, dropped, delayQueue, oooQueue, abandoned>>
    BY <1>3 DEF PublishEvent, queueVars, historyVars
  <2>2. ToSet(published') = ToSet(published) \cup {Head(ready)}
    BY <1>1, <1>2, <2>1, AppendElements
  <2>3. Injected' = Injected
    BY <1>2, <2>1, <2>2 DEF Injected
  <2>4. ASSUME NEW name PROVE Passed(name)' = Passed(name)
    <3>1. /\ Count(published', name) = Count(published, name) + One(Head(ready), name)
          /\ Count(ready, name) = One(Head(ready), name) + Count(ready', name)
      BY <1>1, <1>2, <2>1, CountOfAppended, CountOfRest
    <3>2. One(Head(ready), name) \in Nat /\ Count(ready', name) \in Nat
      BY <1>2, <2>1, CountIsNatural DEF One
    <3>3. Passed(name)' = Count(delayQueue, name) + Cardinality(Named(oooQueue, name))
                            + Count(ready', name) + Count(published', name)
                            + Count(abandoned, name)
      BY <2>1 DEF Passed
    <3> QED
      BY <3>1, <3>2, <3>3, PassedIsNatural DEF Passed
  <2> QED
    BY <2>1, <2>3, <2>4 DEF Continues
<1>4. CASE PublishRaises
  <2>1. /\ abandoned' = abandoned \o ready /\ ready' = <<>>
        /\ UNCHANGED <<cycle, clean, batch, collected, dropped, delayQueue, oooQueue, published>>
    BY <1>4 DEF PublishRaises, queueVars
  <2>2. ToSet(abandoned') = ToSet(abandoned) \cup ToSet(ready) /\ ToSet(ready') = {}
    <3>1. ToSet(<<>>) = {}
      BY DEF ToSet
    <3> QED
      BY <1>1, <2>1, <3>1, JoinedElements
  <2>3. Injected' = Injected
    BY <2>1, <2>2 DEF Injected
  <2>4. ASSUME NEW name PROVE Passed(name)' = Passed(name)
    <3>1. /\ Count(abandoned', name) = Count(abandoned, name) + Count(ready, name)
          /\ Count(ready', name) = 0
      BY <1>1, <2>1, CountOfJoined, CountOfNone
    <3>2. Passed(name)' = Count(delayQueue, name) + Cardinality(Named(oooQueue, name))
                            + Count(ready', name) + Count(published, name)
                            + Count(abandoned', name)
      BY <2>1 DEF Passed
    <3> QED
      BY <3>1, <3>2, PassedIsNatural DEF Passed
  <2> QED
    BY <2>1, <2>3, <2>4 DEF Continues
<1> QED
  BY <1>3, <1>4

LEMMA StartStarts ==
    ASSUME StartCycle
    PROVE  Continues \/ Starts
<1>1. Injected' = Injected /\ \A name : Passed(name)' = Passed(name)
  <2>1. UNCHANGED <<delayQueue, oooQueue, ready, published, abandoned>>
    BY DEF StartCycle, queueVars
  <2> QED
    BY <2>1, ListsAlone
<1>2. CASE cycle < MaxCycles
  BY <1>1, <1>2 DEF StartCycle, Starts
<1>3. CASE ~(cycle < MaxCycles)
  BY <1>1, <1>3 DEF StartCycle, Continues
<1> QED
  BY <1>2, <1>3

LEMMA TakeTakes ==
    ASSUME ListsOK, Curves(clean, cycle), TakeBatch
    PROVE  \E gone : Takes(gone)
<1>1. Injected' = Injected /\ \A name : Passed(name)' = Passed(name)
  <2>1. UNCHANGED <<delayQueue, oooQueue, ready, published, abandoned>>
    BY DEF TakeBatch, queueVars
  <2> QED
    BY <2>1, ListsAlone
<1>2. /\ batch = <<>> /\ clean # <<>> /\ clean' = Tail(clean) /\ UNCHANGED <<cycle, collected>>
      /\ clean \in Seq(Seq(Event))
  BY DEF TakeBatch, ListsOK
<1>3. Head(clean) \in Seq(Event) /\ Rising(Head(clean))
  BY <1>2, RestBatches DEF Curves
<1>4. CASE batch' = Head(clean) /\ UNCHANGED dropped
  <2>1. Takes({})
    BY <1>1, <1>2, <1>3, <1>4 DEF Takes
  <2> QED
    BY <2>1
<1>5. ASSUME NEW gone \in SUBSET ToSet(Head(clean)),
             Cardinality(gone) \in DropCounts(Len(Head(clean))),
             batch' = Kept(Head(clean), gone), dropped' = dropped \cup gone
      PROVE  Takes(gone)
  <2>1. gone # {}
    <3>1. Cardinality(gone) \in 1..Len(Head(clean))
      BY <1>5 DEF DropCounts
    <3>2. Len(Head(clean)) \in Nat /\ 0 \notin 1..Len(Head(clean))
      BY <1>3
    <3>3. Cardinality({}) = 0
      BY FS_EmptySet
    <3> QED
      BY <3>1, <3>2, <3>3
  <2>2. /\ Rising(batch')
        /\ ToSet(batch') = {Marked(e, "PARTIAL_CURVE") : e \in ToSet(Head(clean)) \ gone}
    BY <1>3, <1>5, KeptProperties
  <2> QED
    BY <1>1, <1>2, <1>5, <2>1, <2>2 DEF Takes
<1>6. \/ batch' = Head(clean) /\ UNCHANGED dropped
      \/ \E gone \in SUBSET ToSet(Head(clean)) :
            /\ Cardinality(gone) \in DropCounts(Len(Head(clean)))
            /\ batch' = Kept(Head(clean), gone) /\ dropped' = dropped \cup gone
  BY DEF TakeBatch
<1> QED
  BY <1>4, <1>5, <1>6

LEMMA InjectInjects ==
    ASSUME ListsOK, IsFiniteSet(oooQueue), AtHand, Ahead, InjectEvent
    PROVE  \E x : Injects(x)
<1> DEFINE h == Head(batch)
<1>1. /\ batch # <<>> /\ batch' = Tail(batch) /\ batch \in Seq(Event)
      /\ UNCHANGED <<cycle, clean, collected, dropped, published, abandoned>>
      /\ ready \in Seq(Event) /\ delayQueue \in Seq(Event)
  BY DEF InjectEvent, ListsOK, historyVars
<1>2. h \in Event /\ h \in ToSet(batch)
  BY <1>1, RestElements
<1>3. h.marks \subseteq {"PARTIAL_CURVE"} /\ \A f \in Injected : Name(f) # Name(h)
  <2>1. h.marks \subseteq {"PARTIAL_CURVE"}
    BY <1>2 DEF AtHand
  <2>2. ASSUME NEW f \in Injected PROVE Name(f) # Name(h)
    <3>1. Pair(h) = Pair(f) => f.tenor < h.tenor
      BY <1>2 DEF Ahead
    <3>2. h.tenor \in Nat
      BY <1>2 DEF Event
    <3> QED
      BY <3>1, <3>2 DEF Name, Pair
  <2> QED
    BY <2>1, <2>2
<1> HIDE DEF h
<1> DEFINE a == Marked(h, "ALTERED")
<1>4. PICK e \in {h, a} : PassOn(e) \/ Delay(e) \/ HoldBack(e) \/ Duplicate(e)
  BY Zenon DEF InjectEvent, h
<1>5. /\ e \in Event /\ e.pass = h.pass /\ e.instrument = h.instrument /\ e.tenor = h.tenor
      /\ e.marks \subseteq h.marks \cup {"ALTERED"} /\ h.marks \subseteq e.marks
  BY <1>2, MarkedProperties DEF Marks
<1> HIDE DEF a
<1> DEFINE From(x) == /\ x \in Event /\ x.pass = h.pass
                      /\ x.instrument = h.instrument /\ x.tenor = h.tenor
                      /\ "PARTIAL_CURVE" \in x.marks <=> "PARTIAL_CURVE" \in h.marks
<1>6. From(e) /\ "DUPLICATE" \notin e.marks
  BY <1>3, <1>5
<1>7. ASSUME NEW mark \in {"DELAYED", "OUT_OF_ORDER", "DUPLICATE"}
      PROVE  /\ From(Marked(e, mark))
             /\ "DUPLICATE" \in Marked(e, mark).marks <=> mark = "DUPLICATE"
  BY <1>5, <1>6, MarkedProperties DEF Marks
<1>8. ASSUME NEW name PROVE Passed(name) \in Nat
  BY PassedIsNatural
<1>9. ASSUME NEW x, From(x), Injected' = Injected \cup {x},
             \A name : Passed(name)' = Passed(name) + One(x, name)
                                  + IF "DUPLICATE" \in x.marks THEN One(x, name) ELSE 0
      PROVE  \E y : Injects(y)
  <2>1. Injects(x)
    BY <1>1, <1>9 DEF Injects, h
  <2> QED
    BY <2>1
<1>10. ASSUME NEW x, NEW name
       PROVE  One(x, name) \in Nat
  BY DEF One
<1> HIDE DEF From
<1>11. CASE PassOn(e)
  <2>1. ready' = Append(ready, e) /\ UNCHANGED <<delayQueue, oooQueue>>
    BY <1>11 DEF PassOn
  <2>2. Injected' = Injected \cup {e}
    BY <1>1, <1>5, <2>1, AppendElements DEF Injected
  <2>3. ASSUME NEW name PROVE Passed(name)' = Passed(name) + One(e, name)
    <3>1. Count(ready', name) = Count(ready, name) + One(e, name)
      BY <1>1, <1>5, <2>1, CountOfAppended
    <3>2. Passed(name)' = Count(delayQueue, name) + Cardinality(Named(oooQueue, name))
                            + Count(ready', name) + Count(published, name)
                            + Count(abandoned, name)
      BY <1>1, <2>1 DEF Passed
    <3> QED
      BY <1>10, <3>1, <3>2, PassedIsNatural DEF Passed
  <2>4. ASSUME NEW name
        PROVE  Passed(name)' = Passed(name) + One(e, name)
                                  + IF "DUPLICATE" \in e.marks THEN One(e, name) ELSE 0
    BY <1>6, <1>8, <1>10, <2>3
  <2> QED
    BY <1>6, <1>9, <2>2, <2>4
<1>12. CASE Delay(e)
  <2> DEFINE x == Marked(e, "DELAYED")
  <2>1. /\ delayQueue' = Append(delayQueue, x) /\ UNCHANGED <<ready, oooQueue>>
        /\ x \in Event /\ From(x) /\ "DUPLICATE" \notin x.marks
    BY <1>5, <1>7, <1>12, MarkedProperties DEF Delay, Marks
  <2> HIDE DEF x
  <2>2. Injected' = Injected \cup {x}
    BY <1>1, <2>1, AppendElements DEF Injected
  <2>3. ASSUME NEW name PROVE Passed(name)' = Passed(name) + One(x, name)
    <3>1. Count(delayQueue', name) = Count(delayQueue, name) + One(x, name)
      BY <1>1, <2>1, CountOfAppended
    <3>2. Passed(name)' = Count(delayQueue', name) + Cardinality(Named(oooQueue, name))
                            + Count(ready, name) + Count(published, name)
                            + Count(abandoned, name)
      BY <1>1, <2>1 DEF Passed
    <3> QED
      BY <1>10, <3>1, <3>2, PassedIsNatural DEF Passed
  <2>4. ASSUME NEW name
        PROVE  Passed(name)' = Passed(name) + One(x, name)
                                  + IF "DUPLICATE" \in x.marks THEN One(x, name) ELSE 0
    BY <1>8, <1>10, <2>1, <2>3
  <2> QED
    BY <1>9, <2>1, <2>2, <2>4
<1>13. CASE HoldBack(e)
  <2> DEFINE x == Marked(e, "OUT_OF_ORDER")
  <2>1. /\ oooQueue' = oooQueue \cup {x} /\ UNCHANGED <<ready, delayQueue>>
        /\ x \in Event /\ From(x) /\ "DUPLICATE" \notin x.marks
    BY <1>5, <1>7, <1>13, MarkedProperties DEF HoldBack, Marks
  <2> HIDE DEF x
  <2>2. Injected' = Injected \cup {x}
    BY <1>1, <2>1 DEF Injected
  <2>3. x \notin oooQueue
    BY <1>3, <2>1 DEF From, Name, Injected
  <2>4. ASSUME NEW name PROVE Passed(name)' = Passed(name) + One(x, name)
    <3>1. Cardinality(Named(oooQueue', name)) = Cardinality(Named(oooQueue, name)) + One(x, name)
      BY <2>1, <2>3, CountOfHeld
    <3>2. Passed(name)' = Count(delayQueue, name) + Cardinality(Named(oooQueue', name))
                            + Count(ready, name) + Count(published, name)
                            + Count(abandoned, name)
      BY <1>1, <2>1 DEF Passed
    <3> QED
      BY <1>10, <3>1, <3>2, PassedIsNatural DEF Passed
  <2>5. ASSUME NEW name
        PROVE  Passed(name)' = Passed(name) + One(x, name)
                                  + IF "DUPLICATE" \in x.marks THEN One(x, name) ELSE 0
    BY <1>8, <1>10, <2>1, <2>4
  <2> QED
    BY <1>9, <2>1, <2>2, <2>5
<1>14. CASE Duplicate(e)
  <2> DEFINE x == Marked(e, "DUPLICATE")
             twice == <<x, x>>
  <2>1. /\ ready' = ready \o twice /\ UNCHANGED <<delayQueue, oooQueue>>
        /\ x \in Event /\ From(x) /\ "DUPLICATE" \in x.marks
    BY <1>5, <1>7, <1>14, MarkedProperties DEF Duplicate, Marks
  <2> HIDE DEF x
  <2>2. twice \in Seq(Event) /\ ToSet(twice) = {x}
    BY <2>1, CountOfTwice
  <2>3. ASSUME NEW name PROVE Count(twice, name) = One(x, name) + One(x, name)
    BY <2>1, CountOfTwice
  <2> HIDE DEF twice
  <2>5. Injected' = Injected \cup {x}
    <3>1. ToSet(ready \o twice) = ToSet(ready) \cup ToSet(twice)
      BY <1>1, <2>2, JoinedElements
    <3> QED
      BY <1>1, <2>1, <2>2, <3>1 DEF Injected
  <2>6. ASSUME NEW name PROVE Passed(name)' = Passed(name) + One(x, name) + One(x, name)
    <3>1. Count(ready', name) = Count(ready, name) + One(x, name) + One(x, name)
      <4>1. Count(ready', name) = Count(ready, name) + Count(twice, name)
        BY <1>1, <2>1, <2>2, CountOfJoined
      <4> QED
        BY <1>10, <2>3, <4>1, PassedIsNatural
    <3>2. Passed(name)' = Count(delayQueue, name) + Cardinality(Named(oooQueue, name))
                            + Count(ready', name) + Count(published, name)
                            + Count(abandoned, name)
      BY <1>1, <2>1 DEF Passed
    <3> QED
      BY <1>10, <3>1, <3>2, PassedIsNatural DEF Passed
  <2>7. ASSUME NEW name
        PROVE  Passed(name)' = Passed(name) + One(x, name)
                                  + IF "DUPLICATE" \in x.marks THEN One(x, name) ELSE 0
    BY <2>1, <2>6
  <2> QED
    BY <1>9, <2>1, <2>5, <2>7
<1> QED
  BY <1>4, <1>11, <1>12, <1>13, <1>14

LEMMA Effects ==
    ASSUME ListsOK, IsFiniteSet(oooQueue), Curves(clean, cycle), AtHand, Ahead, [Next]_vars
    PROVE  Continues \/ Starts \/ (\E gone : Takes(gone)) \/ (\E x : Injects(x))
<1>1. CASE Rest
  BY <1>1, ListsAlone DEF Rest, Continues
<1> QED
  BY <1>1, Kinds, StartStarts, TakeTakes, InjectInjects, DrainContinues, PublishContinues

-----------------------------------------------------------------------------
(* The events, over a step.                                                *)

LEMMA EventsAre ==
    /\ ListsOK => Events = EventsIn(clean) \cup ToSet(batch) \cup Injected /\ Events \subseteq Event
    /\ ListsOK' => Events' = EventsIn(clean') \cup ToSet(batch') \cup Injected'
<1>1. ASSUME ListsOK
      PROVE  Events = EventsIn(clean) \cup ToSet(batch) \cup Injected
  BY <1>1, EventsOfLists DEF Events, Injected, ListsOK
<1>2. ASSUME ListsOK'
      PROVE  Events' = EventsIn(clean') \cup ToSet(batch') \cup Injected'
  BY <1>2, EventsOfLists DEF Events, Injected, ListsOK
<1>3. ASSUME ListsOK PROVE Events \subseteq Event
  <2>1. \A s \in Seq(Event) : ToSet(s) \subseteq Event
    BY DEF ToSet
  <2>2. EventsIn(clean) \subseteq Event
    <3>1. \A s \in ToSet(clean) : s \in Seq(Event)
      BY <1>3 DEF ListsOK, ToSet
    <3> QED
      BY <2>1, <3>1 DEF EventsIn
  <2>3. ToSet(batch) \subseteq Event /\ Injected \subseteq Event
    BY <1>3, <2>1 DEF ListsOK, Injected
  <2> QED
    BY <1>1, <1>3, <2>2, <2>3
<1> QED
  BY <1>1, <1>2, <1>3

\* Whether a set has an event of a name.
Among(S, name) == IF \E e \in S : Name(e) = name THEN 1 ELSE 0

LEMMA CopiesAre ==
    ASSUME NEW name
    PROVE  /\ ListsOK /\ IsFiniteSet(oooQueue) /\ Curves(clean, cycle) /\ AtHand
                => Copies(name) = Among(EventsIn(clean), name) + Among(ToSet(batch), name)
                                    + Passed(name)
           /\ ListsOK' /\ IsFiniteSet(oooQueue)' /\ Curves(clean, cycle)' /\ AtHand'
                => Copies(name)' = Among(EventsIn(clean'), name) + Among(ToSet(batch'), name)
                                     + Passed(name)'
<1>1. ASSUME ListsOK, IsFiniteSet(oooQueue), Curves(clean, cycle), AtHand
      PROVE  Copies(name) = Among(EventsIn(clean), name) + Among(ToSet(batch), name) + Passed(name)
  <2>1. Cardinality(UNION {{n} \X Positions(clean[n], name) : n \in DOMAIN clean})
          = Among(EventsIn(clean), name)
    BY <1>1, CountOfBatches DEF Among, ListsOK
  <2>2. Count(batch, name) = Among(ToSet(batch), name)
    BY <1>1, CountOfRising DEF Among, ListsOK, AtHand
  <2>3. Among(EventsIn(clean), name) \in Nat /\ Among(ToSet(batch), name) \in Nat
    BY DEF Among
  <2>4. /\ Count(delayQueue, name) \in Nat /\ Count(ready, name) \in Nat
        /\ Count(published, name) \in Nat /\ Count(abandoned, name) \in Nat
        /\ Cardinality(Named(oooQueue, name)) \in Nat
    BY <1>1, CountIsNatural, CountOfHeld DEF ListsOK
  <2>5. Copies(name) = Among(EventsIn(clean), name) + Among(ToSet(batch), name)
                         + Count(delayQueue, name) + Cardinality(Named(oooQueue, name))
                         + Count(ready, name) + Count(published, name) + Count(abandoned, name)
    BY <2>1, <2>2 DEF Copies, Named
  <2> QED
    BY <2>3, <2>4, <2>5 DEF Passed
<1>2. ASSUME ListsOK', IsFiniteSet(oooQueue)', Curves(clean, cycle)', AtHand'
      PROVE  Copies(name)' = Among(EventsIn(clean'), name) + Among(ToSet(batch'), name)
                               + Passed(name)'
  <2>1. Cardinality(UNION {{n} \X Positions(clean'[n], name) : n \in DOMAIN clean'})
          = Among(EventsIn(clean'), name)
    BY <1>2, CountOfBatches DEF Among, ListsOK
  <2>2. Count(batch', name) = Among(ToSet(batch'), name)
    BY <1>2, CountOfRising DEF Among, ListsOK, AtHand
  <2>3. Among(EventsIn(clean'), name) \in Nat /\ Among(ToSet(batch'), name) \in Nat
    BY DEF Among
  <2>4. /\ Count(delayQueue', name) \in Nat /\ Count(ready', name) \in Nat
        /\ Count(published', name) \in Nat /\ Count(abandoned', name) \in Nat
        /\ Cardinality(Named(oooQueue', name)) \in Nat
    BY <1>2, CountIsNatural, CountOfHeld DEF ListsOK
  <2>5. Copies(name)' = Among(EventsIn(clean'), name) + Among(ToSet(batch'), name)
                          + Count(delayQueue', name) + Cardinality(Named(oooQueue', name))
                          + Count(ready', name) + Count(published', name) + Count(abandoned', name)
    BY <2>1, <2>2 DEF Copies, Named
  <2>6. Passed(name)' = Count(delayQueue', name) + Cardinality(Named(oooQueue', name))
                          + Count(ready', name) + Count(published', name) + Count(abandoned', name)
    BY DEF Passed
  <2> QED
    BY <2>3, <2>4, <2>5, <2>6
<1> QED
  BY <1>1, <1>2

\* Events of a curve with the same tenor are one event.
LEMMA RisingNames ==
    ASSUME NEW s \in Seq(Event), Rising(s), NEW e \in ToSet(s), NEW f \in ToSet(s),
           e.tenor = f.tenor
    PROVE  e = f
<1>1. PICK j, k \in DOMAIN s : e = s[j] /\ f = s[k]
  BY DEF ToSet
<1>2. j = k
  BY <1>1, RisingPositions
<1> QED
  BY <1>1, <1>2

\* The next batch, against the batches after it.
LEMMA NextBatch ==
    ASSUME ListsOK, clean # <<>>, Curves(clean, cycle)
    PROVE  /\ Curves(Tail(clean), cycle)
           /\ EventsIn(clean) = ToSet(Head(clean)) \cup EventsIn(Tail(clean))
           /\ \A e \in EventsIn(clean) : e \in Event /\ e.pass = cycle /\ e.marks = {}
           /\ \A e, f \in ToSet(Head(clean)) :
                 Pair(e) = Pair(f) /\ (Name(e) = Name(f) => e = f)
           /\ \A e \in ToSet(Head(clean)), f \in EventsIn(Tail(clean)) : Pair(e) # Pair(f)
<1> DEFINE h == Head(clean)
           t == Tail(clean)
<1>1. clean \in Seq(Seq(Event))
  BY DEF ListsOK
<1>2. /\ h \in Seq(Event) /\ t \in Seq(Seq(Event))
      /\ EventsIn(clean) = ToSet(h) \cup EventsIn(t)
      /\ 1 \in DOMAIN clean /\ clean[1] = h
      /\ \A n \in DOMAIN t : n + 1 \in DOMAIN clean /\ n + 1 # 1 /\ t[n] = clean[n + 1]
      /\ \A n, m \in DOMAIN t : n + 1 = m + 1 => n = m
  BY <1>1, RestBatches
<1> HIDE DEF h, t
<1>3. Curves(t, cycle)
  BY <1>2 DEF Curves
<1>4. ASSUME NEW e \in EventsIn(clean)
      PROVE  e \in Event /\ e.pass = cycle /\ e.marks = {}
  <2>1. PICK n \in DOMAIN clean : e \in ToSet(clean[n])
    BY DEF EventsIn, ToSet
  <2>2. clean[n] \in Seq(Event)
    BY <1>1
  <2>3. e \in Event
    BY <2>1, <2>2 DEF ToSet
  <2> QED
    BY <2>1, <2>3 DEF Curves
<1>5. ASSUME NEW e \in ToSet(h), NEW f \in ToSet(h)
      PROVE  Pair(e) = Pair(f) /\ (Name(e) = Name(f) => e = f)
  <2>1. e.pass = f.pass /\ e.instrument = f.instrument /\ Rising(h)
    BY <1>2 DEF Curves
  <2>2. Name(e) = Name(f) => e.tenor = f.tenor
    BY DEF Name
  <2> QED
    BY <1>2, <2>1, <2>2, RisingNames DEF Pair
<1>6. ASSUME NEW e \in ToSet(h), NEW f \in EventsIn(t)
      PROVE  Pair(e) # Pair(f)
  <2>1. PICK n \in DOMAIN t : f \in ToSet(t[n])
    BY DEF EventsIn, ToSet
  <2>2. e.instrument # f.instrument
    BY <1>2, <2>1 DEF Curves
  <2> QED
    BY <2>2 DEF Pair
<1> QED
  BY <1>2, <1>3, <1>4, <1>5, <1>6 DEF h, t

LEMMA ContinuesKeeps ==
    ASSUME ListsOK, ListsOK', IsFiniteSet(oooQueue), IsFiniteSet(oooQueue)', Tracked, Continues
    PROVE  Tracked'
<1>1. /\ UNCHANGED <<cycle, clean, batch, collected, dropped>> /\ Injected' = Injected
      /\ Events' = Events
  BY EventsAre DEF Continues
<1>2. Passes'
  BY <1>1 DEF Tracked, Passes
<1>3. Curves(clean, cycle)' /\ AtHand' /\ Ahead'
  BY <1>1 DEF Tracked, Curves, AtHand, Ahead
<1>4. PartialCurvesRecorded'
  BY <1>1 DEF Tracked, PartialCurvesRecorded
<1>5. ASSUME NEW name PROVE Copies(name)' = Copies(name)
  BY <1>1, <1>3, CopiesAre DEF Tracked, Continues
<1>6. Conserved'
  BY <1>1, <1>5 DEF Tracked, Conserved, Discarded
<1> QED
  BY <1>2, <1>3, <1>4, <1>6 DEF Tracked

LEMMA StartsKeeps ==
    ASSUME ListsOK, ListsOK', IsFiniteSet(oooQueue), IsFiniteSet(oooQueue)', CountersOK, Lull,
           Tracked, Starts
    PROVE  Tracked'
<1> DEFINE C == EventsIn(Collected)
<1>1. /\ clean = <<>> /\ batch = <<>> /\ batch' = <<>> /\ clean' = Collected
      /\ cycle' = cycle + 1 /\ dropped' = dropped /\ Injected' = Injected
      /\ collected' = collected \cup {Name(e) : e \in C} /\ cycle \in Nat
  BY EmulatorAssumption DEF Starts, Lull, CountersOK
<1>2. EventsIn(<<>>) = {} /\ ToSet(<<>>) = {}
  BY DEF EventsIn, ToSet
<1>3. Events = Injected /\ Events' = C \cup Injected /\ Events \subseteq Event
  BY <1>1, <1>2, EventsAre
<1>4. /\ Curves(Collected, cycle + 1)
      /\ \A e \in C : e \in Event /\ e.pass = cycle + 1 /\ e.marks = {}
  BY CollectedProperties DEF Starts, CountersOK
<1>5. /\ dropped \subseteq Event /\ \A e \in Injected \cup dropped : e.pass <= cycle
      /\ \A e \in Injected \cup dropped : e.pass \in Nat
      /\ \A name \in collected : name[1] \in 1..cycle
  <2>1. dropped \subseteq Event /\ \A e \in Events \cup dropped : e.pass <= cycle
    BY DEF Tracked, Passes
  <2>2. \A e \in Event : e.pass \in Nat
    BY DEF Event
  <2> QED
    BY <1>3, <2>1, <2>2 DEF Tracked, Passes
<1> HIDE DEF C
<1>6. \A e \in C : \A f \in Injected \cup dropped : e.pass # f.pass
  BY <1>1, <1>4, <1>5
<1>7. Passes'
  <2>1. \A e \in Events' \cup dropped' : e.pass <= cycle'
    BY <1>1, <1>3, <1>4, <1>5
  <2>2. \A name \in collected : name[1] \in 1..(cycle + 1)
    BY <1>1, <1>5
  <2>3. \A e \in C : Name(e)[1] \in 1..(cycle + 1)
    BY <1>1, <1>4 DEF Name
  <2> QED
    BY <1>1, <1>5, <2>1, <2>2, <2>3 DEF Passes
<1>8. Curves(clean, cycle)'
  BY <1>1, <1>4 DEF Curves
<1>9. AtHand'
  BY <1>1, <1>2 DEF AtHand, Rising
<1>10. Ahead'
  BY <1>1, <1>2, <1>6 DEF Ahead, Pair, C
<1>11. PartialCurvesRecorded'
  <2>1. ASSUME NEW e \in Injected
        PROVE  "PARTIAL_CURVE" \in e.marks
                 <=> <<e.pass, e.instrument>> \in {<<f.pass, f.instrument>> : f \in dropped}
    BY <1>3 DEF Tracked, PartialCurvesRecorded
  <2>2. ASSUME NEW e \in C
        PROVE  /\ "PARTIAL_CURVE" \notin e.marks
               /\ <<e.pass, e.instrument>> \notin {<<f.pass, f.instrument>> : f \in dropped}
    BY <1>4, <1>6
  <2> QED
    BY <1>1, <1>3, <2>1, <2>2 DEF PartialCurvesRecorded
<1>12. Conserved'
  <2>1. Discarded' = Discarded /\ \A name \in Discarded : \E f \in dropped : name[1] = f.pass
    BY <1>1 DEF Discarded, Name
  <2>2. \A e \in C : Name(e) \notin collected /\ Name(e) \notin Discarded /\ Name(e)[1] = e.pass
    <3>1. ASSUME NEW e \in C PROVE Name(e) \notin collected
      <4>1. Name(e)[1] = cycle + 1
        BY <1>4 DEF Name
      <4> QED
        BY <1>1, <1>5, <4>1
    <3> QED
      BY <1>6, <2>1, <3>1 DEF Name
  <2>3. \A e \in Events' : Name(e) \in collected' \ Discarded'
    BY <1>1, <1>3, <2>1, <2>2 DEF Tracked, Conserved
  <2>4. ASSUME NEW name \in collected' \ Discarded'
        PROVE  \/ /\ Copies(name)' = 1
                  /\ \A e \in Events' : Name(e) = name => "DUPLICATE" \notin e.marks
               \/ /\ Copies(name)' = 2
                  /\ \A e \in Events' : Name(e) = name => "DUPLICATE" \in e.marks
    <3>1. Copies(name) = 0 + 0 + Passed(name)
      BY <1>1, <1>2, CopiesAre DEF Among, Tracked
    <3>2. Copies(name)' = Among(C, name) + 0 + Passed(name)
      BY <1>1, <1>2, <1>8, <1>9, CopiesAre DEF Among, Starts, C
    <3>3. Passed(name) \in Nat
      BY PassedIsNatural
    <3>4. CASE name \in collected
      <4>1. \A e \in C : Name(e) # name
        BY <2>2, <3>4
      <4>2. Copies(name)' = Copies(name)
        BY <3>1, <3>2, <3>3, <4>1 DEF Among
      <4> QED
        BY <1>3, <2>1, <3>4, <4>1, <4>2 DEF Tracked, Conserved
    <3>5. CASE name \notin collected
      <4>1. PICK e \in C : name = Name(e)
        BY <1>1, <3>5
      <4>2. \A f \in Injected : Name(f) # name
        BY <1>6, <4>1 DEF Name
      <4>3. Passed(name) = 0
        BY <4>2, PassedIsNatural
      <4>4. Copies(name)' = 1
        BY <3>2, <4>1, <4>3 DEF Among
      <4> QED
        BY <1>3, <1>4, <4>2, <4>4
    <3> QED
      BY <3>4, <3>5
  <2> QED
    BY <2>3, <2>4 DEF Conserved
<1> QED
  BY <1>7, <1>8, <1>9, <1>10, <1>11, <1>12 DEF Tracked

LEMMA TakesKeeps ==
    ASSUME ListsOK, ListsOK', IsFiniteSet(oooQueue), IsFiniteSet(oooQueue)', Tracked,
           NEW gone, Takes(gone)
    PROVE  Tracked'
<1> DEFINE H == ToSet(Head(clean))
           T == EventsIn(Tail(clean))
           B == ToSet(batch')
<1>1. /\ batch = <<>> /\ clean # <<>> /\ clean' = Tail(clean)
      /\ gone \subseteq H /\ dropped' = dropped \cup gone /\ Rising(batch')
      /\ cycle' = cycle /\ collected' = collected /\ Injected' = Injected
      /\ \A name : Passed(name)' = Passed(name)
  BY DEF Takes
<1>2. /\ Curves(Tail(clean), cycle)
      /\ EventsIn(clean) = H \cup T
      /\ \A e \in H \cup T : e \in Event /\ e.pass = cycle /\ e.marks = {}
      /\ \A e, f \in H : Pair(e) = Pair(f) /\ (Name(e) = Name(f) => e = f)
      /\ \A e \in H, f \in T : Pair(e) # Pair(f)
  BY <1>1, NextBatch DEF Tracked
<1>3. ToSet(<<>>) = {}
  BY DEF ToSet
<1>4. Events = H \cup T \cup Injected /\ Events' = T \cup B \cup Injected
  BY <1>1, <1>2, <1>3, EventsAre
<1>5. /\ \A b \in B : \E e \in H \ gone :
            /\ b.pass = e.pass /\ b.instrument = e.instrument /\ b.tenor = e.tenor
            /\ Pair(b) = Pair(e) /\ Name(b) = Name(e)
            /\ b.marks = IF gone = {} THEN {} ELSE {"PARTIAL_CURVE"}
      /\ \A e \in H \ gone : \E b \in B : Name(b) = Name(e)
  <2>1. CASE gone = {}
    BY <1>2, <2>1 DEF Takes
  <2>2. CASE gone # {}
    <3>1. B = {Marked(e, "PARTIAL_CURVE") : e \in H \ gone}
      BY <2>2 DEF Takes
    <3> DEFINE M(e) == Marked(e, "PARTIAL_CURVE")
    <3>2. ASSUME NEW e \in H
          PROVE  /\ M(e).pass = e.pass /\ M(e).instrument = e.instrument
                 /\ M(e).tenor = e.tenor /\ M(e).marks = {"PARTIAL_CURVE"}
      BY <1>2, MarkedProperties DEF Marks
    <3> HIDE DEF M
    <3>3. B = {M(e) : e \in H \ gone}
      BY <3>1 DEF M
    <3> QED
      BY <2>2, <3>2, <3>3 DEF Pair, Name
  <2> QED
    BY <2>1, <2>2
<1> HIDE DEF H, T, B
<1>6. /\ \A e \in H \cup T : \A f \in Injected \cup dropped : Pair(e) # Pair(f)
      /\ \A e \in H, f \in T : Name(e) # Name(f)
      /\ \A e \in H \cup T : \A f \in Injected \cup dropped : Name(e) # Name(f)
  <2>1. \A e \in H \cup T : \A f \in Injected \cup dropped : Pair(e) # Pair(f)
    BY <1>2 DEF Tracked, Ahead
  <2>2. \A e, f : Name(e) = Name(f) => Pair(e) = Pair(f)
    BY DEF Name, Pair
  <2> QED
    BY <1>2, <2>1, <2>2
<1>7. Passes'
  <2>1. /\ dropped \subseteq Event /\ \A name \in collected : name[1] \in 1..cycle
        /\ \A e \in H \cup T \cup Injected \cup dropped : e.pass <= cycle
    BY <1>4 DEF Tracked, Passes
  <2>2. dropped' \subseteq Event
    BY <1>1, <1>2, <2>1
  <2>3. \A e \in Events' \cup dropped' : e.pass <= cycle
    BY <1>1, <1>4, <1>5, <2>1
  <2> QED
    BY <1>1, <2>1, <2>2, <2>3 DEF Passes
<1>8. Curves(clean, cycle)'
  BY <1>1, <1>2 DEF Curves
<1>9. AtHand'
  <2>1. \A b \in B : b.pass = cycle /\ b.marks \subseteq {"PARTIAL_CURVE"}
    BY <1>2, <1>5
  <2>2. \A b, c \in B : b.instrument = c.instrument
    BY <1>2, <1>5 DEF Pair
  <2> QED
    BY <1>1, <2>1, <2>2 DEF AtHand, B
<1>10. Ahead'
  <2>1. \A e \in T : \A f \in Injected \cup B \cup dropped' : Pair(e) # Pair(f)
    BY <1>1, <1>2, <1>5, <1>6
  <2>2. \A b \in B : \A f \in Injected : Pair(b) # Pair(f)
    BY <1>5, <1>6
  <2>3. \A b \in B : \A f \in dropped' : Name(b) # Name(f)
    BY <1>1, <1>2, <1>5, <1>6
  <2> QED
    BY <1>1, <2>1, <2>2, <2>3 DEF Ahead, B, T
<1>11. PartialCurvesRecorded'
  <2>1. \A e \in H \cup T \cup Injected :
           "PARTIAL_CURVE" \in e.marks <=> Pair(e) \in {Pair(f) : f \in dropped}
    BY <1>4 DEF Tracked, PartialCurvesRecorded, Pair
  <2>2. ASSUME NEW e \in T \cup B \cup Injected
        PROVE  "PARTIAL_CURVE" \in e.marks <=> Pair(e) \in {Pair(f) : f \in dropped'}
    <3>1. CASE e \in T \cup Injected
      <4>1. \A f \in gone : Pair(e) # Pair(f)
        BY <1>1, <1>2, <1>6, <3>1
      <4> QED
        BY <1>1, <2>1, <3>1, <4>1
    <3>2. CASE e \in B
      <4>1. PICK h \in H \ gone : /\ Pair(e) = Pair(h)
                                  /\ e.marks = IF gone = {} THEN {} ELSE {"PARTIAL_CURVE"}
        BY <1>5, <3>2
      <4>2. CASE gone = {}
        BY <1>1, <1>6, <4>1, <4>2
      <4>3. CASE gone # {}
        <5>1. PICK g \in gone : Pair(g) = Pair(h)
          BY <1>1, <1>2, <4>3
        <5> QED
          BY <1>1, <4>1, <4>3, <5>1
      <4> QED
        BY <4>2, <4>3
    <3> QED
      BY <2>2, <3>1, <3>2
  <2> QED
    BY <1>4, <2>2 DEF PartialCurvesRecorded, Pair
<1>12. Conserved'
  <2> DEFINE G == {Name(e) : e \in gone}
  <2>1. Discarded' = Discarded \cup G
    BY <1>1 DEF Discarded
  <2>2. \A e \in T \cup B \cup Injected : Name(e) \notin G
    BY <1>1, <1>2, <1>5, <1>6
  <2>3. \A e \in H \cup T \cup Injected : Name(e) \in collected \ Discarded
    BY <1>4 DEF Tracked, Conserved
  <2>4. \A e \in Events' : Name(e) \in collected' \ Discarded'
    BY <1>1, <1>4, <1>5, <2>1, <2>2, <2>3
  <2>5. ASSUME NEW name \in collected' \ Discarded'
        PROVE  \/ /\ Copies(name)' = 1
                  /\ \A e \in Events' : Name(e) = name => "DUPLICATE" \notin e.marks
               \/ /\ Copies(name)' = 2
                  /\ \A e \in Events' : Name(e) = name => "DUPLICATE" \in e.marks
    <3>1. Copies(name) = Among(H \cup T, name) + 0 + Passed(name)
      BY <1>1, <1>2, <1>3, CopiesAre DEF Among, Tracked
    <3>2. Copies(name)' = Among(T, name) + Among(B, name) + Passed(name)
      BY <1>1, <1>8, <1>9, CopiesAre DEF T, B
    <3>3. Passed(name) \in Nat
      BY PassedIsNatural
    <3>4. name \notin G /\ name \in collected \ Discarded
      BY <1>1, <2>1
    <3>5. Among(H \cup T, name) = Among(T, name) + Among(B, name)
      <4>1. (\E e \in H : Name(e) = name) <=> (\E b \in B : Name(b) = name)
        BY <1>5, <3>4
      <4>2. ~((\E e \in H : Name(e) = name) /\ (\E e \in T : Name(e) = name))
        BY <1>6
      <4> QED
        BY <4>1, <4>2 DEF Among
    <3>6. Copies(name)' = Copies(name)
      BY <3>1, <3>2, <3>3, <3>5 DEF Among
    <3>7. \/ Copies(name) = 1 /\ \A e \in Events : Name(e) = name => "DUPLICATE" \notin e.marks
          \/ Copies(name) = 2 /\ \A e \in Events : Name(e) = name => "DUPLICATE" \in e.marks
      BY <3>4 DEF Tracked, Conserved
    <3>8. ASSUME NEW b \in B, Name(b) = name
          PROVE  Copies(name) = 1 /\ "DUPLICATE" \notin b.marks
      <4>1. PICK e \in H : Name(e) = name
        BY <1>5, <3>8
      <4>2. e \in Events /\ "DUPLICATE" \notin e.marks /\ "DUPLICATE" \notin b.marks
        BY <1>2, <1>4, <1>5, <4>1
      <4> QED
        BY <3>7, <4>1, <4>2
    <3>9. \A e \in Events' : e \in Events \/ e \in B
      BY <1>4
    <3> QED
      BY <3>6, <3>7, <3>8, <3>9
  <2> QED
    BY <2>4, <2>5 DEF Conserved
<1> QED
  BY <1>7, <1>8, <1>9, <1>10, <1>11, <1>12 DEF Tracked

LEMMA InjectsKeeps ==
    ASSUME ListsOK, ListsOK', IsFiniteSet(oooQueue), IsFiniteSet(oooQueue)', Tracked,
           NEW x, Injects(x)
    PROVE  Tracked'
<1> DEFINE h == Head(batch)
           B == ToSet(Tail(batch))
           C == EventsIn(clean)
<1>1. /\ batch # <<>> /\ batch' = Tail(batch) /\ x \in Event
      /\ Pair(x) = Pair(h) /\ Name(x) = Name(h) /\ x.pass = h.pass /\ x.tenor = h.tenor
      /\ "PARTIAL_CURVE" \in x.marks <=> "PARTIAL_CURVE" \in h.marks
      /\ cycle' = cycle /\ clean' = clean /\ collected' = collected /\ dropped' = dropped
      /\ Injected' = Injected \cup {x} /\ batch \in Seq(Event)
  BY DEF Injects, Pair, Name, ListsOK
<1>2. /\ h \in Event /\ Rising(batch) /\ Rising(Tail(batch))
      /\ ToSet(batch) = {h} \cup B /\ \A f \in B : h.tenor < f.tenor
  BY <1>1, RestElements DEF Tracked, AtHand
<1>3. Events = C \cup {h} \cup B \cup Injected /\ Events' = C \cup B \cup Injected \cup {x}
  BY <1>1, <1>2, EventsAre
<1> HIDE DEF h, B, C
<1>4. h.tenor \in Nat
  BY <1>2 DEF Event
<1>5. /\ \A e \in C : Name(e) # Name(h)
      /\ \A e \in B : Name(e) # Name(h)
      /\ \A f \in Injected : Name(f) # Name(h)
  <2>1. \A e, f : Name(e) = Name(f) => Pair(e) = Pair(f) /\ e.tenor = f.tenor
    BY DEF Name, Pair
  <2>2. \A e \in C : Pair(e) # Pair(h)
    BY <1>2 DEF Tracked, Ahead, C
  <2>3. \A f \in Injected : Pair(h) = Pair(f) => f.tenor < h.tenor
    BY <1>2 DEF Tracked, Ahead
  <2> QED
    BY <1>2, <1>4, <2>1, <2>2, <2>3
<1>6. Passes'
  BY <1>1, <1>3 DEF Tracked, Passes
<1>7. Curves(clean, cycle)'
  BY <1>1 DEF Tracked, Curves
<1>8. AtHand'
  BY <1>1, <1>2 DEF Tracked, AtHand, B
<1>9. Ahead'
  <2>1. \A e \in C : \A f \in Injected \cup {x} \cup B \cup dropped : Pair(e) # Pair(f)
    BY <1>1, <1>2 DEF Tracked, Ahead, C
  <2>2. \A e \in B : \A f \in Injected \cup {x} : Pair(e) = Pair(f) => f.tenor < e.tenor
    BY <1>1, <1>2 DEF Tracked, Ahead
  <2>3. \A e \in B : \A f \in dropped : Name(e) # Name(f)
    BY <1>2 DEF Tracked, Ahead
  <2> QED
    BY <1>1, <2>1, <2>2, <2>3 DEF Ahead, B, C
<1>10. PartialCurvesRecorded'
  <2>1. \A e \in C \cup {h} \cup B \cup Injected :
           "PARTIAL_CURVE" \in e.marks <=> Pair(e) \in {Pair(f) : f \in dropped}
    BY <1>3 DEF Tracked, PartialCurvesRecorded, Pair
  <2>2. \A e \in C \cup B \cup Injected \cup {x} :
           "PARTIAL_CURVE" \in e.marks <=> Pair(e) \in {Pair(f) : f \in dropped}
    BY <1>1, <2>1
  <2> QED
    BY <1>1, <1>3, <2>2 DEF PartialCurvesRecorded, Pair
<1>11. Conserved'
  <2>1. Discarded' = Discarded
    BY <1>1 DEF Discarded
  <2>2. \A e \in C \cup {h} \cup B \cup Injected : Name(e) \in collected \ Discarded
    BY <1>3 DEF Tracked, Conserved
  <2>3. \A e \in Events' : Name(e) \in collected' \ Discarded'
    BY <1>1, <1>3, <2>1, <2>2
  <2>4. ASSUME NEW name \in collected' \ Discarded'
        PROVE  \/ /\ Copies(name)' = 1
                  /\ \A e \in Events' : Name(e) = name => "DUPLICATE" \notin e.marks
               \/ /\ Copies(name)' = 2
                  /\ \A e \in Events' : Name(e) = name => "DUPLICATE" \in e.marks
    <3>1. Copies(name) = Among(C, name) + Among({h} \cup B, name) + Passed(name)
      BY <1>2, CopiesAre DEF Tracked, C
    <3>2. Copies(name)' = Among(C, name) + Among(B, name) + Passed(name)'
      BY <1>1, <1>7, <1>8, CopiesAre DEF C, B
    <3>3. /\ Passed(name)' = Passed(name) + One(x, name)
                               + IF "DUPLICATE" \in x.marks THEN One(x, name) ELSE 0
          /\ Passed(name) \in Nat
      BY PassedIsNatural DEF Injects
    <3>4. CASE name = Name(h)
      <4>1. Passed(name) = 0
        BY <1>5, <3>4, PassedIsNatural
      <4>2. Among(C, name) = 0 /\ Among(B, name) = 0 /\ One(x, name) = 1
        BY <1>1, <1>5, <3>4 DEF Among, One
      <4>3. Copies(name)' = IF "DUPLICATE" \in x.marks THEN 2 ELSE 1
        BY <3>2, <3>3, <4>1, <4>2
      <4>4. \A e \in Events' : Name(e) = name => e = x
        BY <1>3, <1>5, <3>4
      <4> QED
        BY <4>3, <4>4
    <3>5. CASE name # Name(h)
      <4>1. Among({h} \cup B, name) = Among(B, name) /\ One(x, name) = 0
        BY <1>1, <3>5 DEF Among, One
      <4>2. Copies(name)' = Copies(name)
        BY <3>1, <3>2, <3>3, <4>1
      <4>3. \A e \in Events' : Name(e) = name => e \in Events
        BY <1>1, <1>3, <3>5
      <4>4. name \in collected \ Discarded
        BY <1>1, <2>1
      <4> QED
        BY <4>2, <4>3, <4>4 DEF Tracked, Conserved
    <3> QED
      BY <3>4, <3>5
  <2> QED
    BY <2>3, <2>4 DEF Conserved
<1> QED
  BY <1>6, <1>7, <1>8, <1>9, <1>10, <1>11 DEF Tracked

-----------------------------------------------------------------------------
(* What is held, and the order of what is published.                       *)

LEMMA LullStep == ASSUME Lull, [Next]_vars PROVE Lull'
<1>1. CASE StartCycle
  BY <1>1 DEF Lull, StartCycle
<1>2. CASE TakeBatch
  BY <1>2 DEF Lull, TakeBatch
<1>3. CASE InjectEvent
  BY <1>3 DEF Lull, InjectEvent
<1>4. CASE Drain
  BY <1>4 DEF Lull, Drain, AboutToDrain
<1>5. CASE PublishEvent
  BY <1>5 DEF Lull, PublishEvent
<1>6. CASE PublishRaises
  BY <1>6 DEF Lull, PublishRaises
<1>7. CASE FinishCycle
  BY <1>7 DEF Lull, FinishCycle
<1>8. CASE Refresh
  BY <1>8 DEF Lull, Refresh
<1>9. CASE Shutdown
  BY <1>9 DEF Lull, Shutdown
<1>10. CASE Elapse
  BY <1>10 DEF Lull, Elapse, AboutToDrain
<1>11. CASE HandleSignal
  BY <1>11 DEF Lull, HandleSignal
<1>12. CASE UNCHANGED vars
  BY <1>12 DEF Lull, vars
<1> QED
  BY <1>1, <1>2, <1>3, <1>4, <1>5, <1>6, <1>7, <1>8, <1>9, <1>10, <1>11, <1>12 DEF Next, Loop

LEMMA HeldStep ==
    ASSUME ListsOK, IsFiniteSet(oooQueue), HeldMarked, [Next]_vars
    PROVE  HeldMarked'
<1>1. /\ batch \in Seq(Event) /\ delayQueue \in Seq(Event)
      /\ \A e \in ToSet(delayQueue) \cup oooQueue : WasHeld(e)
  BY DEF ListsOK, HeldMarked, Held
<1>2. CASE UNCHANGED <<delayQueue, oooQueue>>
  BY <1>1, <1>2 DEF HeldMarked, Held
<1>3. CASE InjectEvent
  <2>1. Head(batch) \in Event
    BY <1>1, <1>3, RestElements DEF InjectEvent
  <2>2. PICK e \in Event : PassOn(e) \/ Delay(e) \/ HoldBack(e) \/ Duplicate(e)
    BY <1>3, <2>1, MarkedProperties DEF InjectEvent, Marks
  <2>3. CASE Delay(e)
    <3> DEFINE x == Marked(e, "DELAYED")
    <3>1. x \in Event /\ WasHeld(x) /\ delayQueue' = Append(delayQueue, x) /\ UNCHANGED oooQueue
      BY <2>3, MarkedProperties DEF Delay, Marks, WasHeld
    <3> HIDE DEF x
    <3>2. ToSet(delayQueue') = ToSet(delayQueue) \cup {x}
      BY <1>1, <3>1, AppendElements
    <3> QED
      BY <1>1, <3>1, <3>2 DEF HeldMarked, Held
  <2>4. CASE HoldBack(e)
    <3>1. WasHeld(Marked(e, "OUT_OF_ORDER"))
      BY MarkedProperties DEF Marks, WasHeld
    <3> QED
      BY <1>1, <2>4, <3>1 DEF HoldBack, HeldMarked, Held
  <2>5. CASE PassOn(e) \/ Duplicate(e)
    BY <1>2, <2>5 DEF PassOn, Duplicate
  <2> QED
    BY <2>2, <2>3, <2>4, <2>5
<1>4. CASE Drain
  <2>1. delayQueue' = Early /\ oooQueue' = oooQueue \ due
    BY <1>4 DEF Drain
  <2>2. ToSet(Early) \subseteq ToSet(delayQueue)
    BY <1>1, OnlyProperties DEF Early
  <2> QED
    BY <1>1, <2>1, <2>2 DEF HeldMarked, Held
<1>5. StartCycle \/ TakeBatch \/ PublishEvent \/ PublishRaises \/ Rest
        => UNCHANGED <<delayQueue, oooQueue>>
  BY DEF StartCycle, TakeBatch, PublishEvent, PublishRaises, Rest, queueVars
<1> QED
  BY <1>2, <1>3, <1>4, <1>5, Kinds

\* An order that is right stays so when what follows was held, or comes before
\* nothing that is there, and when the end is cut off.
LEMMA OrderedJoined ==
    ASSUME NEW s \in Seq(Event), NEW t \in Seq(Event), Ordered(s),
           \A e \in ToSet(t) : WasHeld(e) \/ \A f \in ToSet(s) \cup ToSet(t) : ~Precedes(e, f)
    PROVE  Ordered(s \o t)
<1> DEFINE st == s \o t
<1>1. /\ Len(s) \in Nat /\ Len(t) \in Nat
      /\ DOMAIN s = 1..Len(s) /\ DOMAIN t = 1..Len(t) /\ DOMAIN st = 1..(Len(s) + Len(t))
      /\ \A k \in 1..(Len(s) + Len(t)) : st[k] = IF k <= Len(s) THEN s[k] ELSE t[k - Len(s)]
  OBVIOUS
<1>2. ToSet(st) = ToSet(s) \cup ToSet(t)
  BY JoinedElements
<1> HIDE DEF st
<1>3. ASSUME NEW m \in DOMAIN st, NEW n \in DOMAIN st, m < n, Precedes(st[n], st[m])
      PROVE  WasHeld(st[n])
  <2>1. CASE n <= Len(s)
    <3>1. m \in DOMAIN s /\ n \in DOMAIN s /\ st[m] = s[m] /\ st[n] = s[n]
      BY <1>1, <1>3, <2>1
    <3> QED
      BY <1>3, <3>1 DEF Ordered
  <2>2. CASE ~(n <= Len(s))
    <3>1. n - Len(s) \in DOMAIN t /\ st[n] = t[n - Len(s)]
      BY <1>1, <2>2
    <3>2. st[n] \in ToSet(t) /\ st[m] \in ToSet(s) \cup ToSet(t)
      BY <1>2, <3>1 DEF ToSet
    <3> QED
      BY <1>3, <3>2
  <2> QED
    BY <2>1, <2>2
<1> QED
  BY <1>3 DEF Ordered, st

LEMMA OrderedBefore ==
    ASSUME NEW s \in Seq(Event), NEW t \in Seq(Event), Ordered(s \o t)
    PROVE  Ordered(s)
<1>1. /\ Len(s) \in Nat /\ Len(t) \in Nat
      /\ DOMAIN s = 1..Len(s) /\ DOMAIN (s \o t) = 1..(Len(s) + Len(t))
      /\ \A k \in 1..Len(s) : (s \o t)[k] = s[k]
  OBVIOUS
<1>2. \A k \in DOMAIN s : k \in DOMAIN (s \o t) /\ (s \o t)[k] = s[k]
  BY <1>1
<1> QED
  BY <1>2 DEF Ordered

\* The event injected next comes before none that has been.
LEMMA NextIsLast ==
    ASSUME ListsOK, Tracked, batch # <<>>, NEW e \in Event,
           e.pass = Head(batch).pass, e.instrument = Head(batch).instrument,
           e.tenor = Head(batch).tenor,
           NEW f \in Injected \cup {e}
    PROVE  ~Precedes(e, f)
<1> DEFINE h == Head(batch)
<1>1. h \in Event /\ h \in ToSet(batch)
  BY RestElements DEF ListsOK
<1>2. h.pass = cycle /\ (f \in Injected /\ Pair(h) = Pair(f) => f.tenor < h.tenor)
  BY <1>1 DEF Tracked, AtHand, Ahead
<1> HIDE DEF h
<1>3. CASE f \in Injected
  <2>1. f \in Event /\ f.pass <= cycle
    BY <1>3, EventsAre DEF Tracked, Passes
  <2>2. f.pass \in Nat /\ f.tenor \in Nat /\ e.pass \in Nat /\ e.tenor \in Nat
    BY <2>1 DEF Event
  <2>3. e.pass = cycle /\ e.instrument = h.instrument /\ e.tenor = h.tenor /\ h.pass = cycle
    BY <1>2 DEF h
  <2> QED
    BY <1>2, <1>3, <2>1, <2>2, <2>3 DEF Precedes, Pair
<1>4. CASE f = e
  <2>1. e.pass \in Nat /\ e.tenor \in Nat
    BY DEF Event
  <2> QED
    BY <1>4, <2>1 DEF Precedes
<1> QED
  BY <1>3, <1>4

LEMMA OrderStep ==
    ASSUME ListsOK, ListsOK', IsFiniteSet(oooQueue), Tracked, HeldMarked,
           Ordered(published \o ready), [Next]_vars
    PROVE  Ordered(published' \o ready')
<1> DEFINE pr == published \o ready
<1>1. /\ published \in Seq(Event) /\ ready \in Seq(Event) /\ pr \in Seq(Event)
      /\ published' \in Seq(Event) /\ ready' \in Seq(Event)
      /\ ToSet(pr) = ToSet(published) \cup ToSet(ready) /\ ToSet(pr) \subseteq Injected
  <2>1. published \in Seq(Event) /\ ready \in Seq(Event)
    BY DEF ListsOK
  <2>2. pr \in Seq(Event) /\ ToSet(pr) = ToSet(published) \cup ToSet(ready)
    BY <2>1, JoinedElements
  <2>3. published' \in Seq(Event) /\ ready' \in Seq(Event)
    BY DEF ListsOK
  <2> QED
    BY <2>1, <2>2, <2>3 DEF Injected
<1>2. CASE UNCHANGED <<published, ready>>
  BY <1>2
<1>3. CASE PublishEvent
  <2>1. published' = Append(published, Head(ready)) /\ ready' = Tail(ready) /\ ready # <<>>
    BY <1>3 DEF PublishEvent
  <2> DEFINE one == <<Head(ready)>>
             rest == Tail(ready)
  <2>2. /\ Head(ready) \in Event /\ one \in Seq(Event) /\ rest \in Seq(Event)
        /\ ready = one \o rest /\ Append(published, Head(ready)) = published \o one
    BY <1>1, <2>1
  <2> HIDE DEF one, rest
  <2>3. (published \o one) \o rest = published \o (one \o rest)
    <3>1. published \in Seq(Event) /\ one \in Seq(Event) /\ rest \in Seq(Event)
      BY <1>1, <2>2
    <3> QED
      BY <3>1, ConcatAssociative, SMTT(30)
  <2>4. published' \o ready' = published \o ready
    BY <2>1, <2>2, <2>3 DEF rest
  <2> QED
    BY <2>4
<1>4. CASE PublishRaises
  <2>1. published' = published /\ ready' = <<>>
    BY <1>4 DEF PublishRaises
  <2>2. published' \o ready' = published
    BY <1>1, <2>1, ConcatEmptySeq
  <2>3. Ordered(published)
    BY <1>1, OrderedBefore
  <2> QED
    BY <2>2, <2>3
<1> HIDE DEF pr
<1>5. ASSUME NEW t \in Seq(Event), published' = published, ready' = ready \o t,
             \A e \in ToSet(t) : WasHeld(e) \/ \A f \in Injected \cup ToSet(t) : ~Precedes(e, f)
      PROVE  Ordered(published' \o ready')
  <2>1. published' \o ready' = pr \o t
    <3>1. (published \o ready) \o t = published \o (ready \o t)
      <4>1. published \in Seq(Event) /\ ready \in Seq(Event)
        BY <1>1
      <4> QED
        BY <4>1, ConcatAssociative, SMTT(30)
    <3> QED
      BY <1>5, <3>1, Zenon DEF pr
  <2>2. Ordered(pr)
    BY DEF pr
  <2>3. \A e \in ToSet(t) : WasHeld(e) \/ \A f \in ToSet(pr) \cup ToSet(t) : ~Precedes(e, f)
    BY <1>1, <1>5
  <2>4. Ordered(pr \o t)
    BY <1>1, <2>2, <2>3, OrderedJoined
  <2> QED
    BY <2>1, <2>4
<1>6. CASE InjectEvent
  <2>1. batch # <<>> /\ published' = published /\ Head(batch) \in Event
    BY <1>6, RestElements DEF InjectEvent, ListsOK
  <2>2. PICK e \in {Head(batch), Marked(Head(batch), "ALTERED")} :
           PassOn(e) \/ Delay(e) \/ HoldBack(e) \/ Duplicate(e)
    BY <1>6, Zenon DEF InjectEvent
  <2>3. /\ e \in Event /\ e.pass = Head(batch).pass
        /\ e.instrument = Head(batch).instrument /\ e.tenor = Head(batch).tenor
    BY <2>1, MarkedProperties DEF Marks
  <2>4. CASE PassOn(e)
    <3>1. ready' = ready \o <<e>> /\ <<e>> \in Seq(Event) /\ ToSet(<<e>>) = {e}
      BY <1>1, <2>3, <2>4 DEF PassOn, ToSet
    <3>2. \A f \in Injected \cup {e} : ~Precedes(e, f)
      BY <2>1, <2>3, NextIsLast
    <3> QED
      BY <1>5, <2>1, <3>1, <3>2
  <2>5. CASE Duplicate(e)
    <3> DEFINE x == Marked(e, "DUPLICATE")
               twice == <<x, x>>
    <3>1. /\ ready' = ready \o twice /\ x \in Event /\ x.pass = Head(batch).pass
          /\ x.instrument = Head(batch).instrument /\ x.tenor = Head(batch).tenor
      BY <2>3, <2>5, MarkedProperties DEF Duplicate, Marks
    <3> HIDE DEF x
    <3>2. twice \in Seq(Event) /\ ToSet(twice) = {x}
      BY <3>1, CountOfTwice
    <3>3. \A f \in Injected \cup {x} : ~Precedes(x, f)
      BY <2>1, <3>1, NextIsLast
    <3> HIDE DEF twice
    <3> QED
      BY <1>5, <2>1, <3>1, <3>2, <3>3
  <2>6. CASE Delay(e) \/ HoldBack(e)
    BY <1>2, <2>1, <2>6 DEF Delay, HoldBack
  <2> QED
    BY <2>2, <2>4, <2>5, <2>6
<1>7. CASE Drain
  <2>1. PICK shuffled \in SetToSeqs(oooQueue \cap due) : ready' = ready \o Due \o shuffled
    BY <1>7 DEF Drain
  <2>2. shuffled \in Seq(Event) /\ ToSet(shuffled) = oooQueue \cap due
    <3>1. oooQueue \cap due \in SUBSET Event /\ IsFiniteSet(oooQueue \cap due)
      BY FS_Intersection DEF ListsOK
    <3> QED
      BY <3>1, ShuffledProperties
  <2>3. Due \in Seq(Event) /\ ToSet(Due) = ToSet(delayQueue) \cap due
    BY OnlyProperties DEF Due, ListsOK
  <2> DEFINE t == Due \o shuffled
  <2>4. t \in Seq(Event) /\ ToSet(t) \subseteq Held
    BY <2>2, <2>3, JoinedElements DEF Held
  <2>5. ready' = ready \o t
    <3>1. (ready \o Due) \o shuffled = ready \o (Due \o shuffled)
      <4>1. ready \in Seq(Event) /\ Due \in Seq(Event) /\ shuffled \in Seq(Event)
        BY <1>1, <2>2, <2>3
      <4> QED
        BY <4>1, ConcatAssociative, SMTT(30)
    <3> QED
      BY <2>1, <3>1, Zenon
  <2> HIDE DEF t
  <2>6. \A e \in ToSet(t) : WasHeld(e)
    BY <2>4 DEF HeldMarked
  <2>7. published' = published
    BY <1>7 DEF Drain
  <2> QED
    BY <1>5, <2>4, <2>5, <2>6, <2>7
<1>8. StartCycle \/ TakeBatch \/ Rest => UNCHANGED <<published, ready>>
  BY DEF StartCycle, TakeBatch, Rest
<1> QED
  BY <1>2, <1>3, <1>4, <1>6, <1>7, <1>8, Kinds

-----------------------------------------------------------------------------
(* The theorems.                                                           *)

LEMMA InitSound == Init => Sound
<1> SUFFICES ASSUME Init PROVE Sound
  OBVIOUS
<1>1. /\ clean = <<>> /\ batch = <<>> /\ ready = <<>> /\ delayQueue = <<>> /\ oooQueue = {}
      /\ due = {} /\ published = <<>> /\ abandoned = <<>> /\ collected = {} /\ dropped = {}
      /\ cycle = 0 /\ pc = "check" /\ faults = 0 /\ raises = 0
  BY DEF Init
<1>2. Cardinality({}) = 0 /\ IsFiniteSet({}) /\ ToSet(<<>>) = {} /\ EventsIn(<<>>) = {}
  BY FS_EmptySet DEF ToSet, EventsIn
<1>3. ListsOK
  <2>1. <<>> \in Seq(Event) /\ <<>> \in Seq(Seq(Event)) /\ Len(<<>>) = 0
    OBVIOUS
  <2> QED
    BY <1>1, <1>2, <2>1, EmulatorAssumption DEF ListsOK
<1>4. CountersOK
  <2>1. PICK failing \in SUBSET Mapped : outages = Cardinality(failing) /\ cache = Fetched(failing)
    BY DEF Init
  <2>2. outages \in Nat /\ cache \subseteq Mapped
    BY <2>1, MappedIsFinite, FS_Subset, FS_CardinalityType DEF Fetched
  <2>3. outages <= MaxOutages
    BY DEF Init
  <2> QED
    BY <1>1, <2>2, <2>3, EmulatorAssumption DEF CountersOK
<1>5. ShutdownOK
  BY Zenon DEF Init, ShutdownOK
<1>6. Typed
  BY <1>1, <1>2, <1>3, <1>4, <1>5, TypeParts DEF Typed
<1>7. Lull
  BY <1>1 DEF Lull
<1>8. Injected = {} /\ Events = {}
  BY <1>1, <1>2, <1>3, EventsAre DEF Injected
<1>9. Tracked
  <2>1. Curves(clean, cycle)
    BY <1>1 DEF Curves
  <2> QED
    BY <1>1, <1>2, <1>8, <2>1 DEF Tracked, Passes, AtHand, Ahead, Rising,
       PartialCurvesRecorded, Conserved
<1>10. HeldMarked
  BY <1>1, <1>2 DEF HeldMarked, Held
<1>11. Ordered(published \o ready)
  <2>1. DOMAIN (<<>> \o <<>>) = {}
    OBVIOUS
  <2> QED
    BY <1>1, <2>1 DEF Ordered
<1> QED
  BY <1>6, <1>7, <1>9, <1>10, <1>11 DEF Sound

LEMMA NextSound == Sound /\ [Next]_vars => Sound'
<1> SUFFICES ASSUME Sound, [Next]_vars PROVE Sound'
  OBVIOUS
<1>1. /\ ListsOK /\ CountersOK /\ ShutdownOK /\ IsFiniteSet(oooQueue) /\ Lull /\ Tracked
      /\ HeldMarked /\ Ordered(published \o ready)
  BY TypeParts DEF Sound, Typed
<1>2. ListsOK' /\ IsFiniteSet(oooQueue)' /\ CountersOK' /\ ShutdownOK'
  BY <1>1, ListsStep, CountersStep, ShutdownStep
<1>3. Typed'
  BY <1>2, TypeParts DEF Typed
<1>4. Lull'
  BY <1>1, LullStep
<1>5. Tracked'
  <2>1. Curves(clean, cycle) /\ AtHand /\ Ahead
    BY <1>1 DEF Tracked
  <2>2. Continues \/ Starts \/ (\E gone : Takes(gone)) \/ (\E x : Injects(x))
    BY <1>1, <2>1, Effects
  <2> QED
    BY <1>1, <1>2, <2>2, ContinuesKeeps, StartsKeeps, TakesKeeps, InjectsKeeps
<1>6. HeldMarked'
  BY <1>1, HeldStep
<1>7. Ordered(published \o ready)'
  BY <1>1, <1>2, OrderStep
<1> QED
  BY <1>3, <1>4, <1>5, <1>6, <1>7 DEF Sound

LEMMA AlwaysSound == Spec => []Sound
  BY InitSound, NextSound, PTL DEF Spec

LEMMA SoundAccounts == Sound => NothingUnaccounted
<1> SUFFICES ASSUME Sound PROVE NothingUnaccounted
  OBVIOUS
<1>1. ListsOK /\ IsFiniteSet(oooQueue) /\ Tracked
  BY TypeParts DEF Sound, Typed
<1>2. ASSUME NEW name \in Discarded PROVE Copies(name) = 0
  <2>1. \A e \in Events : Name(e) # name
    BY <1>1, <1>2 DEF Tracked, Conserved
  <2>2. /\ \A e \in EventsIn(clean) \cup ToSet(batch) : Name(e) # name
        /\ \A e \in Injected : Name(e) # name
    BY <1>1, <2>1, EventsAre
  <2>3. Copies(name) = 0 + 0 + Passed(name)
    BY <1>1, <2>2, CopiesAre DEF Tracked, Among
  <2> QED
    BY <1>1, <2>2, <2>3, PassedIsNatural
<1>3. ASSUME NEW name \in collected, name \notin Discarded
      PROVE  \/ Copies(name) = 1
             \/ Copies(name) = 2 /\ \A e \in Events : Name(e) = name => "DUPLICATE" \in e.marks
  BY <1>1, <1>3 DEF Tracked, Conserved
<1> QED
  BY <1>2, <1>3 DEF NothingUnaccounted, Discarded

\* Where there are two of a name on one list, there are two at least.
LEMMA TwoPositions ==
    ASSUME NEW s \in Seq(Event), NEW m \in DOMAIN s, NEW n \in DOMAIN s, m # n,
           Name(s[m]) = Name(s[n])
    PROVE  Count(s, Name(s[m])) >= 2
<1> DEFINE name == Name(s[m])
<1>1. m \in Positions(s, name) /\ n \in Positions(s, name)
  BY DEF Positions
<1> HIDE DEF name
<1>2. IsFiniteSet(Positions(s, name)) /\ Count(s, name) = Cardinality(Positions(s, name))
      /\ Count(s, name) \in Nat
  BY CountIsNatural DEF Count
<1>3. Count(s, name) # 0
  BY <1>1, <1>2, FS_EmptySet
<1>4. Count(s, name) # 1
  <2> SUFFICES ASSUME Count(s, name) = 1 PROVE FALSE
    OBVIOUS
  <2>1. PICK x : Positions(s, name) = {x}
    BY <1>2, FS_Singleton
  <2> QED
    BY <1>1, <2>1
<1> QED
  BY <1>2, <1>3, <1>4 DEF name

\* An event_id seen twice: one name, of which there are then two, or two passes.
LEMMA RepeatsExplained ==
    ASSUME ListsOK, IsFiniteSet(oooQueue), Tracked
    PROVE  RepeatsAreMarkedOrCached
<1> SUFFICES ASSUME NEW m \in DOMAIN published, NEW n \in DOMAIN published, m # n,
                    EventId(published[m]) = EventId(published[n])
             PROVE  \/ "DUPLICATE" \in published[m].marks \cap published[n].marks
                    \/ /\ published[m].cached /\ published[n].cached
                       /\ published[m].pass # published[n].pass
  BY DEF RepeatsAreMarkedOrCached
<1> DEFINE e == published[m]
           f == published[n]
<1>1. e \in Event /\ f \in Event /\ e \in Events /\ f \in Events /\ published \in Seq(Event)
  <2>1. published \in Seq(Event) /\ e \in ToSet(published) /\ f \in ToSet(published)
    BY DEF ListsOK, ToSet
  <2> QED
    BY <2>1, EventsAre DEF Injected
<1>2. /\ e.cached = f.cached /\ e.instrument = f.instrument /\ e.tenor = f.tenor
      /\ ~e.cached => e.pass = f.pass
  BY <1>1 DEF EventId, Event
<1>3. CASE e.pass = f.pass
  <2> DEFINE name == Name(e)
  <2>1. Name(f) = name
    BY <1>2, <1>3 DEF Name
  <2>2. Count(published, name) >= 2
    BY <1>1, <2>1, TwoPositions
  <2>3. Copies(name) = Among(EventsIn(clean), name) + Among(ToSet(batch), name) + Passed(name)
    BY CopiesAre DEF Tracked
  <2> HIDE DEF e, f, name
  <2>4. Passed(name) \in Nat /\ Passed(name) >= Count(published, name)
    <3>1. /\ Count(delayQueue, name) \in Nat /\ Count(ready, name) \in Nat
          /\ Count(published, name) \in Nat /\ Count(abandoned, name) \in Nat
      BY CountIsNatural DEF ListsOK
    <3>2. Cardinality(Named(oooQueue, name)) \in Nat
      BY FS_Subset, FS_CardinalityType DEF Named
    <3> QED
      BY <3>1, <3>2 DEF Passed
  <2>5. Copies(name) # 1
    <3>1. Among(EventsIn(clean), name) \in Nat /\ Among(ToSet(batch), name) \in Nat
      BY DEF Among
    <3>2. Count(published, name) \in Nat
      BY CountIsNatural DEF ListsOK
    <3> QED
      BY <2>2, <2>3, <2>4, <3>1, <3>2
  <2>6. name \in collected \ Discarded
    BY <1>1 DEF Tracked, Conserved, name
  <2>7. \A d \in Events : Name(d) = name => "DUPLICATE" \in d.marks
    BY <2>5, <2>6 DEF Tracked, Conserved
  <2>8. "DUPLICATE" \in e.marks /\ "DUPLICATE" \in f.marks
    BY <1>1, <2>1, <2>7 DEF name
  <2> QED
    BY <2>8 DEF e, f
<1> QED
  BY <1>2, <1>3

LEMMA SoundRecords == Sound => FaultsAreRecorded
<1> SUFFICES ASSUME Sound PROVE FaultsAreRecorded
  OBVIOUS
<1>1. ListsOK /\ IsFiniteSet(oooQueue) /\ Tracked /\ Ordered(published \o ready)
  BY TypeParts DEF Sound, Typed
<1>2. DuplicatesRecorded /\ RepeatsAreMarkedOrCached
  BY <1>1, RepeatsExplained DEF Tracked, Conserved, DuplicatesRecorded
<1>3. ReorderingRecorded
  <2>1. Ordered(published)
    BY <1>1, OrderedBefore DEF ListsOK
  <2> QED
    BY <2>1 DEF Ordered, WasHeld, ReorderingRecorded
<1> QED
  BY <1>1, <1>2, <1>3 DEF Tracked, FaultsAreRecorded

\* The variables of the emulator have their types, and neither queue of the fault
\* injector passes its limit (fault_injector.py:178-197): the roll and the check
\* of the length are followed by one insertion.
THEOREM TypeCorrect == Spec => []TypeOK
<1>1. Sound => TypeOK
  BY DEF Sound, Typed
<1> QED
  BY <1>1, AlwaysSound, PTL

\* Whatever inject(), drain_ready() and the publish loop do with an event that a
\* cycle collected (emulator.py:199-236, fault_injector.py:144-298), it is in one
\* place, in two as a marked duplicate, or dropped with a partial curve.
THEOREM EventsConserved == Spec => []NothingUnaccounted
  BY AlwaysSound, SoundAccounts, PTL

\* "Every injected fault is recorded in the event's injected_faults field"
\* (fault_injector.py:6): of any number of instruments, tenors, queued events and
\* cycles, the marks of what is published tell what the injector repeated, what it
\* reordered, and the tenors left of a partial curve; an event_id that goes out
\* twice without a mark is that of a cached event collected by two cycles.
THEOREM InjectedFaultsRecorded == Spec => []FaultsAreRecorded
  BY AlwaysSound, SoundRecords, PTL
=============================================================================
