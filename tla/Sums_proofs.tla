----------------------------- MODULE Sums_proofs -----------------------------
(***************************************************************************)
(* Sums over finite sets.  The modules total amounts with MapThenSumSet, a *)
(* fold that takes the members of a set in the order in which CHOOSE finds *)
(* them; here is what such a sum does not owe to that order.  Weights are  *)
(* a function w on the set, so that the lemmas hold for any weights.       *)
(***************************************************************************)
EXTENDS Integers, FiniteSets, FiniteSetsExt, FiniteSetTheorems, TLAPS

SumOver(w, S) == MapThenSumSet(LAMBDA x : w[x], S)

\* The member that the fold takes, and the equation that the fold solves.
First(s) == CHOOSE x \in s : TRUE
Sums(g, w, S) ==
    g = [s \in SUBSET S |-> IF s = {} THEN 0 ELSE w[First(s)] + g[s \ {First(s)}]]

-----------------------------------------------------------------------------
(* The fold solves its equation *)

\* Induction on finite sets: a family of subsets has a smallest member.
LEMMA SmallestMember ==
    ASSUME NEW S, IsFiniteSet(S), NEW C \in SUBSET (SUBSET S), C # {}
    PROVE  \E s \in C : \A t \in C : t \subseteq s => t = s
  <1>1. FiniteSubsetsOf(S) = SUBSET S
    BY FS_FiniteSubsetsOfFinite
  <1>2. IsWellFoundedOn(StrictSubsetOrdering(S), SUBSET S)
    BY <1>1, FS_StrictSubsetOrderingWellFounded
  <1>3. PICK s \in C : \A t \in C : ~(<<t, s>> \in StrictSubsetOrdering(S))
    BY <1>2, WFMin
  <1>4. ASSUME NEW t \in C, t \subseteq s
        PROVE  t = s
    BY <1>3, <1>4 DEF StrictSubsetOrdering
  <1>5. QED BY <1>4

\* A set is made of its members, one by one.
LEMMA SetInduction ==
    ASSUME NEW S, IsFiniteSet(S), NEW C \in SUBSET (SUBSET S), {} \in C,
           \A s \in C : \A x \in S \ s : s \cup {x} \in C
    PROVE  S \in C
  <1> DEFINE D == {s \in SUBSET S : s \notin C}
  <1> SUFFICES ASSUME D # {}
               PROVE  FALSE
    OBVIOUS
  <1>1. PICK s \in D : \A t \in D : t \subseteq s => t = s
    <2>1. D \in SUBSET (SUBSET S)
      OBVIOUS
    <2> HIDE DEF D
    <2>2. QED BY <2>1, SmallestMember
  <1>2. PICK x \in s : TRUE
    OBVIOUS
  <1>3. s \ {x} \in C
    BY <1>1
  <1>4. (s \ {x}) \cup {x} = s /\ x \in S \ (s \ {x})
    OBVIOUS
  <1>5. QED BY <1>3, <1>4

LEMMA FirstIsMember ==
    ASSUME NEW s, s # {}
    PROVE  First(s) \in s
  BY DEF First

\* What a solution says of each set.
LEMMA SumsEquation ==
    ASSUME NEW S, NEW w, NEW g, Sums(g, w, S)
    PROVE  /\ g[{}] = 0
           /\ \A s \in SUBSET S : s # {} => g[s] = w[First(s)] + g[s \ {First(s)}]
  <1>1. \A s \in SUBSET S :
           g[s] = IF s = {} THEN 0 ELSE w[First(s)] + g[s \ {First(s)}]
    BY DEF Sums
  <1>2. QED BY <1>1

\* Solutions on two sets agree on the sets that they have in common.
LEMMA SumsUnique ==
    ASSUME NEW S, NEW T \in SUBSET S, IsFiniteSet(S), NEW w,
           NEW g, Sums(g, w, S), NEW h, Sums(h, w, T)
    PROVE  \A s \in SUBSET T : g[s] = h[s]
  <1> DEFINE C == {s \in SUBSET T : g[s] # h[s]}
  <1> SUFFICES ASSUME C # {}
               PROVE  FALSE
    OBVIOUS
  <1>1. PICK s \in C : \A t \in C : t \subseteq s => t = s
    <2>1. C \in SUBSET (SUBSET S)
      OBVIOUS
    <2> HIDE DEF C
    <2>2. QED BY <2>1, SmallestMember
  <1>2. s \in SUBSET T /\ s \in SUBSET S /\ g[s] # h[s] /\ {} \in SUBSET T
    BY <1>1
  <1>3. s # {}
    BY <1>2, SumsEquation
  <1> DEFINE t == s \ {First(s)}
  <1>4. t \in SUBSET T /\ t \subseteq s /\ t # s
    BY <1>2, <1>3, FirstIsMember
  <1>5. g[t] = h[t]
    BY <1>1, <1>4
  <1>6. g[s] = w[First(s)] + g[t] /\ h[s] = w[First(s)] + h[t]
    BY <1>2, <1>3, SumsEquation
  <1>7. QED BY <1>2, <1>5, <1>6

LEMMA SumsExist ==
    ASSUME NEW S, IsFiniteSet(S), NEW w
    PROVE  \E g : Sums(g, w, S)
  <1> DEFINE C == {s \in SUBSET S : ~\E g : Sums(g, w, s)}
  <1> SUFFICES ASSUME C # {}
               PROVE  FALSE
    OBVIOUS
  <1>1. PICK s \in C : \A t \in C : t \subseteq s => t = s
    <2>1. C \in SUBSET (SUBSET S)
      OBVIOUS
    <2> HIDE DEF C
    <2>2. QED BY <2>1, SmallestMember
  <1>2. s \in SUBSET S /\ ~\E g : Sums(g, w, s)
    BY <1>1
  <1> DEFINE G(t) == CHOOSE g : Sums(g, w, t)
             below == {t \in SUBSET s : t # s}
  <1>3. \A t \in below : Sums(G(t), w, t)
    <2> SUFFICES ASSUME NEW t \in below
                 PROVE  \E g : Sums(g, w, t)
      OBVIOUS
    <2>1. t \in SUBSET S /\ t \subseteq s /\ t # s
      BY <1>2
    <2>2. QED BY <1>1, <2>1
  <1> DEFINE rest(t) == t \ {First(t)}
             h == [t \in SUBSET s |-> IF t = {} THEN 0
                                      ELSE w[First(t)] + G(rest(t))[rest(t)]]
  <1>4. \A t \in below : h[t] = G(t)[t]
    <2> SUFFICES ASSUME NEW t \in below
                 PROVE  h[t] = G(t)[t]
      OBVIOUS
    <2>1. Sums(G(t), w, t) /\ IsFiniteSet(t) /\ t \in SUBSET t
      BY <1>2, <1>3, FS_Subset
    <2> HIDE DEF G
    <2>2. CASE t = {}
      BY <2>1, <2>2, SumsEquation
    <2>3. CASE t # {}
      <3>1. rest(t) \in SUBSET t /\ rest(t) \in below /\ rest(t) \in SUBSET rest(t)
        BY <2>3, FirstIsMember
      <3>2. G(t)[rest(t)] = G(rest(t))[rest(t)]
        <4>1. Sums(G(rest(t)), w, rest(t))
          BY <1>3, <3>1
        <4> HIDE DEF rest
        <4>2. QED BY <2>1, <3>1, <4>1, SumsUnique
      <3>3. G(t)[t] = w[First(t)] + G(t)[rest(t)]
        BY <2>1, <2>3, SumsEquation
      <3>4. QED BY <2>3, <3>2, <3>3
    <2>4. QED BY <2>2, <2>3
  <1>5. Sums(h, w, s)
    <2>1. ASSUME NEW t \in SUBSET s, t # {}
          PROVE  rest(t) \in below
      BY <2>1, FirstIsMember
    <2>2. \A t \in SUBSET s :
             h[t] = IF t = {} THEN 0 ELSE w[First(t)] + h[rest(t)]
      <3>1. \A t \in SUBSET s :
               h[t] = IF t = {} THEN 0 ELSE w[First(t)] + G(rest(t))[rest(t)]
        OBVIOUS
      <3>2. \A t \in SUBSET s : t # {} => h[rest(t)] = G(rest(t))[rest(t)]
        <4> HIDE DEF h, rest, below
        <4>1. QED BY <1>4, <2>1
      <3> HIDE DEF h, G, rest
      <3>3. QED BY <3>1, <3>2
    <2>3. h = [t \in SUBSET s |-> h[t]]
      OBVIOUS
    <2> HIDE DEF h
    <2> DEFINE k == [t \in SUBSET s |-> IF t = {} THEN 0
                                        ELSE w[First(t)] + h[t \ {First(t)}]]
    <2>4. \A t \in SUBSET s : h[t] = k[t]
      BY <2>2
    <2>5. k = [t \in SUBSET s |-> k[t]]
      OBVIOUS
    <2>6. h = k
      <3> HIDE DEF k
      <3>1. QED BY <2>3, <2>4, <2>5
    <2>7. QED BY <2>6, Zenon DEF Sums
  <1>6. QED BY <1>2, <1>5

\* Any solution gives the sum; so a fold with weights of its own is SumOver with
\* the function of these weights.
LEMMA SumsGive ==
    ASSUME NEW S, IsFiniteSet(S), NEW w, NEW g, Sums(g, w, S)
    PROVE  \A s \in SUBSET S : SumOver(w, s) = g[s]
  <1> SUFFICES ASSUME NEW s \in SUBSET S
               PROVE  SumOver(w, s) = g[s]
    OBVIOUS
  <1> DEFINE h == CHOOSE f : Sums(f, w, s)
  <1>1. SumOver(w, s) = h[s]
    BY DEF SumOver, MapThenSumSet, MapThenFoldSet, Sums, First
  <1>2. Sums(h, w, s)
    BY FS_Subset, SumsExist
  <1> HIDE DEF h
  <1>3. QED BY <1>1, <1>2, SumsUnique

\* The sum of no weights, and of the weights of a set, one at a time.
LEMMA SumEmpty ==
    ASSUME NEW w
    PROVE  SumOver(w, {}) = 0
  <1>1. IsFiniteSet({})
    BY FS_EmptySet
  <1>2. PICK g : Sums(g, w, {})
    BY <1>1, SumsExist
  <1>3. SumOver(w, {}) = g[{}]
    BY <1>1, <1>2, SumsGive
  <1>4. QED BY <1>2, <1>3, SumsEquation

LEMMA SumFirst ==
    ASSUME NEW S, IsFiniteSet(S), NEW w, S # {}
    PROVE  SumOver(w, S) = w[First(S)] + SumOver(w, S \ {First(S)})
  <1>1. PICK g : Sums(g, w, S)
    BY SumsExist
  <1>2. S \ {First(S)} \in SUBSET S /\ S \in SUBSET S
    OBVIOUS
  <1>3. SumOver(w, S) = g[S] /\ SumOver(w, S \ {First(S)}) = g[S \ {First(S)}]
    BY <1>1, <1>2, SumsGive
  <1>4. QED BY <1>1, <1>2, <1>3, SumsEquation

-----------------------------------------------------------------------------
(* Sums of integers *)

LEMMA SumInt ==
    ASSUME NEW S, IsFiniteSet(S), NEW w, \A x \in S : w[x] \in Int
    PROVE  SumOver(w, S) \in Int
  <1> DEFINE C == {s \in SUBSET S : SumOver(w, s) \notin Int}
  <1> SUFFICES ASSUME C # {}
               PROVE  FALSE
    OBVIOUS
  <1>1. PICK s \in C : \A t \in C : t \subseteq s => t = s
    <2>1. C \in SUBSET (SUBSET S)
      OBVIOUS
    <2> HIDE DEF C
    <2>2. QED BY <2>1, SmallestMember
  <1>2. s # {}
    BY SumEmpty
  <1> DEFINE t == s \ {First(s)}
  <1>3. First(s) \in s /\ t \in SUBSET S /\ t \subseteq s /\ t # s
    BY <1>2, FirstIsMember
  <1>4. SumOver(w, t) \in Int
    BY <1>1, <1>3
  <1>5. SumOver(w, s) = w[First(s)] + SumOver(w, t)
    <2>1. IsFiniteSet(s)
      BY FS_Subset
    <2>2. QED BY <1>2, <2>1, SumFirst
  <1>6. w[First(s)] \in Int
    BY <1>3
  <1> HIDE DEF t
  <1>7. QED BY <1>4, <1>5, <1>6

\* A sum can be taken apart at any member.
LEMMA SumRemove ==
    ASSUME NEW S, IsFiniteSet(S), NEW w, \A x \in S : w[x] \in Int, NEW x \in S
    PROVE  SumOver(w, S) = w[x] + SumOver(w, S \ {x})
  <1> DEFINE Apart(s, y) == SumOver(w, s) = w[y] + SumOver(w, s \ {y})
             C == {s \in SUBSET S : \E y \in s : ~Apart(s, y)}
  <1> SUFFICES ASSUME C # {}
               PROVE  FALSE
    OBVIOUS
  <1>1. PICK s \in C : \A t \in C : t \subseteq s => t = s
    <2>1. C \in SUBSET (SUBSET S)
      OBVIOUS
    <2> HIDE DEF C
    <2>2. QED BY <2>1, SmallestMember
  <1>2. s \in SUBSET S /\ \E y \in s : ~Apart(s, y)
    OBVIOUS
  <1>3. PICK y \in s : ~Apart(s, y)
    BY <1>2
  <1> DEFINE f == First(s)
  <1>4. f \in s /\ f # y /\ SumOver(w, s) = w[f] + SumOver(w, s \ {f})
    <2>1. f \in s /\ SumOver(w, s) = w[f] + SumOver(w, s \ {f})
      BY <1>2, <1>3, FirstIsMember, FS_Subset, SumFirst
    <2>2. QED BY <1>3, <2>1
  <1> HIDE DEF f
  <1>5. ASSUME NEW t \in SUBSET s, NEW z \in t, t # s
        PROVE  Apart(t, z)
    <2>1. t \notin C /\ t \in SUBSET S
      <3> HIDE DEF C
      <3>1. QED BY <1>1, <1>2, <1>5
    <2>2. QED BY <2>1
  <1> DEFINE rest == (s \ {f}) \ {y}
  <1>6. SumOver(w, s \ {f}) = w[y] + SumOver(w, rest)
    BY <1>3, <1>4, <1>5
  <1>7. SumOver(w, s \ {y}) = w[f] + SumOver(w, rest)
    <2>1. (s \ {y}) \ {f} = rest
      OBVIOUS
    <2>2. QED BY <1>3, <1>4, <1>5, <2>1
  <1>8. w[f] \in Int /\ w[y] \in Int /\ SumOver(w, rest) \in Int
    <2>1. IsFiniteSet(rest)
      BY <1>2, FS_Subset
    <2>2. QED BY <1>2, <1>3, <1>4, <2>1, SumInt
  <1> HIDE DEF rest
  <1>9. QED BY <1>3, <1>4, <1>6, <1>7, <1>8

LEMMA SumAdd ==
    ASSUME NEW S, IsFiniteSet(S), NEW w, \A x \in S : w[x] \in Int,
           NEW x, x \notin S, w[x] \in Int
    PROVE  SumOver(w, S \cup {x}) = w[x] + SumOver(w, S)
  <1>1. (S \cup {x}) \ {x} = S /\ x \in S \cup {x}
    OBVIOUS
  <1>2. IsFiniteSet(S \cup {x}) /\ \A y \in S \cup {x} : w[y] \in Int
    BY FS_AddElement
  <1>3. QED BY <1>1, <1>2, SumRemove

LEMMA SumSingle ==
    ASSUME NEW x, NEW w, w[x] \in Int
    PROVE  SumOver(w, {x}) = w[x]
  <1>1. SumOver(w, {} \cup {x}) = w[x] + SumOver(w, {})
    BY FS_EmptySet, SumAdd
  <1>2. {} \cup {x} = {x}
    OBVIOUS
  <1>3. QED BY <1>1, <1>2, SumEmpty

\* Only the weights of the members count.
LEMMA SumEqual ==
    ASSUME NEW S, IsFiniteSet(S), NEW w, NEW v, \A x \in S : w[x] = v[x] /\ w[x] \in Int
    PROVE  SumOver(w, S) = SumOver(v, S)
  <1> DEFINE C == {s \in SUBSET S : SumOver(w, s) = SumOver(v, s)}
  <1>1. {} \in C
    BY SumEmpty
  <1>2. ASSUME NEW s \in C, NEW x \in S \ s
        PROVE  s \cup {x} \in C
    <2>1. IsFiniteSet(s)
      BY FS_Subset
    <2>2. SumOver(w, s \cup {x}) = w[x] + SumOver(w, s)
      BY <2>1, SumAdd
    <2>3. SumOver(v, s \cup {x}) = v[x] + SumOver(v, s)
      BY <2>1, SumAdd
    <2>4. QED BY <2>2, <2>3
  <1>3. S \in C
    <2>1. C \in SUBSET (SUBSET S)
      OBVIOUS
    <2> HIDE DEF C
    <2>2. QED BY <1>1, <1>2, <2>1, SetInduction
  <1>4. QED BY <1>3

\* Sums over disjoint sets add up.
LEMMA SumUnion ==
    ASSUME NEW S, IsFiniteSet(S), NEW T, IsFiniteSet(T), S \cap T = {},
           NEW w, \A x \in S \cup T : w[x] \in Int
    PROVE  SumOver(w, S \cup T) = SumOver(w, S) + SumOver(w, T)
  <1> DEFINE C == {t \in SUBSET T : SumOver(w, S \cup t) = SumOver(w, S) + SumOver(w, t)}
  <1>1. SumOver(w, S) \in Int
    BY SumInt
  <1>2. {} \in C
    <2>1. S \cup {} = S
      OBVIOUS
    <2>2. QED BY <1>1, <2>1, SumEmpty
  <1>3. ASSUME NEW t \in C, NEW x \in T \ t
        PROVE  t \cup {x} \in C
    <2>1. IsFiniteSet(t) /\ IsFiniteSet(S \cup t)
      BY FS_Subset, FS_Union
    <2>2. SumOver(w, t \cup {x}) = w[x] + SumOver(w, t)
      BY <2>1, SumAdd
    <2>3. SumOver(w, (S \cup t) \cup {x}) = w[x] + SumOver(w, S \cup t)
      <3>1. \A y \in S \cup t : w[y] \in Int
        OBVIOUS
      <3>2. x \notin S \cup t /\ w[x] \in Int
        OBVIOUS
      <3>3. QED BY <2>1, <3>1, <3>2, SumAdd
    <2>4. SumOver(w, t) \in Int /\ w[x] \in Int
      BY <2>1, SumInt
    <2>5. (S \cup t) \cup {x} = S \cup (t \cup {x})
      OBVIOUS
    <2>6. SumOver(w, S \cup (t \cup {x})) = SumOver(w, S) + SumOver(w, t \cup {x})
      <3>1. SumOver(w, S \cup t) = SumOver(w, S) + SumOver(w, t)
        OBVIOUS
      <3>2. SumOver(w, S \cup (t \cup {x})) = w[x] + SumOver(w, S \cup t)
        BY <2>3, <2>5
      <3>3. QED BY <1>1, <2>2, <2>4, <3>1, <3>2
    <2>7. QED BY <2>6
  <1>4. T \in C
    <2>1. C \in SUBSET (SUBSET T)
      OBVIOUS
    <2> HIDE DEF C
    <2>2. QED BY <1>2, <1>3, <2>1, SetInduction
  <1>5. QED BY <1>4

\* A sum can be taken over other names of the members.
LEMMA SumRenamed ==
    ASSUME NEW S, IsFiniteSet(S), NEW w, \A x \in S : w[x] \in Int,
           NEW f, \A x, y \in S : f[x] = f[y] => x = y,
           NEW v, \A x \in S : v[f[x]] = w[x]
    PROVE  /\ IsFiniteSet({f[x] : x \in S})
           /\ SumOver(v, {f[x] : x \in S}) = SumOver(w, S)
  <1> DEFINE Image(s) == {f[x] : x \in s}
             C == {s \in SUBSET S : /\ IsFiniteSet(Image(s))
                                    /\ SumOver(v, Image(s)) = SumOver(w, s)}
  <1>1. {} \in C
    <2>1. Image({}) = {}
      OBVIOUS
    <2>2. QED BY <2>1, SumEmpty, FS_EmptySet
  <1>2. ASSUME NEW s \in C, NEW x \in S \ s
        PROVE  s \cup {x} \in C
    <2>1. Image(s \cup {x}) = Image(s) \cup {f[x]} /\ f[x] \notin Image(s)
      OBVIOUS
    <2>2. IsFiniteSet(Image(s)) /\ SumOver(v, Image(s)) = SumOver(w, s)
      OBVIOUS
    <2>3. (\A y \in Image(s) : v[y] \in Int) /\ v[f[x]] = w[x] /\ w[x] \in Int
      OBVIOUS
    <2>4. IsFiniteSet(s)
      BY FS_Subset
    <2>5. SumOver(w, s \cup {x}) = w[x] + SumOver(w, s)
      BY <2>4, SumAdd
    <2> HIDE DEF Image
    <2>6. SumOver(v, Image(s) \cup {f[x]}) = v[f[x]] + SumOver(v, Image(s))
      <3>1. v[f[x]] \in Int
        BY <2>3
      <3>2. IsFiniteSet(Image(s)) /\ \A y \in Image(s) : v[y] \in Int
        BY <2>2, <2>3
      <3>3. QED BY <2>1, <3>1, <3>2, SumAdd
    <2>7. IsFiniteSet(Image(s \cup {x}))
      <3>1. IsFiniteSet(Image(s) \cup {f[x]})
        BY <2>2, FS_AddElement
      <3>2. QED BY <2>1, <3>1
    <2>8. SumOver(v, Image(s \cup {x})) = SumOver(w, s \cup {x})
      BY <2>1, <2>2, <2>3, <2>5, <2>6
    <2>9. QED BY <2>7, <2>8
  <1>3. S \in C
    <2>1. C \in SUBSET (SUBSET S)
      OBVIOUS
    <2> HIDE DEF C
    <2>2. QED BY <1>1, <1>2, <2>1, SetInduction
  <1>4. QED BY <1>3

\* The sum of the differences of two weights.
LEMMA SumMinus ==
    ASSUME NEW S, IsFiniteSet(S), NEW w, \A x \in S : w[x] \in Int,
           NEW v, \A x \in S : v[x] \in Int,
           NEW u, \A x \in S : u[x] = w[x] - v[x]
    PROVE  SumOver(u, S) = SumOver(w, S) - SumOver(v, S)
  <1> DEFINE C == {s \in SUBSET S : SumOver(u, s) = SumOver(w, s) - SumOver(v, s)}
  <1>1. {} \in C
    BY SumEmpty
  <1>2. ASSUME NEW s \in C, NEW x \in S \ s
        PROVE  s \cup {x} \in C
    <2>1. IsFiniteSet(s)
      BY FS_Subset
    <2>2. \A y \in S : u[y] \in Int
      OBVIOUS
    <2>3. /\ SumOver(w, s \cup {x}) = w[x] + SumOver(w, s)
          /\ SumOver(v, s \cup {x}) = v[x] + SumOver(v, s)
          /\ SumOver(u, s \cup {x}) = u[x] + SumOver(u, s)
      BY <2>1, <2>2, SumAdd
    <2>4. /\ SumOver(w, s) \in Int /\ SumOver(v, s) \in Int
          /\ w[x] \in Int /\ v[x] \in Int /\ u[x] = w[x] - v[x]
      BY <2>1, SumInt
    <2>5. SumOver(u, s) = SumOver(w, s) - SumOver(v, s)
      OBVIOUS
    <2>6. SumOver(u, s \cup {x}) = SumOver(w, s \cup {x}) - SumOver(v, s \cup {x})
      BY <2>3, <2>4, <2>5
    <2>7. QED BY <2>6
  <1>3. S \in C
    <2>1. C \in SUBSET (SUBSET S)
      OBVIOUS
    <2> HIDE DEF C
    <2>2. QED BY <1>1, <1>2, <2>1, SetInduction
  <1>4. QED BY <1>3

\* Equal weights add up to their number times the weight.
LEMMA SumConstant ==
    ASSUME NEW S, IsFiniteSet(S), NEW c \in Int, NEW w, \A x \in S : w[x] = c
    PROVE  SumOver(w, S) = Cardinality(S) * c
  <1> DEFINE C == {s \in SUBSET S : SumOver(w, s) = Cardinality(s) * c}
  <1>1. {} \in C
    <2>1. Cardinality({}) = 0
      BY FS_EmptySet
    <2>2. QED BY <2>1, SumEmpty
  <1>2. ASSUME NEW s \in C, NEW x \in S \ s
        PROVE  s \cup {x} \in C
    <2>1. IsFiniteSet(s)
      BY FS_Subset
    <2>2. SumOver(w, s \cup {x}) = c + SumOver(w, s)
      <3>1. x \notin s /\ w[x] \in Int /\ w[x] = c /\ \A y \in s : w[y] \in Int
        OBVIOUS
      <3>2. QED BY <2>1, <3>1, SumAdd
    <2>3. Cardinality(s \cup {x}) = Cardinality(s) + 1 /\ Cardinality(s) \in Nat
      BY <2>1, FS_AddElement, FS_CardinalityType
    <2>4. SumOver(w, s) = Cardinality(s) * c
      OBVIOUS
    <2>5. \A k \in Nat : c + k * c = (k + 1) * c
      OBVIOUS
    <2>6. SumOver(w, s \cup {x}) = Cardinality(s \cup {x}) * c
      BY <2>2, <2>3, <2>4, <2>5
    <2>7. QED BY <2>6
  <1>3. C \in SUBSET (SUBSET S)
    OBVIOUS
  <1> HIDE DEF C
  <1>4. S \in C
    BY <1>1, <1>2, <1>3, SetInduction
  <1>5. QED BY <1>4 DEF C

\* Weights that are all 0 add up to 0.
LEMMA SumOfZeroes ==
    ASSUME NEW S, IsFiniteSet(S), NEW w, \A x \in S : w[x] = 0
    PROVE  SumOver(w, S) = 0
  <1>1. \A x \in S : w[x] \in Int /\ w[x] = w[x] - w[x]
    OBVIOUS
  <1>2. SumOver(w, S) = SumOver(w, S) - SumOver(w, S) /\ SumOver(w, S) \in Int
    BY <1>1, SumMinus, SumInt
  <1>3. QED BY <1>2

\* Natural weights add up to a natural number.
LEMMA SumNat ==
    ASSUME NEW S, IsFiniteSet(S), NEW w, \A x \in S : w[x] \in Nat
    PROVE  SumOver(w, S) \in Nat
  <1> DEFINE C == {s \in SUBSET S : SumOver(w, s) \in Nat}
  <1>1. {} \in C
    BY SumEmpty
  <1>2. ASSUME NEW s \in C, NEW x \in S \ s
        PROVE  s \cup {x} \in C
    <2>1. IsFiniteSet(s)
      BY FS_Subset
    <2>2. SumOver(w, s \cup {x}) = w[x] + SumOver(w, s)
      <3>1. x \notin s /\ w[x] \in Int /\ \A y \in s : w[y] \in Int
        OBVIOUS
      <3>2. QED BY <2>1, <3>1, SumAdd
    <2>3. w[x] \in Nat /\ SumOver(w, s) \in Nat
      OBVIOUS
    <2>4. QED BY <2>2, <2>3
  <1>3. C \in SUBSET (SUBSET S)
    OBVIOUS
  <1> HIDE DEF C
  <1>4. S \in C
    BY <1>1, <1>2, <1>3, SetInduction
  <1>5. QED BY <1>4 DEF C

\* A set can be summed part by part: f says in which part a member is.
LEMMA SumByParts ==
    ASSUME NEW A, IsFiniteSet(A), NEW S, IsFiniteSet(S),
           NEW w, \A x \in S : w[x] \in Int, NEW f, \A x \in S : f[x] \in A
    PROVE  SumOver([a \in A |-> SumOver(w, {x \in S : f[x] = a})], A) = SumOver(w, S)
  <1> DEFINE Part(s, a) == {x \in s : f[x] = a}
             v(s) == [a \in A |-> SumOver(w, Part(s, a))]
             C == {s \in SUBSET S : SumOver(v(s), A) = SumOver(w, s)}
  <1>0. ASSUME NEW s \in SUBSET S
        PROVE  /\ IsFiniteSet(s)
               /\ \A a \in A : IsFiniteSet(Part(s, a)) /\ v(s)[a] = SumOver(w, Part(s, a))
               /\ \A a \in A : v(s)[a] \in Int
    <2>1. IsFiniteSet(s)
      BY FS_Subset
    <2>2. ASSUME NEW a \in A
          PROVE  IsFiniteSet(Part(s, a)) /\ v(s)[a] = SumOver(w, Part(s, a)) /\ v(s)[a] \in Int
      <3>1. Part(s, a) \in SUBSET s /\ v(s)[a] = SumOver(w, Part(s, a))
        OBVIOUS
      <3> HIDE DEF Part, v
      <3>2. IsFiniteSet(Part(s, a)) /\ \A x \in Part(s, a) : w[x] \in Int
        BY <2>1, <3>1, FS_Subset
      <3>3. SumOver(w, Part(s, a)) \in Int
        BY <3>2, SumInt
      <3>4. QED BY <3>1, <3>2, <3>3
    <2> HIDE DEF Part, v
    <2>3. QED BY <2>1, <2>2
  <1>1. {} \in C
    <2>1. \A a \in A : Part({}, a) = {} /\ v({})[a] = SumOver(w, Part({}, a))
      OBVIOUS
    <2> HIDE DEF Part, v
    <2>2. \A a \in A : v({})[a] = 0
      BY <2>1, SumEmpty
    <2>3. SumOver(v({}), A) = 0 /\ SumOver(w, {}) = 0
      BY <2>2, SumOfZeroes, SumEmpty
    <2>4. QED BY <2>3
  <1>2. ASSUME NEW s \in C, NEW x \in S \ s
        PROVE  s \cup {x} \in C
    <2> DEFINE b == f[x]
               more == s \cup {x}
               Rest == A \ {b}
    <2>1. s \in SUBSET S /\ more \in SUBSET S /\ b \in A /\ w[x] \in Int
      OBVIOUS
    <2>2. /\ Part(more, b) = Part(s, b) \cup {x} /\ x \notin Part(s, b)
          /\ \A a \in Rest : Part(more, a) = Part(s, a)
      OBVIOUS
    <2>3. SumOver(v(s), A) = SumOver(w, s) /\ \A y \in Part(s, b) : w[y] \in Int
      OBVIOUS
    <2>4. IsFiniteSet(Rest) /\ Rest \subseteq A
      BY FS_Subset
    <2> HIDE DEF Part, v, C, more, b, Rest
    <2>5. SumOver(w, Part(more, b)) = w[x] + SumOver(w, Part(s, b))
      <3>1. IsFiniteSet(Part(s, b))
        BY <1>0, <2>1
      <3>2. SumOver(w, Part(s, b) \cup {x}) = w[x] + SumOver(w, Part(s, b))
        BY <2>1, <2>2, <2>3, <3>1, SumAdd
      <3>3. QED BY <2>2, <3>2
    <2>6. v(more)[b] = w[x] + v(s)[b]
      BY <1>0, <2>1, <2>5
    <2>7. SumOver(v(more), Rest) = SumOver(v(s), Rest)
      <3>1. \A a \in Rest : v(more)[a] = v(s)[a] /\ v(more)[a] \in Int
        BY <1>0, <2>1, <2>2, <2>4
      <3>2. QED BY <2>4, <3>1, SumEqual
    <2>8. /\ SumOver(v(more), A) = v(more)[b] + SumOver(v(more), Rest)
          /\ SumOver(v(s), A) = v(s)[b] + SumOver(v(s), Rest)
      <3>1. \A a \in A : v(more)[a] \in Int
        BY <1>0, <2>1
      <3>2. \A a \in A : v(s)[a] \in Int
        BY <1>0, <2>1
      <3>3. QED BY <2>1, <3>1, <3>2, SumRemove DEF Rest
    <2>9. v(s)[b] \in Int /\ SumOver(v(s), Rest) \in Int
      <3>1. \A a \in A : v(s)[a] \in Int
        BY <1>0, <2>1
      <3>2. SumOver(v(s), Rest) \in Int
        BY <2>4, <3>1, SumInt
      <3>3. QED BY <2>1, <3>1, <3>2
    <2>10. SumOver(w, more) = w[x] + SumOver(w, s)
      <3>1. IsFiniteSet(s) /\ \A y \in s : w[y] \in Int
        BY <1>0, <2>1
      <3>2. x \notin s
        OBVIOUS
      <3>3. QED BY <2>1, <3>1, <3>2, SumAdd DEF more
    <2>11. SumOver(v(more), A) = SumOver(w, more)
      <3> DEFINE m == SumOver(v(more), A)
                 n == SumOver(v(s), A)
                 r == SumOver(v(s), Rest)
                 c == v(s)[b]
      <3>1. m = (w[x] + c) + r /\ n = c + r /\ c \in Int /\ r \in Int /\ w[x] \in Int
        BY <2>1, <2>6, <2>7, <2>8, <2>9
      <3> HIDE DEF m, n, r, c
      <3>2. m = w[x] + n
        BY <3>1
      <3>3. m = w[x] + SumOver(w, s)
        BY <2>3, <3>2 DEF n
      <3>4. QED BY <2>10, <3>3 DEF m
    <2>12. QED BY <2>1, <2>11 DEF C, more
  <1>3. C \in SUBSET (SUBSET S)
    OBVIOUS
  <1>4. S \in C
    <2> HIDE DEF C
    <2>1. QED BY <1>1, <1>2, <1>3, SetInduction
  <1>5. QED BY <1>4

-----------------------------------------------------------------------------
(* Sums along a sequence *)

\* Induction on the numbers up to n.
LEMMA CountingUp ==
    ASSUME NEW n \in Nat, NEW P, 0 \in P, \A i \in 0..(n - 1) : i \in P => i + 1 \in P
    PROVE  \A i \in 0..n : i \in P
  <1> DEFINE S == {i \in 0..n : i \notin P}
  <1> SUFFICES ASSUME S # {}
               PROVE  FALSE
    OBVIOUS
  <1>1. IsWellFoundedOn(OpToRel(<, Nat), Nat)
    BY NatLessThanWellFounded
  <1>2. S \subseteq Nat
    OBVIOUS
  <1>3. PICK i \in S : \A k \in S : ~(<<k, i>> \in OpToRel(<, Nat))
    <2> HIDE DEF S
    <2>1. QED BY <1>1, <1>2, WFMin
  <1>4. \A k \in S : ~(k < i)
    BY <1>2, <1>3 DEF OpToRel
  <1>5. i \in 1..n
    OBVIOUS
  <1>6. i - 1 \in 0..(n - 1) /\ i - 1 \notin S
    BY <1>4, <1>5
  <1>7. i - 1 \in P
    BY <1>6
  <1>8. (i - 1) + 1 \in P
    BY <1>6, <1>7
  <1>9. QED BY <1>5, <1>8

\* A loop over 1..n runs: its state after each turn is what the turn makes of the
\* state before it.
Runs(g, n, base, turn) ==
    g[0] = base /\ \A i \in 1..n : g[i] = turn[<<i, g[i - 1]>>]
LEMMA LoopRuns ==
    ASSUME NEW n \in Nat, NEW V, NEW base \in V, NEW turn \in [(1..n) \X V -> V]
    PROVE  \E g \in [0..n -> V] : Runs(g, n, base, turn)
  <1> DEFINE P == {m \in 0..n : \E g \in [0..m -> V] : Runs(g, m, base, turn)}
  <1>1. 0 \in P
    <2> DEFINE g == [i \in 0..0 |-> base]
    <2>1. g \in [0..0 -> V] /\ Runs(g, 0, base, turn)
      BY DEF Runs
    <2>2. QED BY <2>1
  <1>2. ASSUME NEW m \in 0..(n - 1), m \in P
        PROVE  m + 1 \in P
    <2>1. PICK g \in [0..m -> V] : Runs(g, m, base, turn)
      BY <1>2
    <2> DEFINE h == [i \in 0..(m + 1) |-> IF i = m + 1 THEN turn[<<m + 1, g[m]>>] ELSE g[i]]
    <2>2. turn[<<m + 1, g[m]>>] \in V
      BY <1>2
    <2>3. h \in [0..(m + 1) -> V]
      BY <2>2
    <2>4. h[m + 1] = turn[<<m + 1, g[m]>>] /\ \A i \in 0..m : h[i] = g[i]
      OBVIOUS
    <2> HIDE DEF h
    <2>5. ASSUME NEW i \in 1..(m + 1)
          PROVE  h[i] = turn[<<i, h[i - 1]>>]
      <3>1. CASE i = m + 1
        <4>1. i - 1 = m /\ h[m] = g[m]
          BY <2>4, <3>1
        <4>2. QED BY <2>4, <3>1, <4>1
      <3>2. CASE i # m + 1
        <4>1. i \in 1..m /\ i \in 0..m /\ i - 1 \in 0..m
          BY <3>2
        <4>2. g[i] = turn[<<i, g[i - 1]>>]
          BY <2>1, <4>1 DEF Runs
        <4>3. QED BY <2>4, <4>1, <4>2
      <3>3. QED BY <3>1, <3>2
    <2>6. h[0] = base
      BY <2>1, <2>4 DEF Runs
    <2>7. Runs(h, m + 1, base, turn)
      BY <2>5, <2>6 DEF Runs
    <2>8. QED BY <2>3, <2>7
  <1>3. \A i \in 0..n : i \in P
    <2> HIDE DEF P
    <2>1. QED BY <1>1, <1>2, CountingUp
  <1>4. QED BY <1>3

\* The sum of the first weights of a sequence.
SumUpTo(w, i) == SumOver(w, 1..i)
LEMMA SumUpToSteps ==
    ASSUME NEW n \in Nat, NEW w, \A i \in 1..n : w[i] \in Int
    PROVE  /\ SumUpTo(w, 0) = 0
           /\ \A i \in 1..n : SumUpTo(w, i) = SumUpTo(w, i - 1) + w[i]
           /\ \A i \in 0..n : SumUpTo(w, i) \in Int
  <1>1. SumUpTo(w, 0) = 0
    <2>1. 1..0 = {}
      OBVIOUS
    <2>2. QED BY <2>1, SumEmpty DEF SumUpTo
  <1>2. ASSUME NEW i \in 0..n
        PROVE  /\ SumUpTo(w, i) \in Int
               /\ IsFiniteSet(1..i) /\ \A k \in 1..i : w[k] \in Int
    <2>1. IsFiniteSet(1..i)
      BY FS_Interval
    <2>2. \A k \in 1..i : w[k] \in Int
      OBVIOUS
    <2>3. QED BY <2>1, <2>2, SumInt DEF SumUpTo
  <1>3. ASSUME NEW i \in 1..n
        PROVE  SumUpTo(w, i) = SumUpTo(w, i - 1) + w[i]
    <2> DEFINE S == 1..(i - 1)
    <2>1. i - 1 \in 0..n /\ i \notin S /\ S \cup {i} = 1..i /\ w[i] \in Int
      OBVIOUS
    <2>2. IsFiniteSet(S) /\ (\A k \in S : w[k] \in Int) /\ SumUpTo(w, i - 1) \in Int
      BY <1>2, <2>1
    <2>3. SumUpTo(w, i - 1) = SumOver(w, S) /\ SumUpTo(w, i) = SumOver(w, S \cup {i})
      BY <2>1 DEF SumUpTo
    <2> HIDE DEF S
    <2>4. SumOver(w, S \cup {i}) = w[i] + SumOver(w, S)
      BY <2>1, <2>2, SumAdd
    <2>5. QED BY <2>1, <2>2, <2>3, <2>4
  <1>4. QED BY <1>1, <1>2, <1>3

\* What lies between two places of the sequence.
LEMMA SumBetween ==
    ASSUME NEW n \in Nat, NEW w, \A i \in 1..n : w[i] \in Int,
           NEW b \in 0..n, NEW a \in 0..b
    PROVE  SumOver(w, (a + 1)..b) = SumUpTo(w, b) - SumUpTo(w, a)
  <1> DEFINE S == 1..a
             T == (a + 1)..b
  <1>1. S \cup T = 1..b /\ S \cap T = {} /\ \A i \in S \cup T : w[i] \in Int
    OBVIOUS
  <1>2. IsFiniteSet(S) /\ IsFiniteSet(T)
    BY FS_Interval
  <1>3. SumUpTo(w, a) = SumOver(w, S) /\ SumUpTo(w, b) = SumOver(w, S \cup T)
    BY <1>1 DEF SumUpTo
  <1> HIDE DEF S, T
  <1>4. SumOver(w, S \cup T) = SumOver(w, S) + SumOver(w, T)
    BY <1>1, <1>2, SumUnion
  <1>5. SumOver(w, S) \in Int /\ SumOver(w, T) \in Int
    BY <1>1, <1>2, SumInt
  <1>6. SumOver(w, T) = SumUpTo(w, b) - SumUpTo(w, a)
    BY <1>3, <1>4, <1>5
  <1>7. QED BY <1>6 DEF T

\* Weights of one sign between two places.
LEMMA SumUpToMonotone ==
    ASSUME NEW n \in Nat, NEW w, \A i \in 1..n : w[i] \in Int,
           NEW b \in 0..n, NEW a \in 0..b
    PROVE  /\ (\A i \in (a + 1)..b : w[i] >= 0) => SumUpTo(w, a) <= SumUpTo(w, b)
           /\ (\A i \in (a + 1)..b : w[i] <= 0) => SumUpTo(w, a) >= SumUpTo(w, b)
  <1> DEFINE u == [i \in 0..n |-> SumUpTo(w, i)]
  <1>1. \A i \in 0..n : SumUpTo(w, i) = u[i] /\ u[i] \in Int
    BY SumUpToSteps
  <1>2. \A i \in 1..n : SumUpTo(w, i) = SumUpTo(w, i - 1) + w[i]
    BY SumUpToSteps
  <1>3. \A i \in 1..n : i - 1 \in 0..n /\ i \in 0..n
    OBVIOUS
  <1>4. \A i \in 1..n : u[i] = u[i - 1] + w[i]
    <2> HIDE DEF u
    <2>1. QED BY <1>1, <1>2, <1>3
  <1> HIDE DEF u
  <1>5. ASSUME \A i \in (a + 1)..b : w[i] >= 0
        PROVE  SumUpTo(w, a) <= SumUpTo(w, b)
    <2> DEFINE P == {i \in 0..(b - a) : u[a] <= u[a + i]}
    <2>1. 0 \in P
      BY <1>1
    <2>2. ASSUME NEW i \in 0..((b - a) - 1), i \in P
          PROVE  i + 1 \in P
      <3>1. /\ u[a + (i + 1)] = u[a + i] + w[a + (i + 1)] /\ w[a + (i + 1)] >= 0
            /\ w[a + (i + 1)] \in Int
        <4>1. a + (i + 1) \in (a + 1)..b /\ a + (i + 1) \in 1..n /\ (a + (i + 1)) - 1 = a + i
          OBVIOUS
        <4>2. QED BY <1>4, <1>5, <4>1
      <3>2. u[a] <= u[a + i] /\ u[a + i] \in Int /\ u[a] \in Int
        BY <1>1, <2>2
      <3>3. QED BY <3>1, <3>2
    <2>3. \A i \in 0..(b - a) : i \in P
      <3> HIDE DEF P
      <3>1. b - a \in Nat
        OBVIOUS
      <3>2. QED BY <2>1, <2>2, <3>1, CountingUp
    <2>4. b - a \in P /\ a + (b - a) = b /\ a \in 0..n
      BY <2>3
    <2>5. u[a] <= u[b]
      BY <2>4
    <2>6. QED BY <1>1, <2>4, <2>5
  <1>6. ASSUME \A i \in (a + 1)..b : w[i] <= 0
        PROVE  SumUpTo(w, a) >= SumUpTo(w, b)
    <2> DEFINE P == {i \in 0..(b - a) : u[a] >= u[a + i]}
    <2>1. 0 \in P
      BY <1>1
    <2>2. ASSUME NEW i \in 0..((b - a) - 1), i \in P
          PROVE  i + 1 \in P
      <3>1. /\ u[a + (i + 1)] = u[a + i] + w[a + (i + 1)] /\ w[a + (i + 1)] <= 0
            /\ w[a + (i + 1)] \in Int
        <4>1. a + (i + 1) \in (a + 1)..b /\ a + (i + 1) \in 1..n /\ (a + (i + 1)) - 1 = a + i
          OBVIOUS
        <4>2. QED BY <1>4, <1>6, <4>1
      <3>2. u[a] >= u[a + i] /\ u[a + i] \in Int /\ u[a] \in Int
        BY <1>1, <2>2
      <3>3. QED BY <3>1, <3>2
    <2>3. \A i \in 0..(b - a) : i \in P
      <3> HIDE DEF P
      <3>1. b - a \in Nat
        OBVIOUS
      <3>2. QED BY <2>1, <2>2, <3>1, CountingUp
    <2>4. b - a \in P /\ a + (b - a) = b /\ a \in 0..n
      BY <2>3
    <2>5. u[a] >= u[b]
      BY <2>4
    <2>6. QED BY <1>1, <2>4, <2>5
  <1>7. QED BY <1>5, <1>6
=============================================================================
