----------------------- MODULE ReportRequests_proofs -----------------------
(***************************************************************************)
(* The reports of a book agree, whatever was posted, reversed and closed,  *)
(* and HomeTax filings are answered with their receipts: for any calendar, *)
(* any entries and any accounts of the catalog.                            *)
(***************************************************************************)
EXTENDS ReportRequests, Sums_proofs

-----------------------------------------------------------------------------
(* The sums of BookReports as sums of weights *)

\* EntriesAssumption sums what the lines of an entry debit and credit.
LEMMA LinesAdd ==
    ASSUME NEW S, IsFiniteSet(S)
    PROVE  MapThenSumSet(LAMBDA x : x.debit - x.credit, S)
             = SumOver([x \in S |-> x.debit - x.credit], S)
  <1> DEFINE w == [x \in S |-> x.debit - x.credit]
             Folds(g) == g = [s \in SUBSET S |->
                IF s = {} THEN 0 ELSE (First(s).debit - First(s).credit) + g[s \ {First(s)}]]
             fold == CHOOSE g : Folds(g)
  <1>1. MapThenSumSet(LAMBDA x : x.debit - x.credit, S) = fold[S]
    BY DEF MapThenSumSet, MapThenFoldSet, First
  <1>2. \A s \in SUBSET S : s # {} => w[First(s)] = First(s).debit - First(s).credit
    BY FirstIsMember
  <1>3. ASSUME NEW g
        PROVE  Folds(g) <=> Sums(g, w, S)
    <2>1. [s \in SUBSET S |->
             IF s = {} THEN 0 ELSE (First(s).debit - First(s).credit) + g[s \ {First(s)}]]
            = [s \in SUBSET S |-> IF s = {} THEN 0 ELSE w[First(s)] + g[s \ {First(s)}]]
      BY <1>2
    <2> HIDE DEF w
    <2>2. QED BY <2>1 DEF Sums
  <1>4. \E g : Folds(g)
    BY <1>3, SumsExist
  <1> HIDE DEF Folds
  <1>5. Folds(fold)
    BY <1>4
  <1> HIDE DEF fold, w
  <1>6. Sums(fold, w, S)
    BY <1>3, <1>5
  <1>7. SumOver(w, S) = fold[S]
    BY <1>6, SumsGive
  <1>8. MapThenSumSet(LAMBDA x : x.debit - x.credit, S) = SumOver(w, S)
    BY <1>1, <1>7
  <1>9. QED BY <1>8 DEF w

\* Sides sums one side of lines, each paired with its journal's reference.
LEMMA DebitsAdd ==
    ASSUME NEW S, IsFiniteSet(S)
    PROVE  MapThenSumSet(LAMBDA l : l[2].debit, S) = SumOver([l \in S |-> l[2].debit], S)
  <1> DEFINE w == [l \in S |-> l[2].debit]
             Folds(g) == g = [s \in SUBSET S |->
                IF s = {} THEN 0 ELSE First(s)[2].debit + g[s \ {First(s)}]]
             fold == CHOOSE g : Folds(g)
  <1>1. MapThenSumSet(LAMBDA l : l[2].debit, S) = fold[S]
    BY DEF MapThenSumSet, MapThenFoldSet, First
  <1>2. \A s \in SUBSET S : s # {} => w[First(s)] = First(s)[2].debit
    BY FirstIsMember
  <1>3. ASSUME NEW g
        PROVE  Folds(g) <=> Sums(g, w, S)
    <2>1. [s \in SUBSET S |-> IF s = {} THEN 0 ELSE First(s)[2].debit + g[s \ {First(s)}]]
            = [s \in SUBSET S |-> IF s = {} THEN 0 ELSE w[First(s)] + g[s \ {First(s)}]]
      BY <1>2
    <2> HIDE DEF w
    <2>2. QED BY <2>1 DEF Sums
  <1>4. \E g : Folds(g)
    BY <1>3, SumsExist
  <1> HIDE DEF Folds
  <1>5. Folds(fold)
    BY <1>4
  <1> HIDE DEF fold, w
  <1>6. Sums(fold, w, S)
    BY <1>3, <1>5
  <1>7. SumOver(w, S) = fold[S]
    BY <1>6, SumsGive
  <1>8. MapThenSumSet(LAMBDA l : l[2].debit, S) = SumOver(w, S)
    BY <1>1, <1>7
  <1>9. QED BY <1>8 DEF w
LEMMA CreditsAdd ==
    ASSUME NEW S, IsFiniteSet(S)
    PROVE  MapThenSumSet(LAMBDA l : l[2].credit, S) = SumOver([l \in S |-> l[2].credit], S)
  <1> DEFINE w == [l \in S |-> l[2].credit]
             Folds(g) == g = [s \in SUBSET S |->
                IF s = {} THEN 0 ELSE First(s)[2].credit + g[s \ {First(s)}]]
             fold == CHOOSE g : Folds(g)
  <1>1. MapThenSumSet(LAMBDA l : l[2].credit, S) = fold[S]
    BY DEF MapThenSumSet, MapThenFoldSet, First
  <1>2. \A s \in SUBSET S : s # {} => w[First(s)] = First(s)[2].credit
    BY FirstIsMember
  <1>3. ASSUME NEW g
        PROVE  Folds(g) <=> Sums(g, w, S)
    <2>1. [s \in SUBSET S |-> IF s = {} THEN 0 ELSE First(s)[2].credit + g[s \ {First(s)}]]
            = [s \in SUBSET S |-> IF s = {} THEN 0 ELSE w[First(s)] + g[s \ {First(s)}]]
      BY <1>2
    <2> HIDE DEF w
    <2>2. QED BY <2>1 DEF Sums
  <1>4. \E g : Folds(g)
    BY <1>3, SumsExist
  <1> HIDE DEF Folds
  <1>5. Folds(fold)
    BY <1>4
  <1> HIDE DEF fold, w
  <1>6. Sums(fold, w, S)
    BY <1>3, <1>5
  <1>7. SumOver(w, S) = fold[S]
    BY <1>6, SumsGive
  <1>8. MapThenSumSet(LAMBDA l : l[2].credit, S) = SumOver(w, S)
    BY <1>1, <1>7
  <1>9. QED BY <1>8 DEF w

\* SumNet sums the balances of accounts.
LEMMA SumNetAdds ==
    ASSUME NEW t, NEW A \in SUBSET Accounts
    PROVE  IsFiniteSet(A) /\ SumNet(t, A) = SumOver([a \in Accounts |-> Net(t[a])], A)
  <1> DEFINE w == [a \in Accounts |-> Net(t[a])]
             Folds(g) == g = [s \in SUBSET A |->
                IF s = {} THEN 0 ELSE Net(t[First(s)]) + g[s \ {First(s)}]]
             fold == CHOOSE g : Folds(g)
  <1>0. IsFiniteSet(A)
    BY FS_Subset, CatalogAssumption
  <1>1. SumNet(t, A) = fold[A]
    BY DEF SumNet, MapThenSumSet, MapThenFoldSet, First
  <1>2. \A s \in SUBSET A : s # {} => w[First(s)] = Net(t[First(s)])
    BY FirstIsMember
  <1>3. ASSUME NEW g
        PROVE  Folds(g) <=> Sums(g, w, A)
    <2>1. [s \in SUBSET A |-> IF s = {} THEN 0 ELSE Net(t[First(s)]) + g[s \ {First(s)}]]
            = [s \in SUBSET A |-> IF s = {} THEN 0 ELSE w[First(s)] + g[s \ {First(s)}]]
      BY <1>2
    <2> HIDE DEF w
    <2>2. QED BY <2>1 DEF Sums
  <1>4. \E g : Folds(g)
    BY <1>0, <1>3, SumsExist
  <1> HIDE DEF Folds
  <1>5. Folds(fold)
    BY <1>4
  <1> HIDE DEF fold, w
  <1>6. Sums(fold, w, A)
    BY <1>3, <1>5
  <1>7. SumOver(w, A) = fold[A]
    BY <1>0, <1>6, SumsGive
  <1>8. SumNet(t, A) = SumOver(w, A)
    BY <1>1, <1>7
  <1>9. QED BY <1>0, <1>8 DEF w

\* ClosingLines sums the balances it takes off.
LEMMA ParkedAdds ==
    ASSUME NEW s, NEW p, NEW A \in SUBSET Accounts
    PROVE  MapThenSumSet(LAMBDA a : -Net(Sides(Through(s, p), a)), A)
             = SumOver([a \in Accounts |-> -Net(Sides(Through(s, p), a))], A)
  <1> DEFINE Bal(a) == -Net(Sides(Through(s, p), a))
             w == [a \in Accounts |-> Bal(a)]
             Folds(g) == g = [x \in SUBSET A |->
                IF x = {} THEN 0 ELSE Bal(First(x)) + g[x \ {First(x)}]]
             fold == CHOOSE g : Folds(g)
  <1>0. IsFiniteSet(A)
    BY FS_Subset, CatalogAssumption
  <1>1. MapThenSumSet(LAMBDA a : Bal(a), A) = fold[A]
    BY DEF MapThenSumSet, MapThenFoldSet, First
  <1>2. \A x \in SUBSET A : x # {} => w[First(x)] = Bal(First(x))
    BY FirstIsMember
  <1>3. ASSUME NEW g
        PROVE  Folds(g) <=> Sums(g, w, A)
    <2>1. [x \in SUBSET A |-> IF x = {} THEN 0 ELSE Bal(First(x)) + g[x \ {First(x)}]]
            = [x \in SUBSET A |-> IF x = {} THEN 0 ELSE w[First(x)] + g[x \ {First(x)}]]
      BY <1>2
    <2> HIDE DEF w
    <2>2. QED BY <2>1 DEF Sums
  <1>4. \E g : Folds(g)
    BY <1>0, <1>3, SumsExist
  <1> HIDE DEF Folds
  <1>5. Folds(fold)
    BY <1>4
  <1> HIDE DEF fold, w
  <1>6. Sums(fold, w, A)
    BY <1>3, <1>5
  <1>7. SumOver(w, A) = fold[A]
    BY <1>0, <1>6, SumsGive
  <1>8. MapThenSumSet(LAMBDA a : Bal(a), A) = SumOver(w, A)
    BY <1>1, <1>7
  <1>9. QED BY <1>8 DEF w

-----------------------------------------------------------------------------
(* What journals book *)

LinesFit(lines) ==
    /\ lines \subseteq Line /\ IsFiniteSet(lines) /\ \A x \in lines : Booked(x)
    /\ SumOver([x \in lines |-> x.debit - x.credit], lines) = 0
ClosingAccounts == Income \cup {"310100"}
JournalFits(j) ==
    /\ j.period \in Periods /\ LinesFit(j.lines)
    /\ j.closing \in BOOLEAN
    /\ j.closing => \A x \in j.lines : x.account \in ClosingAccounts
JournalsFit(J) ==
    /\ IsFiniteSet(J)
    /\ \A j \in J : JournalFits(j)
    /\ \A j, k \in J : j.ref = k.ref => j = k

LEMMA PartFits ==
    ASSUME NEW J, NEW K, K \subseteq J, JournalsFit(J)
    PROVE  JournalsFit(K)
  BY FS_Subset DEF JournalsFit

\* The lines of journals on an account, as Sides takes them.
LinesOn(J, a) == UNION {{<<j.ref, x>> : x \in {y \in j.lines : y.account = a}} : j \in J}

LEMMA LinesOnUnion ==
    ASSUME NEW J, NEW K, NEW a
    PROVE  LinesOn(J \cup K, a) = LinesOn(J, a) \cup LinesOn(K, a)
  BY DEF LinesOn

LinesOf(j, a) == {x \in j.lines : x.account = a}
LEMMA LinesOnOne ==
    ASSUME NEW j, NEW a, LinesFit(j.lines)
    PROVE  /\ LinesOn({j}, a) = {<<j.ref, x>> : x \in LinesOf(j, a)}
           /\ IsFiniteSet(LinesOf(j, a)) /\ IsFiniteSet(LinesOn({j}, a))
  <1>1. LinesOn({j}, a) = {<<j.ref, x>> : x \in LinesOf(j, a)}
    BY DEF LinesOn, LinesOf
  <1>2. IsFiniteSet(LinesOf(j, a))
    BY FS_Subset DEF LinesFit, LinesOf
  <1>3. IsFiniteSet({<<j.ref, x>> : x \in LinesOf(j, a)})
    <2> DEFINE S == LinesOf(j, a)
               f == [x \in S |-> <<j.ref, x>>]
               w == [x \in S |-> 0]
               v == [y \in {f[x] : x \in S} |-> 0]
    <2>1. /\ \A x \in S : w[x] \in Int
          /\ \A x, y \in S : f[x] = f[y] => x = y
          /\ \A x \in S : v[f[x]] = w[x]
      OBVIOUS
    <2>2. {<<j.ref, x>> : x \in S} = {f[x] : x \in S} /\ IsFiniteSet(S)
      BY <1>2
    <2> HIDE DEF S, f, w, v
    <2>3. IsFiniteSet({f[x] : x \in S}) /\ SumOver(v, {f[x] : x \in S}) = SumOver(w, S)
      <3>1. \A x \in S : w[x] \in Int
        BY <2>1
      <3>2. \A x \in S : v[f[x]] = w[x]
        BY <2>1
      <3>3. \A x, y \in S : f[x] = f[y] => x = y
        BY <2>1
      <3>4. IsFiniteSet(S)
        BY <2>2
      <3>5. QED BY <3>1, <3>2, <3>3, <3>4, SumRenamed
    <2>4. IsFiniteSet({<<j.ref, x>> : x \in S})
      BY <2>2, <2>3
    <2>5. QED BY <2>4 DEF S
  <1>4. QED BY <1>1, <1>2, <1>3

LEMMA LinesOnFit ==
    ASSUME NEW J, JournalsFit(J), NEW a
    PROVE  /\ IsFiniteSet(LinesOn(J, a))
           /\ \A l \in LinesOn(J, a) : l[2].debit \in Int /\ l[2].credit \in Int
           /\ \A l \in LinesOn(J, a) : \E j \in J : l[1] = j.ref
  <1> DEFINE C == {s \in SUBSET J : IsFiniteSet(LinesOn(s, a))}
  <1>1. {} \in C
    BY FS_EmptySet DEF LinesOn
  <1>2. ASSUME NEW s \in C, NEW j \in J \ s
        PROVE  s \cup {j} \in C
    <2>1. LinesOn(s \cup {j}, a) = LinesOn(s, a) \cup LinesOn({j}, a)
      BY LinesOnUnion
    <2>2. LinesFit(j.lines)
      BY DEF JournalsFit, JournalFits
    <2>3. IsFiniteSet(LinesOn({j}, a))
      BY <2>2, LinesOnOne
    <2>4. IsFiniteSet(LinesOn(s, a))
      OBVIOUS
    <2>5. IsFiniteSet(LinesOn(s, a) \cup LinesOn({j}, a))
      BY <2>3, <2>4, FS_Union
    <2>6. QED BY <2>1, <2>5
  <1>3. C \in SUBSET (SUBSET J)
    OBVIOUS
  <1>4. J \in C
    <2> HIDE DEF C
    <2>1. IsFiniteSet(J)
      BY DEF JournalsFit
    <2>2. QED BY <1>1, <1>2, <1>3, <2>1, SetInduction
  <1>5. ASSUME NEW l \in LinesOn(J, a)
        PROVE  /\ l[2].debit \in Int /\ l[2].credit \in Int
               /\ \E j \in J : l[1] = j.ref
    <2>0. PICK j \in J : \E x \in j.lines : l = <<j.ref, x>>
      BY DEF LinesOn
    <2>1. PICK x \in j.lines : l = <<j.ref, x>>
      BY <2>0
    <2>2. x \in Line
      BY DEF JournalsFit, JournalFits, LinesFit
    <2>3. x.debit \in Int /\ x.credit \in Int
      BY <2>2 DEF Line
    <2>4. QED BY <2>1, <2>3
  <1>6. QED BY <1>4, <1>5

LEMMA SidesAdd ==
    ASSUME NEW J, JournalsFit(J), NEW a
    PROVE  LET L == LinesOn(J, a)
           IN  Sides(J, a) = [debit |-> SumOver([l \in L |-> l[2].debit], L),
                              credit |-> SumOver([l \in L |-> l[2].credit], L)]
  <1>1. IsFiniteSet(LinesOn(J, a))
    BY LinesOnFit
  <1>2. Sides(J, a) = [debit |-> MapThenSumSet(LAMBDA l : l[2].debit, LinesOn(J, a)),
                       credit |-> MapThenSumSet(LAMBDA l : l[2].credit, LinesOn(J, a))]
    BY DEF Sides, LinesOn
  <1>3. /\ MapThenSumSet(LAMBDA l : l[2].debit, LinesOn(J, a))
             = SumOver([l \in LinesOn(J, a) |-> l[2].debit], LinesOn(J, a))
        /\ MapThenSumSet(LAMBDA l : l[2].credit, LinesOn(J, a))
             = SumOver([l \in LinesOn(J, a) |-> l[2].credit], LinesOn(J, a))
    BY <1>1, DebitsAdd, CreditsAdd
  <1>4. QED BY <1>2, <1>3

LEMMA SidesTyped ==
    ASSUME NEW J, JournalsFit(J), NEW a
    PROVE  /\ Sides(J, a).debit \in Int /\ Sides(J, a).credit \in Int
           /\ Net(Sides(J, a)) \in Int
  <1> DEFINE L == LinesOn(J, a)
             D == [l \in L |-> l[2].debit]
             C == [l \in L |-> l[2].credit]
  <1>1. IsFiniteSet(L) /\ \A l \in L : D[l] \in Int /\ C[l] \in Int
    BY LinesOnFit
  <1>2. Sides(J, a) = [debit |-> SumOver(D, L), credit |-> SumOver(C, L)]
    BY SidesAdd
  <1> HIDE DEF L, D, C
  <1>3. SumOver(D, L) \in Int /\ SumOver(C, L) \in Int
    BY <1>1, SumInt
  <1>4. QED BY <1>2, <1>3 DEF Net

\* The sides of an account over two disjoint sets of journals.
LEMMA SidesOfUnion ==
    ASSUME NEW J, NEW K, JournalsFit(J \cup K), J \cap K = {}, NEW a
    PROVE  /\ Sides(J \cup K, a) = Plus(Sides(J, a), Sides(K, a))
           /\ Net(Sides(J \cup K, a)) = Net(Sides(J, a)) + Net(Sides(K, a))
  <1> DEFINE L == LinesOn(J, a)
             M == LinesOn(K, a)
             D(X) == [l \in X |-> l[2].debit]
             C(X) == [l \in X |-> l[2].credit]
  <1>1. JournalsFit(J) /\ JournalsFit(K)
    BY PartFits
  <1>2. IsFiniteSet(L) /\ IsFiniteSet(M) /\ L \cap M = {}
    <2>1. IsFiniteSet(L) /\ IsFiniteSet(M)
      BY <1>1, LinesOnFit
    <2>2. \A l \in L : \A m \in M : l # m
      <3>1. \A j \in J, k \in K : j.ref # k.ref
        BY DEF JournalsFit
      <3>2. /\ \A l \in L : \E j \in J : l[1] = j.ref
            /\ \A m \in M : \E k \in K : m[1] = k.ref
        BY <1>1, LinesOnFit
      <3> HIDE DEF L, M
      <3>3. QED BY <3>1, <3>2
    <2>3. QED BY <2>1, <2>2
  <1>3. LinesOn(J \cup K, a) = L \cup M
    BY LinesOnUnion
  <1>4. \A l \in L \cup M : l[2].debit \in Int /\ l[2].credit \in Int
    BY <1>1, LinesOnFit
  <1>5. /\ Sides(J, a) = [debit |-> SumOver(D(L), L), credit |-> SumOver(C(L), L)]
        /\ Sides(K, a) = [debit |-> SumOver(D(M), M), credit |-> SumOver(C(M), M)]
        /\ Sides(J \cup K, a) = [debit |-> SumOver(D(L \cup M), L \cup M),
                                 credit |-> SumOver(C(L \cup M), L \cup M)]
    BY <1>1, <1>3, SidesAdd
  <1> HIDE DEF L, M
  <1>6. /\ \A l \in L : D(L)[l] = D(L \cup M)[l] /\ D(L)[l] \in Int
        /\ \A l \in M : D(M)[l] = D(L \cup M)[l] /\ D(M)[l] \in Int
        /\ \A l \in L \cup M : D(L \cup M)[l] \in Int
    BY <1>4
  <1>7. /\ \A l \in L : C(L)[l] = C(L \cup M)[l] /\ C(L)[l] \in Int
        /\ \A l \in M : C(M)[l] = C(L \cup M)[l] /\ C(M)[l] \in Int
        /\ \A l \in L \cup M : C(L \cup M)[l] \in Int
    BY <1>4
  <1> HIDE DEF D, C
  <1>8. /\ SumOver(D(L \cup M), L \cup M) = SumOver(D(L), L) + SumOver(D(M), M)
        /\ SumOver(D(L), L) \in Int /\ SumOver(D(M), M) \in Int
    <2>1. SumOver(D(L), L) = SumOver(D(L \cup M), L)
      BY <1>2, <1>6, SumEqual
    <2>2. SumOver(D(M), M) = SumOver(D(L \cup M), M)
      BY <1>2, <1>6, SumEqual
    <2>3. SumOver(D(L \cup M), L \cup M) = SumOver(D(L \cup M), L) + SumOver(D(L \cup M), M)
      BY <1>2, <1>6, SumUnion
    <2>4. SumOver(D(L), L) \in Int /\ SumOver(D(M), M) \in Int
      BY <1>2, <1>6, SumInt
    <2>5. QED BY <2>1, <2>2, <2>3, <2>4
  <1>9. /\ SumOver(C(L \cup M), L \cup M) = SumOver(C(L), L) + SumOver(C(M), M)
        /\ SumOver(C(L), L) \in Int /\ SumOver(C(M), M) \in Int
    <2>1. SumOver(C(L), L) = SumOver(C(L \cup M), L)
      BY <1>2, <1>7, SumEqual
    <2>2. SumOver(C(M), M) = SumOver(C(L \cup M), M)
      BY <1>2, <1>7, SumEqual
    <2>3. SumOver(C(L \cup M), L \cup M) = SumOver(C(L \cup M), L) + SumOver(C(L \cup M), M)
      BY <1>2, <1>7, SumUnion
    <2>4. SumOver(C(L), L) \in Int /\ SumOver(C(M), M) \in Int
      BY <1>2, <1>7, SumInt
    <2>5. QED BY <2>1, <2>2, <2>3, <2>4
  <1>10. /\ Sides(J, a).debit \in Int /\ Sides(J, a).credit \in Int
         /\ Sides(K, a).debit \in Int /\ Sides(K, a).credit \in Int
         /\ Sides(J \cup K, a) = [debit |-> Sides(J, a).debit + Sides(K, a).debit,
                                  credit |-> Sides(J, a).credit + Sides(K, a).credit]
    BY <1>5, <1>8, <1>9
  <1>11. QED BY <1>10 DEF Plus, Net

LEMMA SidesOfNoLine ==
    ASSUME NEW J, JournalsFit(J), NEW a, LinesOn(J, a) = {}
    PROVE  Sides(J, a) = Zero
  <1> DEFINE L == LinesOn(J, a)
             D == [l \in L |-> l[2].debit]
             C == [l \in L |-> l[2].credit]
  <1>1. Sides(J, a) = [debit |-> SumOver(D, L), credit |-> SumOver(C, L)] /\ L = {}
    BY SidesAdd
  <1> HIDE DEF L, D, C
  <1>2. SumOver(D, {}) = 0 /\ SumOver(C, {}) = 0
    BY SumEmpty
  <1>3. QED BY <1>1, <1>2 DEF Zero
LEMMA SidesOfNone ==
    ASSUME NEW a
    PROVE  Sides({}, a) = Zero /\ JournalsFit({})
  <1>1. JournalsFit({}) /\ LinesOn({}, a) = {}
    BY FS_EmptySet DEF JournalsFit, LinesOn
  <1>2. QED BY <1>1, SidesOfNoLine

\* One journal books its lines on an account.
LEMMA SidesOfOne ==
    ASSUME NEW j, JournalFits(j), NEW a
    PROVE  /\ JournalsFit({j})
           /\ Net(Sides({j}, a)) = SumOver([x \in j.lines |-> x.debit - x.credit], LinesOf(j, a))
  <1> DEFINE S == LinesOf(j, a)
             L == LinesOn({j}, a)
             D == [l \in L |-> l[2].debit]
             C == [l \in L |-> l[2].credit]
             d == [x \in S |-> x.debit]
             c == [x \in S |-> x.credit]
             u == [x \in S |-> x.debit - x.credit]
             w == [x \in j.lines |-> x.debit - x.credit]
             f == [x \in S |-> <<j.ref, x>>]
  <1>1. JournalsFit({j}) /\ LinesFit(j.lines)
    BY FS_Singleton DEF JournalsFit, JournalFits
  <1>2. Sides({j}, a) = [debit |-> SumOver(D, L), credit |-> SumOver(C, L)]
    BY <1>1, SidesAdd
  <1>3. IsFiniteSet(S)
    BY <1>1, LinesOnOne
  <1>4. L = {f[x] : x \in S}
    <2>1. L = {<<j.ref, x>> : x \in S}
      BY <1>1, LinesOnOne
    <2> HIDE DEF L, S
    <2>2. QED BY <2>1
  <1>5. S \subseteq j.lines /\ \A x \in S : x.debit \in Int /\ x.credit \in Int
    BY <1>1 DEF LinesFit, Line, LinesOf
  <1> HIDE DEF L, S
  <1>6. \A x \in S : /\ d[x] \in Int /\ c[x] \in Int /\ u[x] \in Int
                     /\ u[x] = d[x] - c[x] /\ u[x] = w[x]
    BY <1>5
  <1>7. \A x \in S : D[f[x]] = d[x] /\ C[f[x]] = c[x]
    <2> SUFFICES ASSUME NEW x \in S
                 PROVE  D[f[x]] = d[x] /\ C[f[x]] = c[x]
      OBVIOUS
    <2>1. f[x] \in L /\ f[x] = <<j.ref, x>>
      BY <1>4
    <2> HIDE DEF f
    <2>2. D[f[x]] = f[x][2].debit /\ C[f[x]] = f[x][2].credit
      BY <2>1
    <2>3. QED BY <2>1, <2>2
  <1>8. \A x, y \in S : f[x] = f[y] => x = y
    OBVIOUS
  <1> HIDE DEF D, C, d, c, u, w, f
  <1>9. SumOver(D, L) = SumOver(d, S)
    <2>1. (\A x \in S : d[x] \in Int) /\ (\A x \in S : D[f[x]] = d[x])
      BY <1>6, <1>7
    <2>2. SumOver(D, {f[x] : x \in S}) = SumOver(d, S)
      BY <1>3, <1>8, <2>1, SumRenamed
    <2>3. QED BY <1>4, <2>2
  <1>10. SumOver(C, L) = SumOver(c, S)
    <2>1. (\A x \in S : c[x] \in Int) /\ (\A x \in S : C[f[x]] = c[x])
      BY <1>6, <1>7
    <2>2. SumOver(C, {f[x] : x \in S}) = SumOver(c, S)
      BY <1>3, <1>8, <2>1, SumRenamed
    <2>3. QED BY <1>4, <2>2
  <1>11. SumOver(u, S) = SumOver(d, S) - SumOver(c, S)
    BY <1>3, <1>6, SumMinus
  <1>12. SumOver(u, S) = SumOver(w, S)
    BY <1>3, <1>6, SumEqual
  <1>13. Net(Sides({j}, a)) = SumOver(w, S)
    BY <1>2, <1>9, <1>10, <1>11, <1>12 DEF Net
  <1>14. QED BY <1>1, <1>13 DEF w, S

-----------------------------------------------------------------------------
(* Balances over accounts *)

Typed(t) == \A a \in Accounts : Net(t[a]) \in Int

\* Accounts can be taken in two parts, and one by one.
LEMMA SumNetOfParts ==
    ASSUME NEW t, Typed(t), NEW A \in SUBSET Accounts, NEW B \in SUBSET Accounts, A \cap B = {}
    PROVE  /\ SumNet(t, A \cup B) = SumNet(t, A) + SumNet(t, B)
           /\ SumNet(t, A) \in Int /\ SumNet(t, B) \in Int
  <1> DEFINE w == [a \in Accounts |-> Net(t[a])]
  <1>1. /\ SumNet(t, A) = SumOver(w, A) /\ SumNet(t, B) = SumOver(w, B)
        /\ SumNet(t, A \cup B) = SumOver(w, A \cup B)
        /\ IsFiniteSet(A) /\ IsFiniteSet(B)
    BY SumNetAdds
  <1>2. \A a \in A \cup B : w[a] \in Int
    BY DEF Typed
  <1> HIDE DEF w
  <1>3. SumOver(w, A \cup B) = SumOver(w, A) + SumOver(w, B)
    BY <1>1, <1>2, SumUnion
  <1>4. SumOver(w, A) \in Int /\ SumOver(w, B) \in Int
    BY <1>1, <1>2, SumInt
  <1>5. QED BY <1>1, <1>3, <1>4
LEMMA SumNetOfOne ==
    ASSUME NEW t, Typed(t), NEW a \in Accounts
    PROVE  SumNet(t, {a}) = Net(t[a])
  <1> DEFINE w == [b \in Accounts |-> Net(t[b])]
  <1>1. SumNet(t, {a}) = SumOver(w, {a}) /\ w[a] = Net(t[a]) /\ w[a] \in Int
    BY SumNetAdds DEF Typed
  <1> HIDE DEF w
  <1>2. QED BY <1>1, SumSingle
LEMMA SumNetOfZeroes ==
    ASSUME NEW t, NEW A \in SUBSET Accounts, \A a \in A : Net(t[a]) = 0
    PROVE  SumNet(t, A) = 0
  <1> DEFINE w == [b \in Accounts |-> Net(t[b])]
  <1>1. SumNet(t, A) = SumOver(w, A) /\ IsFiniteSet(A) /\ \A a \in A : w[a] = 0
    BY SumNetAdds
  <1> HIDE DEF w
  <1>2. QED BY <1>1, SumOfZeroes

\* Balances that add up account by account add up over accounts.
LEMMA SumNetOfSum ==
    ASSUME NEW t, Typed(t), NEW u, Typed(u), NEW v, NEW A \in SUBSET Accounts,
           \A a \in A : Net(v[a]) = Net(t[a]) + Net(u[a])
    PROVE  /\ SumNet(v, A) = SumNet(t, A) + SumNet(u, A)
           /\ SumNet(t, A) \in Int /\ SumNet(u, A) \in Int
  <1> DEFINE wt == [a \in Accounts |-> Net(t[a])]
             wu == [a \in Accounts |-> Net(u[a])]
             wv == [a \in Accounts |-> Net(v[a])]
  <1>1. /\ SumNet(t, A) = SumOver(wt, A) /\ SumNet(u, A) = SumOver(wu, A)
        /\ SumNet(v, A) = SumOver(wv, A) /\ IsFiniteSet(A)
    BY SumNetAdds
  <1>2. \A a \in A : wt[a] \in Int /\ wu[a] \in Int /\ wv[a] = wt[a] + wu[a]
    BY DEF Typed
  <1> HIDE DEF wt, wu, wv
  <1>3. \A a \in A : wv[a] \in Int /\ wt[a] = wv[a] - wu[a]
    BY <1>2
  <1>4. SumOver(wt, A) = SumOver(wv, A) - SumOver(wu, A)
    BY <1>1, <1>2, <1>3, SumMinus
  <1>5. SumOver(wt, A) \in Int /\ SumOver(wu, A) \in Int /\ SumOver(wv, A) \in Int
    BY <1>1, <1>2, <1>3, SumInt
  <1>6. QED BY <1>1, <1>4, <1>5

LEMMA TotalsTyped ==
    ASSUME NEW J, JournalsFit(J)
    PROVE  Typed(Totals(J)) /\ \A a \in Accounts : Totals(J)[a] = Sides(J, a)
  BY SidesTyped DEF Totals, Typed

\* What two disjoint sets of journals book.
LEMMA TotalsOfUnion ==
    ASSUME NEW J, NEW K, JournalsFit(J \cup K), J \cap K = {}
    PROVE  /\ \A a \in Accounts :
                /\ Totals(J \cup K)[a] = Plus(Totals(J)[a], Totals(K)[a])
                /\ Net(Totals(J \cup K)[a]) = Net(Totals(J)[a]) + Net(Totals(K)[a])
           /\ Typed(Totals(J)) /\ Typed(Totals(K)) /\ Typed(Totals(J \cup K))
           /\ \A A \in SUBSET Accounts :
                SumNet(Totals(J \cup K), A) = SumNet(Totals(J), A) + SumNet(Totals(K), A)
  <1>1. JournalsFit(J) /\ JournalsFit(K)
    BY PartFits
  <1>2. Typed(Totals(J)) /\ Typed(Totals(K)) /\ Typed(Totals(J \cup K))
    BY <1>1, TotalsTyped
  <1>3. \A a \in Accounts :
          /\ Totals(J \cup K)[a] = Plus(Totals(J)[a], Totals(K)[a])
          /\ Net(Totals(J \cup K)[a]) = Net(Totals(J)[a]) + Net(Totals(K)[a])
    BY <1>1, SidesOfUnion, TotalsTyped
  <1>4. \A A \in SUBSET Accounts :
          SumNet(Totals(J \cup K), A) = SumNet(Totals(J), A) + SumNet(Totals(K), A)
    <2> DEFINE t == Totals(J)
               u == Totals(K)
               v == Totals(J \cup K)
    <2>1. Typed(t) /\ Typed(u) /\ \A a \in Accounts : Net(v[a]) = Net(t[a]) + Net(u[a])
      BY <1>2, <1>3
    <2> HIDE DEF t, u, v
    <2>2. \A A \in SUBSET Accounts : SumNet(v, A) = SumNet(t, A) + SumNet(u, A)
      <3> SUFFICES ASSUME NEW A \in SUBSET Accounts
                   PROVE  SumNet(v, A) = SumNet(t, A) + SumNet(u, A)
        OBVIOUS
      <3>1. \A a \in A : Net(v[a]) = Net(t[a]) + Net(u[a])
        BY <2>1
      <3>2. QED BY <2>1, <3>1, SumNetOfSum
    <2>3. QED BY <2>2 DEF t, u, v
  <1>5. QED BY <1>2, <1>3, <1>4

\* A journal debits what it credits.
LEMMA JournalBalances ==
    ASSUME NEW j, JournalFits(j)
    PROVE  SumNet(Totals({j}), Accounts) = 0
  <1> DEFINE S == j.lines
             w == [x \in S |-> x.debit - x.credit]
             f == [x \in S |-> x.account]
             v == [a \in Accounts |-> Net(Totals({j})[a])]
             u == [a \in Accounts |-> SumOver(w, {x \in S : f[x] = a})]
  <1>1. JournalsFit({j}) /\ LinesFit(S)
    BY SidesOfOne DEF JournalFits
  <1>2. /\ \A x \in S : x.account \in Accounts /\ x.debit \in Int /\ x.credit \in Int
        /\ IsFiniteSet(S) /\ SumOver(w, S) = 0
    BY <1>1 DEF LinesFit, Line
  <1>3. \A x \in S : w[x] \in Int /\ f[x] \in Accounts
    BY <1>2
  <1>4. SumNet(Totals({j}), Accounts) = SumOver(v, Accounts) /\ IsFiniteSet(Accounts)
    BY SumNetAdds
  <1>5. \A a \in Accounts : v[a] = u[a] /\ v[a] \in Int
    <2> SUFFICES ASSUME NEW a \in Accounts
                 PROVE  v[a] = u[a] /\ v[a] \in Int
      OBVIOUS
    <2>1. v[a] = Net(Sides({j}, a)) /\ v[a] \in Int
      BY <1>1, TotalsTyped DEF Typed
    <2>2. Net(Sides({j}, a)) = SumOver(w, LinesOf(j, a))
      BY SidesOfOne
    <2>3. LinesOf(j, a) = {x \in S : f[x] = a}
      BY DEF LinesOf
    <2> HIDE DEF S, w, f, v
    <2>4. u[a] = SumOver(w, {x \in S : f[x] = a})
      OBVIOUS
    <2> HIDE DEF u
    <2>5. QED BY <2>1, <2>2, <2>3, <2>4
  <1> HIDE DEF v
  <1>6. SumOver(u, Accounts) = SumOver(w, S)
    <2> HIDE DEF S, w, f
    <2>1. QED BY <1>2, <1>3, <1>4, SumByParts
  <1> HIDE DEF u, w, f, S
  <1>7. SumOver(v, Accounts) = SumOver(u, Accounts)
    BY <1>4, <1>5, SumEqual
  <1>8. QED BY <1>2, <1>4, <1>6, <1>7

\* So do any journals.
LEMMA JournalsBalance ==
    ASSUME NEW J, JournalsFit(J)
    PROVE  SumNet(Totals(J), Accounts) = 0
  <1> DEFINE C == {s \in SUBSET J : SumNet(Totals(s), Accounts) = 0}
  <1>1. {} \in C
    <2>1. \A a \in Accounts : Net(Totals({})[a]) = 0
      BY SidesOfNone, TotalsTyped DEF Zero, Net
    <2>2. QED BY <2>1, SumNetOfZeroes
  <1>2. ASSUME NEW s \in C, NEW j \in J \ s
        PROVE  s \cup {j} \in C
    <2>1. JournalsFit(s \cup {j}) /\ s \cap {j} = {} /\ JournalFits(j)
      BY PartFits DEF JournalsFit
    <2>2. SumNet(Totals(s \cup {j}), Accounts) = SumNet(Totals(s), Accounts) + SumNet(Totals({j}), Accounts)
      BY <2>1, TotalsOfUnion
    <2>3. SumNet(Totals({j}), Accounts) = 0
      BY <2>1, JournalBalances
    <2>4. QED BY <2>2, <2>3
  <1>3. C \in SUBSET (SUBSET J) /\ IsFiniteSet(J)
    BY DEF JournalsFit
  <1> HIDE DEF C
  <1>4. J \in C
    BY <1>1, <1>2, <1>3, SetInduction
  <1>5. QED BY <1>4 DEF C

\* Assets, liabilities, equity and income are all there is.
Assets == OfClass({"asset"})
Liabilities == OfClass({"liability"})
Equity == OfClass({"equity"})
LEMMA AccountsAreClassed ==
    /\ Accounts = (Assets \cup Liabilities) \cup (Equity \cup Income)
    /\ Assets \cap Liabilities = {} /\ Equity \cap Income = {}
    /\ (Assets \cup Liabilities) \cap (Equity \cup Income) = {}
    /\ Assets \in SUBSET Accounts /\ Liabilities \in SUBSET Accounts
    /\ Equity \in SUBSET Accounts /\ Income \in SUBSET Accounts
    /\ "110200" \in Assets /\ "310100" \in Equity
    /\ ClosingAccounts \subseteq Accounts
    /\ Income = {a \in Accounts : RoleOf[a] \in ClosingRoles}
  BY CatalogAssumption DEF Assets, Liabilities, Equity, Income, OfClass, ClosingRoles, ClosingAccounts
LEMMA ClassesBalance ==
    ASSUME NEW t, Typed(t)
    PROVE  /\ SumNet(t, Accounts) = SumNet(t, Assets) + SumNet(t, Liabilities)
                                     + SumNet(t, Equity) + SumNet(t, Income)
           /\ SumNet(t, Assets) \in Int /\ SumNet(t, Liabilities) \in Int
           /\ SumNet(t, Equity) \in Int /\ SumNet(t, Income) \in Int
  <1>1. /\ SumNet(t, Assets \cup Liabilities) = SumNet(t, Assets) + SumNet(t, Liabilities)
        /\ SumNet(t, Assets) \in Int /\ SumNet(t, Liabilities) \in Int
    BY AccountsAreClassed, SumNetOfParts
  <1>2. /\ SumNet(t, Equity \cup Income) = SumNet(t, Equity) + SumNet(t, Income)
        /\ SumNet(t, Equity) \in Int /\ SumNet(t, Income) \in Int
    BY AccountsAreClassed, SumNetOfParts
  <1>3. SumNet(t, (Assets \cup Liabilities) \cup (Equity \cup Income))
          = SumNet(t, Assets \cup Liabilities) + SumNet(t, Equity \cup Income)
    BY AccountsAreClassed, SumNetOfParts
  <1>4. QED BY <1>1, <1>2, <1>3, AccountsAreClassed

\* Cash is an asset like the others; retained earnings is some of the equity.
LEMMA CashApart ==
    ASSUME NEW t, Typed(t)
    PROVE  /\ SumNet(t, OfClass({"asset", "liability"}) \ {"110200"})
                = SumNet(t, Assets) + SumNet(t, Liabilities) - Net(t["110200"])
           /\ Net(t["110200"]) \in Int
  <1> DEFINE Rest == OfClass({"asset", "liability"}) \ {"110200"}
  <1>1. /\ Rest \cup {"110200"} = Assets \cup Liabilities /\ Rest \cap {"110200"} = {}
        /\ Rest \in SUBSET Accounts /\ "110200" \in Accounts
    BY CatalogAssumption DEF Assets, Liabilities, OfClass
  <1> HIDE DEF Rest
  <1>2. /\ SumNet(t, Rest \cup {"110200"}) = SumNet(t, Rest) + SumNet(t, {"110200"})
        /\ SumNet(t, Rest) \in Int
    BY <1>1, SumNetOfParts
  <1>3. SumNet(t, {"110200"}) = Net(t["110200"]) /\ Net(t["110200"]) \in Int
    BY <1>1, SumNetOfOne DEF Typed
  <1>4. SumNet(t, Assets \cup Liabilities) = SumNet(t, Assets) + SumNet(t, Liabilities)
    <2>1. Assets \in SUBSET Accounts /\ Liabilities \in SUBSET Accounts /\ Assets \cap Liabilities = {}
      BY AccountsAreClassed
    <2>2. QED BY <2>1, SumNetOfParts
  <1>5. SumNet(t, Assets) \in Int /\ SumNet(t, Liabilities) \in Int
    BY ClassesBalance
  <1>6. SumNet(t, Rest) = SumNet(t, Assets) + SumNet(t, Liabilities) - Net(t["110200"])
    <2> DEFINE both == Rest \cup {"110200"}
    <2>1. both = Assets \cup Liabilities /\ SumNet(t, both) = SumNet(t, Rest) + SumNet(t, {"110200"})
      BY <1>1, <1>2
    <2> HIDE DEF both
    <2>2. SumNet(t, Assets) + SumNet(t, Liabilities) = SumNet(t, Rest) + Net(t["110200"])
      BY <1>3, <1>4, <2>1
    <2> DEFINE m == SumNet(t, Assets)
               n == SumNet(t, Liabilities)
               r == SumNet(t, Rest)
               c == Net(t["110200"])
    <2>3. m \in Int /\ n \in Int /\ r \in Int /\ c \in Int /\ m + n = r + c
      BY <1>2, <1>3, <1>5, <2>2
    <2> HIDE DEF m, n, r, c
    <2>4. r = m + n - c
      BY <2>3
    <2>5. QED BY <2>4 DEF m, n, r, c
  <1>7. QED BY <1>3, <1>6 DEF Rest

\* Closing journals move balances between income and retained earnings only.
LEMMA ClosingJournalsBook ==
    ASSUME NEW K, JournalsFit(K), \A k \in K : k.closing
    PROVE  /\ \A a \in Accounts \ ClosingAccounts : Net(Totals(K)[a]) = 0
           /\ SumNet(Totals(K), Equity) = Net(Totals(K)["310100"])
           /\ Net(Totals(K)["310100"]) = -SumNet(Totals(K), Income)
  <1> DEFINE t == Totals(K)
  <1>1. \A a \in Accounts \ ClosingAccounts : Net(t[a]) = 0
    <2> SUFFICES ASSUME NEW a \in Accounts \ ClosingAccounts
                 PROVE  Net(t[a]) = 0
      OBVIOUS
    <2>1. LinesOn(K, a) = {}
      BY DEF LinesOn, JournalsFit, JournalFits
    <2>2. QED BY <2>1, SidesOfNoLine, TotalsTyped DEF Zero, Net
  <1>2. Typed(t) /\ SumNet(t, Accounts) = 0
    BY TotalsTyped, JournalsBalance
  <1> HIDE DEF t
  <1>3. SumNet(t, Assets) = 0 /\ SumNet(t, Liabilities) = 0 /\ SumNet(t, Equity \ {"310100"}) = 0
    <2>1. /\ \A a \in Assets \cup Liabilities \cup (Equity \ {"310100"}) :
               a \in Accounts \ ClosingAccounts
          /\ Assets \in SUBSET Accounts /\ Liabilities \in SUBSET Accounts
          /\ Equity \ {"310100"} \in SUBSET Accounts
      BY AccountsAreClassed DEF ClosingAccounts
    <2>2. QED BY <1>1, <2>1, SumNetOfZeroes
  <1>4. SumNet(t, Equity) = Net(t["310100"]) /\ Net(t["310100"]) \in Int
    <2>1. /\ (Equity \ {"310100"}) \cup {"310100"} = Equity /\ "310100" \in Accounts
          /\ (Equity \ {"310100"}) \cap {"310100"} = {}
          /\ Equity \ {"310100"} \in SUBSET Accounts
      BY AccountsAreClassed
    <2>2. SumNet(t, (Equity \ {"310100"}) \cup {"310100"})
            = SumNet(t, Equity \ {"310100"}) + SumNet(t, {"310100"})
      BY <1>2, <2>1, SumNetOfParts
    <2>3. SumNet(t, {"310100"}) = Net(t["310100"]) /\ Net(t["310100"]) \in Int
      BY <1>2, <2>1, SumNetOfOne DEF Typed
    <2>4. SumNet(t, Equity) = SumNet(t, Equity \ {"310100"}) + Net(t["310100"])
      BY <2>1, <2>2, <2>3
    <2>5. SumNet(t, Equity) = 0 + Net(t["310100"])
      BY <1>3, <2>4
    <2>6. QED BY <2>3, <2>5
  <1>5. SumNet(t, Accounts) = SumNet(t, Assets) + SumNet(t, Liabilities)
                               + SumNet(t, Equity) + SumNet(t, Income)
        /\ SumNet(t, Income) \in Int
    BY <1>2, ClassesBalance
  <1>6. Net(t["310100"]) = -SumNet(t, Income)
    BY <1>2, <1>3, <1>4, <1>5
  <1>7. QED BY <1>1, <1>4, <1>6 DEF t
-----------------------------------------------------------------------------
(* The books that commands make *)

Statuses == {"open", "book_closed", "hard_closed"}
\* A closing journal is numbered by its period, which closed with it; a document
\* has an even number, and its one reversal the odd number after it.
Referenced(s, j) ==
    \/ j.closing /\ j.reverses = 0 /\ j.ref = -j.period /\ s.status[j.period] # "open"
    \/ ~j.closing /\ j.reverses = 0 /\ j.ref \in Nat \ {0} /\ j.ref % 2 = 0
    \/ /\ ~j.closing /\ j.ref = j.reverses + 1
       /\ j.reverses \in Nat \ {0} /\ j.reverses % 2 = 0
\* What the hard close of p stored: no income is left in it, and unless an earlier
\* period was still open, nothing has been booked up to p since.
Kept(s, p) ==
    /\ \A a \in Income : Net(s.snapshots[p].totals[a]) = 0
    /\ 1..(p - 1) \subseteq s.snapshots[p].before =>
          /\ \A q \in 1..(p - 1) : s.status[q] # "open"
          /\ s.snapshots[p].totals = Live(s, p)
BookOK(s) ==
    /\ s = [journals |-> s.journals, status |-> s.status, snapshots |-> s.snapshots]
    /\ JournalsFit(s.journals)
    /\ \A j \in s.journals : Referenced(s, j)
    /\ s.status \in [Periods -> Statuses]
    /\ DOMAIN s.snapshots = Periods
    /\ \A p \in Periods : s.status[p] # "open" => Kept(s, p)

LEMMA PeriodsCount ==
    \E n \in Nat : Periods = 1..n
  BY FS_CardinalityType, CalendarAssumption

LEMMA EarlierPeriods ==
    ASSUME NEW p \in Periods
    PROVE  /\ p \in Int /\ p >= 1
           /\ \A q \in 1..p : q \in Periods
  BY PeriodsCount

\* The calendar's years do not interleave: a scope is a run of periods up to p.
LEMMA ScopeIsARun ==
    ASSUME NEW p \in Periods, NEW scope \in Scopes
    PROVE  /\ ScopeStart(p, scope) \in 1..p
           /\ Scope(p, scope) = ScopeStart(p, scope)..p
  <1> DEFINE S == Scope(p, scope)
             start == ScopeStart(p, scope)
  <1>1. p \in Int /\ p >= 1 /\ \A q \in 1..p : q \in Periods
    BY EarlierPeriods
  <1>2. S \subseteq 1..p /\ p \in S
    BY <1>1 DEF Scope
  <1>3. \A q \in S, r \in 1..p : q <= r => r \in S
    <2> SUFFICES ASSUME NEW q \in S, NEW r \in 1..p, q <= r
                 PROVE  r \in S
      OBVIOUS
    <2>1. CASE scope = "period"
      <3>1. q = p
        BY <2>1 DEF Scope
      <3>2. r = p
        BY <1>1, <3>1
      <3>3. QED BY <1>2, <3>2
    <2>2. CASE scope # "period"
      <3>1. q \in 1..p /\ Year[q] = Year[p]
        BY <2>2 DEF Scope
      <3>2. q \in Periods /\ r \in Periods /\ q \in Int /\ r \in Int /\ r <= p
        BY <1>1, <3>1
      <3>3. \A x \in Periods : Year[x] \in Int
        BY CalendarAssumption
      <3>4. \A x, y \in Periods : x < y => Year[x] <= Year[y]
        BY CalendarAssumption
      <3>5. Year[q] <= Year[r] /\ Year[r] <= Year[p]
        <4>1. q = r \/ q < r
          BY <3>2
        <4>2. r = p \/ r < p
          BY <1>1, <3>2
        <4>3. Year[q] <= Year[r]
          BY <3>2, <3>3, <3>4, <4>1
        <4>4. Year[r] <= Year[p]
          BY <3>2, <3>3, <3>4, <4>2
        <4>5. QED BY <4>3, <4>4
      <3>6. Year[r] = Year[p]
        BY <3>1, <3>2, <3>3, <3>5
      <3>7. QED BY <2>2, <3>6 DEF Scope
    <2>3. QED BY <2>1, <2>2
  <1>4. \E q \in S : \A r \in S : q <= r
    <2>1. IsWellFoundedOn(OpToRel(<, Nat), Nat)
      BY NatLessThanWellFounded
    <2>2. S \subseteq Nat /\ S # {}
      BY <1>1, <1>2
    <2>3. PICK q \in S : \A r \in S : ~(<<r, q>> \in OpToRel(<, Nat))
      <3> HIDE DEF S
      <3>1. QED BY <2>1, <2>2, WFMin
    <2>4. \A r \in S : ~(r < q)
      BY <2>2, <2>3 DEF OpToRel
    <2>5. \A r \in S : q <= r
      BY <2>2, <2>4
    <2>6. QED BY <2>5
  <1>5. start \in S /\ \A r \in S : start <= r
    BY <1>4 DEF ScopeStart
  <1>6. start \in 1..p
    BY <1>2, <1>5
  <1>7. \A r \in Int : r \in S <=> r \in start..p
    BY <1>1, <1>2, <1>3, <1>5, <1>6
  <1>8. S = start..p
    <2>1. S \subseteq Int /\ start..p \subseteq Int
      BY <1>1, <1>2
    <2> HIDE DEF S, start
    <2>2. QED BY <1>7, <2>1
  <1>9. QED BY <1>6, <1>8

\* In order, stored balances are the live ones, and so are those that open a scope.
LEMMA InOrderIsLive ==
    ASSUME NEW s, BookOK(s), NEW p \in Periods, NoGap(s, p)
    PROVE  /\ TrialBalance(s, p) = Live(s, p)
           /\ \A start \in 1..p : Opening(s, start) = Live(s, start - 1)
  <1>1. p \in Int /\ p >= 1 /\ \A q \in 1..p : q \in Periods
    BY EarlierPeriods
  <1>2. \A q \in 1..p : HardClosed(s, q) => s.snapshots[q].totals = Live(s, q)
    <2> SUFFICES ASSUME NEW q \in 1..p, HardClosed(s, q)
                 PROVE  s.snapshots[q].totals = Live(s, q)
      OBVIOUS
    <2>1. s.status[q] # "open" /\ q \in Periods
      BY <1>1 DEF HardClosed
    <2>2. Kept(s, q)
      BY <2>1 DEF BookOK
    <2>3. InOrder(s, p)
      BY <2>1 DEF NoGap
    <2>4. 1..(q - 1) \subseteq s.snapshots[q].before
      BY <2>1, <2>3 DEF InOrder
    <2>5. QED BY <2>2, <2>4 DEF Kept
  <1>3. TrialBalance(s, p) = Live(s, p)
    BY <1>1, <1>2 DEF TrialBalance
  <1>4. ASSUME NEW start \in 1..p
        PROVE  Opening(s, start) = Live(s, start - 1)
    <2> DEFINE closed == {q \in 1..(start - 1) : HardClosed(s, q)}
               last == CHOOSE q \in closed : \A r \in closed : r <= q
    <2>1. CASE closed = {}
      BY <2>1 DEF Opening
    <2>2. CASE closed # {}
      <3>1. \A q \in 1..(start - 1) : HardClosed(s, q)
        <4>1. PICK q \in 1..(start - 1) : HardClosed(s, q)
          BY <2>2
        <4>2. ~\A r \in 1..p : s.status[r] = "open"
          BY <1>1, <4>1 DEF HardClosed
        <4>3. InOrder(s, p)
          BY <4>2 DEF NoGap
        <4>4. QED BY <1>1, <4>3 DEF InOrder
      <3>2. closed = 1..(start - 1) /\ start - 1 \in closed
        BY <2>2, <3>1
      <3>3. last = start - 1
        <4>1. \A q \in closed : q \in Int /\ q <= start - 1
          BY <1>1
        <4> HIDE DEF closed
        <4>2. \E q \in closed : \A r \in closed : r <= q
          BY <3>2, <4>1
        <4>3. last \in closed /\ \A r \in closed : r <= last
          BY <4>2
        <4> HIDE DEF last
        <4>4. QED BY <3>2, <4>1, <4>3
      <3>4. Opening(s, start) = s.snapshots[last].totals
        BY <2>2 DEF Opening
      <3>5. HardClosed(s, start - 1) /\ start - 1 \in 1..p
        BY <1>1, <3>1, <3>2
      <3> HIDE DEF closed, last
      <3>6. QED BY <1>2, <3>3, <3>4, <3>5
    <2>3. QED BY <2>1, <2>2
  <1>5. QED BY <1>3, <1>4

-----------------------------------------------------------------------------
(* What the reports of such a book say *)

LEMMA ThroughFits ==
    ASSUME NEW s, BookOK(s), NEW p
    PROVE  JournalsFit(Through(s, p))
  BY PartFits DEF BookOK, Through

\* The journals up to p: those before a scope, and those of the scope.
LEMMA ThroughIsBeforeAndWithin ==
    ASSUME NEW s, BookOK(s), NEW p \in Periods, NEW start \in 1..p
    PROVE  /\ Through(s, p) = Through(s, start - 1) \cup Within(s, start..p)
           /\ Through(s, start - 1) \cap Within(s, start..p) = {}
  <1>1. p \in Int /\ \A q \in Periods : q \in Int /\ q >= 1
    BY EarlierPeriods
  <1>2. \A j \in s.journals : j.period \in Int
    BY <1>1 DEF BookOK, JournalsFit, JournalFits
  <1>3. QED BY <1>1, <1>2 DEF Through, Within

\* load_account_rollforward.
LEMMA RollforwardsTie ==
    ASSUME NEW s, BookOK(s), NEW p \in Periods, NoGap(s, p)
    PROVE  RollforwardTies(s, p)
  <1> SUFFICES ASSUME NEW account \in Accounts, NEW scope \in Scopes
               PROVE  Rollforward(s, p, account, scope).closing = TrialBalance(s, p)[account]
    BY DEF RollforwardTies
  <1> DEFINE start == ScopeStart(p, scope)
             B == Through(s, start - 1)
             W == Within(s, start..p)
  <1>1. start \in 1..p /\ Scope(p, scope) = start..p
    BY ScopeIsARun
  <1>2. TrialBalance(s, p) = Live(s, p) /\ Opening(s, start) = Live(s, start - 1)
    BY <1>1, InOrderIsLive
  <1>3. Through(s, p) = B \cup W /\ B \cap W = {}
    BY <1>1, ThroughIsBeforeAndWithin
  <1>4. JournalsFit(B \cup W)
    BY <1>3, ThroughFits
  <1>5. Rollforward(s, p, account, scope).closing = Plus(Live(s, start - 1)[account], Sides(W, account))
    BY <1>1, <1>2 DEF Rollforward
  <1>6. Live(s, start - 1)[account] = Sides(B, account) /\ Live(s, p)[account] = Sides(B \cup W, account)
    BY <1>3 DEF Live, Totals
  <1> HIDE DEF B, W, start
  <1>7. Sides(B \cup W, account) = Plus(Sides(B, account), Sides(W, account))
    BY <1>3, <1>4, SidesOfUnion
  <1>8. QED BY <1>2, <1>5, <1>6, <1>7

\* Operational journals and closing journals.
Closing(journals) == {j \in journals : j.closing}
LEMMA OperationalAndClosing ==
    ASSUME NEW J, JournalsFit(J)
    PROVE  /\ J = Operational(J) \cup Closing(J) /\ Operational(J) \cap Closing(J) = {}
           /\ JournalsFit(Operational(J)) /\ JournalsFit(Closing(J))
           /\ \A a \in Accounts \ ClosingAccounts : Net(Totals(Closing(J))[a]) = 0
           /\ SumNet(Totals(Closing(J)), Equity) = Net(Totals(Closing(J))["310100"])
           /\ Net(Totals(Closing(J))["310100"]) = -SumNet(Totals(Closing(J)), Income)
  <1>1. J = Operational(J) \cup Closing(J) /\ Operational(J) \cap Closing(J) = {}
    BY DEF Operational, Closing
  <1>2. JournalsFit(Operational(J)) /\ JournalsFit(Closing(J)) /\ \A k \in Closing(J) : k.closing
    BY PartFits DEF Operational, Closing
  <1>3. QED BY <1>1, <1>2, ClosingJournalsBook

LEMMA OperationsAndCloses ==
    ASSUME NEW J, JournalsFit(J)
    PROVE  /\ \A a \in Accounts : Net(Totals(J)[a]) =
                 Net(Totals(Operational(J))[a]) + Net(Totals(Closing(J))[a])
           /\ \A A \in SUBSET Accounts : SumNet(Totals(J), A) =
                 SumNet(Totals(Operational(J)), A) + SumNet(Totals(Closing(J)), A)
           /\ Typed(Totals(Operational(J))) /\ Typed(Totals(Closing(J)))
  <1> DEFINE O == Operational(J)
             K == Closing(J)
  <1>1. JournalsFit(O \cup K) /\ O \cap K = {} /\ J = O \cup K
    BY OperationalAndClosing
  <1> HIDE DEF O, K
  <1>2. /\ \A a \in Accounts : Net(Totals(O \cup K)[a]) = Net(Totals(O)[a]) + Net(Totals(K)[a])
        /\ \A A \in SUBSET Accounts :
              SumNet(Totals(O \cup K), A) = SumNet(Totals(O), A) + SumNet(Totals(K), A)
        /\ Typed(Totals(O)) /\ Typed(Totals(K))
    BY <1>1, TotalsOfUnion
  <1>3. QED BY <1>1, <1>2 DEF O, K

\* The hard close of p leaves no income in the balances of p.
LEMMA ClosedPeriodHasNoIncome ==
    ASSUME NEW s, BookOK(s), NEW p \in Periods, s.status[p] # "open",
           1..(p - 1) \subseteq s.snapshots[p].before
    PROVE  /\ s.snapshots[p].totals = Live(s, p)
           /\ \A a \in Income : Net(Live(s, p)[a]) = 0
           /\ SumNet(Live(s, p), Income) = 0
  <1>1. Kept(s, p)
    BY DEF BookOK
  <1>2. s.snapshots[p].totals = Live(s, p) /\ \A a \in Income : Net(Live(s, p)[a]) = 0
    BY <1>1 DEF Kept
  <1>3. Income \in SUBSET Accounts
    BY AccountsAreClassed
  <1>4. SumNet(Live(s, p), Income) = 0
    BY <1>2, <1>3, SumNetOfZeroes
  <1>5. QED BY <1>2, <1>4

\* persist_hard_close, as its snapshot shows it.
LEMMA ClosesPark ==
    ASSUME NEW s, BookOK(s), NEW p \in Periods, InOrder(s, p), HardClosed(s, p)
    PROVE  LET closed == s.snapshots[p].totals
               adjusted == Adjusted(s, p)
           IN  \A a \in Accounts :
                  Net(closed[a]) = CASE a \in Income -> 0
                                     [] a = "310100" -> Net(adjusted[a]) + SumNet(adjusted, Income)
                                     [] OTHER -> Net(adjusted[a])
  <1> DEFINE J == Through(s, p)
             ops == Totals(Operational(J))
             cls == Totals(Closing(J))
             live == Totals(J)
  <1>1. p \in 1..p
    BY EarlierPeriods
  <1>2. /\ s.snapshots[p].totals = Live(s, p) /\ \A a \in Income : Net(Live(s, p)[a]) = 0
        /\ SumNet(Live(s, p), Income) = 0
    BY <1>1, ClosedPeriodHasNoIncome DEF InOrder, HardClosed
  <1>3. JournalsFit(J) /\ Live(s, p) = live /\ Adjusted(s, p) = ops
    BY ThroughFits DEF Live, Adjusted
  <1> HIDE DEF J
  <1>4. /\ J = Operational(J) \cup Closing(J) /\ Operational(J) \cap Closing(J) = {}
        /\ \A a \in Accounts \ ClosingAccounts : Net(cls[a]) = 0
        /\ Net(cls["310100"]) = -SumNet(cls, Income)
    BY <1>3, OperationalAndClosing
  <1>5. Income \in SUBSET Accounts /\ "310100" \in Accounts /\ "310100" \notin Income
    BY AccountsAreClassed
  <1>6. /\ \A a \in Accounts : Net(live[a]) = Net(ops[a]) + Net(cls[a])
        /\ SumNet(live, Income) = SumNet(ops, Income) + SumNet(cls, Income)
        /\ Typed(ops) /\ Typed(cls)
    BY <1>3, <1>5, OperationsAndCloses
  <1>7. SumNet(ops, Income) \in Int /\ SumNet(cls, Income) \in Int
    BY <1>6, ClassesBalance
  <1> HIDE DEF ops, cls, live
  <1>8. Net(cls["310100"]) = SumNet(ops, Income)
    BY <1>2, <1>3, <1>4, <1>6, <1>7
  <1>9. \A a \in Accounts : Net(ops[a]) \in Int
    BY <1>6 DEF Typed
  <1>10. SUFFICES ASSUME NEW a \in Accounts
                  PROVE  Net(live[a]) = CASE a \in Income -> 0
                                          [] a = "310100" -> Net(ops[a]) + SumNet(ops, Income)
                                          [] OTHER -> Net(ops[a])
    BY <1>2, <1>3
  <1>11. CASE a \in Income
    BY <1>2, <1>3, <1>5, <1>11
  <1>12. CASE a = "310100"
    BY <1>5, <1>6, <1>8, <1>12
  <1>13. CASE a \notin Income /\ a # "310100"
    <2>1. Net(cls[a]) = 0
      BY <1>4, <1>13 DEF ClosingAccounts
    <2>2. Net(live[a]) = Net(ops[a])
      BY <1>6, <1>9, <2>1
    <2>3. QED BY <1>13, <2>2
  <1>14. QED BY <1>11, <1>12, <1>13

\* The books at the edges of a scope.
LEMMA NothingBooked ==
    ASSUME NEW s, BookOK(s)
    PROVE  SumNet(Live(s, 0), Income) = 0
  <1>1. \A q \in Periods : q >= 1 /\ q \in Int
    BY EarlierPeriods
  <1>2. \A j \in s.journals : j.period \in Int /\ j.period >= 1
    BY <1>1 DEF BookOK, JournalsFit, JournalFits
  <1>3. Through(s, 0) = {}
    BY <1>2 DEF Through
  <1>4. \A a \in Accounts : Net(Live(s, 0)[a]) = 0
    BY <1>3, SidesOfNone DEF Live, Totals, Zero, Net
  <1>5. Income \in SUBSET Accounts
    BY AccountsAreClassed
  <1>6. QED BY <1>4, <1>5, SumNetOfZeroes

LEMMA NoIncomeBefore ==
    ASSUME NEW s, BookOK(s), NEW p \in Periods, InOrder(s, p), NEW start \in 1..p
    PROVE  SumNet(Live(s, start - 1), Income) = 0
  <1>1. p \in Int /\ \A q \in 1..p : q \in Periods
    BY EarlierPeriods
  <1>2. CASE start = 1
    BY <1>2, NothingBooked
  <1>3. CASE start # 1
    <2>1. start - 1 \in 1..(p - 1) /\ start - 1 \in 1..p
      BY <1>1, <1>3
    <2>2. HardClosed(s, start - 1)
      BY <2>1 DEF InOrder
    <2>3. s.status[start - 1] # "open"
      BY <2>2 DEF HardClosed
    <2>4. 1..((start - 1) - 1) \subseteq s.snapshots[start - 1].before
      BY <2>1, <2>3 DEF InOrder
    <2>5. start - 1 \in Periods
      BY <1>1, <2>1
    <2>6. QED BY <2>3, <2>4, <2>5, ClosedPeriodHasNoIncome
  <1>4. QED BY <1>2, <1>3

\* Balances up to p: those before a scope, what its operations moved, and what its
\* hard closes parked.
Before(s, start) == Live(s, start - 1)
Moves(s, start, p) == Totals(Operational(Within(s, start..p)))
Parks(s, start, p) == Totals(Closing(Within(s, start..p)))
LEMMA ScopeAddsUp ==
    ASSUME NEW s, BookOK(s), NEW p \in Periods, NEW start \in 1..p
    PROVE  /\ Typed(Live(s, p)) /\ Typed(Before(s, start))
           /\ Typed(Moves(s, start, p)) /\ Typed(Parks(s, start, p))
           /\ \A a \in Accounts : Net(Live(s, p)[a]) =
                 Net(Before(s, start)[a]) + Net(Moves(s, start, p)[a]) + Net(Parks(s, start, p)[a])
           /\ \A A \in SUBSET Accounts : SumNet(Live(s, p), A) =
                 SumNet(Before(s, start), A) + SumNet(Moves(s, start, p), A) + SumNet(Parks(s, start, p), A)
           /\ SumNet(Live(s, p), Accounts) = 0 /\ SumNet(Moves(s, start, p), Accounts) = 0
           /\ \A a \in Accounts \ ClosingAccounts : Net(Parks(s, start, p)[a]) = 0
           /\ SumNet(Parks(s, start, p), Equity) = -SumNet(Parks(s, start, p), Income)
  <1> DEFINE B == Through(s, start - 1)
             W == Within(s, start..p)
             O == Operational(W)
             K == Closing(W)
  <1>1. Through(s, p) = B \cup W /\ B \cap W = {} /\ JournalsFit(B \cup W)
    <2>1. Through(s, p) = B \cup W /\ B \cap W = {}
      BY ThroughIsBeforeAndWithin
    <2>2. JournalsFit(Through(s, p))
      BY ThroughFits
    <2> HIDE DEF B, W
    <2>3. QED BY <2>1, <2>2
  <1>2. /\ Live(s, p) = Totals(B \cup W) /\ Before(s, start) = Totals(B)
        /\ Moves(s, start, p) = Totals(O) /\ Parks(s, start, p) = Totals(K)
    BY <1>1 DEF Live, Before, Moves, Parks
  <1> HIDE DEF B, W
  <1>3. JournalsFit(W)
    BY <1>1, PartFits
  <1>4. /\ W = O \cup K /\ O \cap K = {} /\ JournalsFit(O)
        /\ \A a \in Accounts \ ClosingAccounts : Net(Totals(K)[a]) = 0
        /\ SumNet(Totals(K), Equity) = Net(Totals(K)["310100"])
        /\ Net(Totals(K)["310100"]) = -SumNet(Totals(K), Income)
    BY <1>3, OperationalAndClosing
  <1> HIDE DEF O, K
  <1>5. /\ \A a \in Accounts : Net(Totals(B \cup W)[a]) = Net(Totals(B)[a]) + Net(Totals(W)[a])
        /\ \A A \in SUBSET Accounts :
              SumNet(Totals(B \cup W), A) = SumNet(Totals(B), A) + SumNet(Totals(W), A)
        /\ Typed(Totals(B)) /\ Typed(Totals(B \cup W))
    BY <1>1, TotalsOfUnion
  <1>6. /\ \A a \in Accounts : Net(Totals(W)[a]) = Net(Totals(O)[a]) + Net(Totals(K)[a])
        /\ \A A \in SUBSET Accounts : SumNet(Totals(W), A) = SumNet(Totals(O), A) + SumNet(Totals(K), A)
        /\ Typed(Totals(O)) /\ Typed(Totals(K))
    BY <1>3, OperationsAndCloses DEF O, K
  <1>7. SumNet(Totals(B \cup W), Accounts) = 0 /\ SumNet(Totals(O), Accounts) = 0
    BY <1>1, <1>4, JournalsBalance
  <1>8. \A a \in Accounts : /\ Net(Totals(B)[a]) \in Int /\ Net(Totals(O)[a]) \in Int
                            /\ Net(Totals(K)[a]) \in Int
    BY <1>5, <1>6 DEF Typed
  <1>9. \A A \in SUBSET Accounts : /\ SumNet(Totals(B), A) \in Int /\ SumNet(Totals(O), A) \in Int
                                   /\ SumNet(Totals(K), A) \in Int
    <2> SUFFICES ASSUME NEW A \in SUBSET Accounts
                 PROVE  /\ SumNet(Totals(B), A) \in Int /\ SumNet(Totals(O), A) \in Int
                        /\ SumNet(Totals(K), A) \in Int
      OBVIOUS
    <2>1. A \cap {} = {} /\ {} \in SUBSET Accounts
      OBVIOUS
    <2>2. QED BY <1>5, <1>6, <2>1, SumNetOfParts
  <1>10. \A a \in Accounts : Net(Totals(B \cup W)[a]) =
            Net(Totals(B)[a]) + Net(Totals(O)[a]) + Net(Totals(K)[a])
    <2> TAKE a \in Accounts
    <2> DEFINE l == Net(Totals(B \cup W)[a])
               b == Net(Totals(B)[a])
               w == Net(Totals(W)[a])
               o == Net(Totals(O)[a])
               k == Net(Totals(K)[a])
    <2>1. l = b + w /\ w = o + k /\ b \in Int /\ o \in Int /\ k \in Int
      BY <1>5, <1>6, <1>8
    <2> HIDE DEF l, b, w, o, k
    <2>2. l = b + o + k
      BY <2>1
    <2>3. QED BY <2>2 DEF l, b, w, o, k
  <1>11. \A A \in SUBSET Accounts : SumNet(Totals(B \cup W), A) =
            SumNet(Totals(B), A) + SumNet(Totals(O), A) + SumNet(Totals(K), A)
    <2> TAKE A \in SUBSET Accounts
    <2> DEFINE l == SumNet(Totals(B \cup W), A)
               b == SumNet(Totals(B), A)
               w == SumNet(Totals(W), A)
               o == SumNet(Totals(O), A)
               k == SumNet(Totals(K), A)
    <2>1. l = b + w /\ w = o + k /\ b \in Int /\ o \in Int /\ k \in Int
      BY <1>5, <1>6, <1>9
    <2> HIDE DEF l, b, w, o, k
    <2>2. l = b + o + k
      BY <2>1
    <2>3. QED BY <2>2 DEF l, b, w, o, k
  <1>12. SumNet(Totals(K), Equity) = -SumNet(Totals(K), Income)
    BY <1>4
  <1>13. QED BY <1>2, <1>4, <1>5, <1>6, <1>7, <1>10, <1>11, <1>12

\* The income that the balance sheet of p still shows.
LEMMA UnparkedIncome ==
    ASSUME NEW s, BookOK(s), NEW p \in Periods, InOrder(s, p)
    PROVE  BalanceSheet(s, p).income = -SumNet(Live(s, p), Income)
  <1>1. p \in 1..p /\ Scope(p, "period") = p..p
    BY EarlierPeriods DEF Scope
  <1>2. CASE HardClosed(s, p)
    <2>1. SumNet(Live(s, p), Income) = 0
      BY <1>1, <1>2, ClosedPeriodHasNoIncome DEF InOrder, HardClosed
    <2>2. BalanceSheet(s, p).income = 0
      BY <1>2 DEF BalanceSheet
    <2> DEFINE l == SumNet(Live(s, p), Income)
    <2>3. l \in Int /\ l <= 0 /\ l >= 0
      BY <2>1
    <2> HIDE DEF l
    <2>4. -l = 0
      BY <2>3
    <2>5. QED BY <2>2, <2>4 DEF l
  <1>3. CASE ~HardClosed(s, p)
    <2> DEFINE l == SumNet(Live(s, p), Income)
               b == SumNet(Before(s, p), Income)
               m == SumNet(Moves(s, p, p), Income)
               k == SumNet(Parks(s, p, p), Income)
    <2>1. Income \in SUBSET Accounts
      BY AccountsAreClassed
    <2>2. l = b + m + k
      BY <1>1, <2>1, ScopeAddsUp
    <2>3. Typed(Moves(s, p, p))
      BY <1>1, ScopeAddsUp
    <2>4. m \in Int
      BY <2>3, ClassesBalance
    <2>5. b = 0
      BY <1>1, NoIncomeBefore DEF Before
    <2>6. k = 0
      <3>1. s.status[p] = "open"
        BY <1>3 DEF InOrder, HardClosed, BookOK, Statuses
      <3>2. \A j \in s.journals : j.closing => s.status[j.period] # "open"
        BY DEF BookOK, Referenced
      <3>3. \A q \in p..p : q = p
        BY <1>1
      <3>4. Closing(Within(s, p..p)) = {}
        BY <3>1, <3>2, <3>3 DEF Closing, Within
      <3>5. \A a \in Accounts : Net(Parks(s, p, p)[a]) = 0
        BY <3>4, SidesOfNone DEF Parks, Totals, Zero, Net
      <3>6. \A a \in Income : Net(Parks(s, p, p)[a]) = 0
        BY <2>1, <3>5
      <3>7. QED BY <2>1, <3>6, SumNetOfZeroes
    <2>7. BalanceSheet(s, p).income = -m
      BY <1>1, <1>3 DEF BalanceSheet, NetIncome, Moves
    <2> HIDE DEF l, b, m, k
    <2>8. -m = -l
      BY <2>2, <2>4, <2>5, <2>6
    <2>9. QED BY <2>7, <2>8 DEF l
  <1>4. QED BY <1>2, <1>3

\* _assemble_financial_statement_package: the documents of one view of a book.
LEMMA DocumentsTie ==
    ASSUME NEW s, BookOK(s), NEW p \in Periods, NEW scope \in Scopes, InOrder(s, p)
    PROVE  TiesOut(Documents(s, p, scope))
  <1> DEFINE start == ScopeStart(p, scope)
             live == Live(s, p)
             before == Before(s, start)
             moved == Moves(s, start, p)
             parked == Parks(s, start, p)
             d == Documents(s, p, scope)
  <1>1. start \in 1..p /\ Scope(p, scope) = start..p /\ NoGap(s, p)
    BY ScopeIsARun DEF NoGap
  <1>2. TrialBalance(s, p) = live /\ Opening(s, start) = before
    BY <1>1, InOrderIsLive DEF Before
  <1>3. ScopeTotals(s, p, scope) = moved /\ NetIncome(s, p, scope) = -SumNet(moved, Income)
    BY <1>1 DEF ScopeTotals, NetIncome, Moves
  <1>4. /\ d.balance_sheet.assets = SumNet(live, Assets)
        /\ d.balance_sheet.liabilities = -SumNet(live, Liabilities)
        /\ d.balance_sheet.equity = -SumNet(live, Equity)
        /\ d.balance_sheet.cash = Net(live["110200"])
        /\ d.balance_sheet.income = -SumNet(live, Income)
    <2>1. d.balance_sheet = BalanceSheet(s, p)
      BY DEF Documents
    <2>2. d.balance_sheet.income = -SumNet(live, Income)
      BY <2>1, UnparkedIncome
    <2>3. QED BY <1>2, <2>1, <2>2 DEF BalanceSheet, Assets, Liabilities, Equity
  <1>5. d.changes_in_equity.closing =
           -SumNet(before, Equity) + -SumNet(moved, Income) + -SumNet(moved, Equity)
    BY <1>2, <1>3 DEF Documents, ChangesInEquity, Equity
  <1>6. d.cash_flow.closing =
           Net(before["110200"])
             + (-SumNet(moved, Income)
                 + -SumNet(moved, OfClass({"asset", "liability"}) \ {"110200"}))
             + -SumNet(moved, Equity)
    BY <1>2, <1>3 DEF Documents, CashFlow, Equity
  <1>7. /\ Typed(live) /\ Typed(before) /\ Typed(moved) /\ Typed(parked)
        /\ \A a \in Accounts : Net(live[a]) = Net(before[a]) + Net(moved[a]) + Net(parked[a])
        /\ \A A \in SUBSET Accounts :
              SumNet(live, A) = SumNet(before, A) + SumNet(moved, A) + SumNet(parked, A)
        /\ SumNet(live, Accounts) = 0 /\ SumNet(moved, Accounts) = 0
        /\ \A a \in Accounts \ ClosingAccounts : Net(parked[a]) = 0
        /\ SumNet(parked, Equity) = -SumNet(parked, Income)
    BY <1>1, ScopeAddsUp
  <1>8. SumNet(before, Income) = 0
    BY <1>1, NoIncomeBefore DEF Before
  <1> HIDE DEF start, live, before, moved, parked, d
  <1> DEFINE lA == SumNet(live, Assets)
             lL == SumNet(live, Liabilities)
             lE == SumNet(live, Equity)
             lI == SumNet(live, Income)
             bE == SumNet(before, Equity)
             bI == SumNet(before, Income)
             mA == SumNet(moved, Assets)
             mL == SumNet(moved, Liabilities)
             mE == SumNet(moved, Equity)
             mI == SumNet(moved, Income)
             pE == SumNet(parked, Equity)
             pI == SumNet(parked, Income)
             lC == Net(live["110200"])
             bC == Net(before["110200"])
             mC == Net(moved["110200"])
             work == SumNet(moved, OfClass({"asset", "liability"}) \ {"110200"})
  <1>9. /\ lA \in Int /\ lL \in Int /\ lE \in Int /\ lI \in Int
        /\ lA + lL + lE + lI = 0
    <2>1. SumNet(live, Accounts) = lA + lL + lE + lI
      BY <1>7, ClassesBalance
    <2>2. lA \in Int /\ lL \in Int /\ lE \in Int /\ lI \in Int
      BY <1>7, ClassesBalance
    <2>3. QED BY <1>7, <2>1, <2>2
  <1>10. /\ mA \in Int /\ mL \in Int /\ mE \in Int /\ mI \in Int
         /\ mA + mL + mE + mI = 0
    <2>1. SumNet(moved, Accounts) = mA + mL + mE + mI
      BY <1>7, ClassesBalance
    <2>2. mA \in Int /\ mL \in Int /\ mE \in Int /\ mI \in Int
      BY <1>7, ClassesBalance
    <2>3. QED BY <1>7, <2>1, <2>2
  <1>11. bE \in Int /\ bI = 0 /\ pE \in Int /\ pI \in Int /\ pE = -pI
    <2>1. bE \in Int
      BY <1>7, ClassesBalance
    <2>2. pE \in Int /\ pI \in Int
      BY <1>7, ClassesBalance
    <2>3. QED BY <1>7, <1>8, <2>1, <2>2
  <1>12. lE = bE + mE + pE /\ lI = bI + mI + pI
    BY <1>7, AccountsAreClassed
  <1>13. work = mA + mL - mC /\ mC \in Int
    BY <1>7, CashApart
  <1>14. lC = bC + mC /\ lC \in Int /\ bC \in Int
    <2>1. "110200" \in Accounts \ ClosingAccounts
      BY AccountsAreClassed, CatalogAssumption DEF ClosingAccounts, Assets, Income, OfClass
    <2>2. lC = bC + mC + Net(parked["110200"]) /\ Net(parked["110200"]) = 0
      BY <1>7, <2>1
    <2>3. lC \in Int /\ bC \in Int /\ mC \in Int
      BY <1>7, <2>1 DEF Typed
    <2> HIDE DEF lC, bC, mC
    <2>4. QED BY <2>2, <2>3
  <1>15. /\ d.balance_sheet.assets = lA /\ d.balance_sheet.liabilities = -lL
         /\ d.balance_sheet.equity = -lE /\ d.balance_sheet.cash = lC
         /\ d.balance_sheet.income = -lI
         /\ d.changes_in_equity.closing = -bE + -mI + -mE
         /\ d.cash_flow.closing = bC + (-mI + -work) + -mE
    BY <1>4, <1>5, <1>6
  <1>16. TiesOut(d)
    <2> HIDE DEF lA, lL, lE, lI, bE, bI, mA, mL, mE, mI, pE, pI, lC, bC, mC, work
    <2>1. lA = (-lL) + (-lE) + (-lI)
      BY <1>9
    <2>2. -bE + -mI + -mE = (-lE) + (-lI)
      BY <1>9, <1>10, <1>11, <1>12
    <2>3. bC + (-mI + -work) + -mE = lC
      BY <1>10, <1>13, <1>14
    <2>4. QED BY <1>15, <2>1, <2>2, <2>3 DEF TiesOut
  <1>17. QED BY <1>16 DEF d

-----------------------------------------------------------------------------
(* The working papers *)

\* The lines of an account book no negative amount.
LEMMA SidesNat ==
    ASSUME NEW J, JournalsFit(J), NEW a
    PROVE  Sides(J, a).debit \in Nat /\ Sides(J, a).credit \in Nat
  <1> DEFINE L == LinesOn(J, a)
             D == [l \in L |-> l[2].debit]
             C == [l \in L |-> l[2].credit]
  <1>1. IsFiniteSet(L)
    BY LinesOnFit
  <1>2. Sides(J, a) = [debit |-> SumOver(D, L), credit |-> SumOver(C, L)]
    BY SidesAdd
  <1>3. ASSUME NEW l \in L
        PROVE  l[2].debit \in Nat /\ l[2].credit \in Nat
    <2>1. PICK j \in J : \E x \in j.lines : x.account = a /\ l = <<j.ref, x>>
      BY DEF LinesOn
    <2>2. l[2] \in j.lines
      BY <2>1
    <2>3. l[2] \in Line
      BY <2>2 DEF JournalsFit, JournalFits, LinesFit
    <2>4. QED BY <2>3 DEF Line
  <1>4. (\A l \in L : D[l] \in Nat) /\ (\A l \in L : C[l] \in Nat)
    BY <1>3
  <1> HIDE DEF L, D, C
  <1>5. SumOver(D, L) \in Nat /\ SumOver(C, L) \in Nat
    BY <1>1, <1>4, SumNat
  <1>6. QED BY <1>2, <1>5

\* Journals that book nothing on one side of an account.
LEMMA NothingOnASide ==
    ASSUME NEW J, JournalsFit(J), NEW a
    PROVE  /\ (\A j \in J : ~On(j, a, "debit")) => Sides(J, a).debit = 0
           /\ (\A j \in J : ~On(j, a, "credit")) => Sides(J, a).credit = 0
  <1> DEFINE L == LinesOn(J, a)
             D == [l \in L |-> l[2].debit]
             C == [l \in L |-> l[2].credit]
  <1>1. IsFiniteSet(L)
    BY LinesOnFit
  <1>2. Sides(J, a) = [debit |-> SumOver(D, L), credit |-> SumOver(C, L)]
    BY SidesAdd
  <1>3. ASSUME NEW l \in L
        PROVE  \E j \in J : /\ l[2] \in j.lines /\ l[2].account = a
                            /\ l[2].debit \in Nat /\ l[2].credit \in Nat
    <2>1. PICK j \in J : \E x \in j.lines : x.account = a /\ l = <<j.ref, x>>
      BY DEF LinesOn
    <2>2. l[2] \in j.lines /\ l[2].account = a
      BY <2>1
    <2>3. l[2] \in Line
      BY <2>2 DEF JournalsFit, JournalFits, LinesFit
    <2>4. l[2].debit \in Nat /\ l[2].credit \in Nat
      BY <2>3 DEF Line
    <2>5. QED BY <2>2, <2>4
  <1>4. ASSUME \A j \in J : ~On(j, a, "debit")
        PROVE  Sides(J, a).debit = 0
    <2>1. \A l \in L : l[2].debit = 0
      BY <1>3, <1>4 DEF On
    <2>2. \A l \in L : D[l] = 0
      BY <2>1
    <2> HIDE DEF L, D, C
    <2>3. SumOver(D, L) = 0
      BY <1>1, <2>2, SumOfZeroes
    <2>4. QED BY <1>2, <2>3
  <1>5. ASSUME \A j \in J : ~On(j, a, "credit")
        PROVE  Sides(J, a).credit = 0
    <2>1. \A l \in L : l[2].credit = 0
      BY <1>3, <1>5 DEF On
    <2>2. \A l \in L : C[l] = 0
      BY <2>1
    <2> HIDE DEF L, D, C
    <2>3. SumOver(C, L) = 0
      BY <1>1, <2>2, SumOfZeroes
    <2>4. QED BY <1>2, <2>3
  <1>6. QED BY <1>4, <1>5

\* A role that only one account has is on that account's lines.
LEMMA RolesAreOn ==
    ASSUME NEW j, JournalFits(j)
    PROVE  /\ "unapplied_cash" \in Roles(j, "debit") => On(j, "210200", "debit")
           /\ "unapplied_cash" \in Roles(j, "credit") => On(j, "210200", "credit")
           /\ "tax_payable" \in Roles(j, "debit") => On(j, "210100", "debit")
           /\ "tax_payable" \in Roles(j, "credit") => On(j, "210100", "credit")
  <1>1. ASSUME NEW x \in j.lines
        PROVE  /\ x.role = "unapplied_cash" => x.account = "210200"
               /\ x.role = "tax_payable" => x.account = "210100"
    <2>1. x \in Line /\ Booked(x)
      BY DEF JournalFits, LinesFit
    <2>2. x.account \in Accounts
      BY <2>1 DEF Line
    <2>3. x.role = "adjusting" \/ x.role = RoleOf[x.account]
      BY <2>1 DEF Booked
    <2>4. QED BY <2>2, <2>3, CatalogAssumption
  <1>2. QED BY <1>1 DEF Roles, On

\* What some journals book on a side is at most what others do, if the ones that
\* are not among the others book nothing there.
LEMMA SideIsAmong ==
    ASSUME NEW J, JournalsFit(J), NEW K, K \subseteq J, NEW C, C \subseteq J, NEW a
    PROVE  /\ (\A j \in K \ C : ~On(j, a, "debit")) =>
                 Sides(K, a).debit \in Nat /\ Sides(K, a).debit <= Sides(C, a).debit
           /\ (\A j \in K \ C : ~On(j, a, "credit")) =>
                 Sides(K, a).credit \in Nat /\ Sides(K, a).credit <= Sides(C, a).credit
  <1> DEFINE B == K \cap C
             O == K \ C
             R == C \ K
  <1>1. /\ K = O \cup B /\ O \cap B = {} /\ C = R \cup B /\ R \cap B = {}
        /\ \A j \in O : j \in K \ C
    OBVIOUS
  <1>2. JournalsFit(K) /\ JournalsFit(C) /\ JournalsFit(B) /\ JournalsFit(O) /\ JournalsFit(R)
    BY PartFits
  <1> HIDE DEF B, O, R
  <1>3. Sides(K, a) = Plus(Sides(O, a), Sides(B, a))
    <2>1. JournalsFit(O \cup B) /\ O \cap B = {}
      BY <1>1, <1>2
    <2>2. Sides(O \cup B, a) = Plus(Sides(O, a), Sides(B, a))
      BY <2>1, SidesOfUnion
    <2>3. QED BY <1>1, <2>2
  <1>4. Sides(C, a) = Plus(Sides(R, a), Sides(B, a))
    <2>1. JournalsFit(R \cup B) /\ R \cap B = {}
      BY <1>1, <1>2
    <2>2. Sides(R \cup B, a) = Plus(Sides(R, a), Sides(B, a))
      BY <2>1, SidesOfUnion
    <2>3. QED BY <1>1, <2>2
  <1>5. /\ Sides(B, a).debit \in Nat /\ Sides(B, a).credit \in Nat
        /\ Sides(R, a).debit \in Nat /\ Sides(R, a).credit \in Nat
    BY <1>2, SidesNat
  <1>6. /\ Sides(K, a).debit = Sides(O, a).debit + Sides(B, a).debit
        /\ Sides(K, a).credit = Sides(O, a).credit + Sides(B, a).credit
        /\ Sides(C, a).debit = Sides(R, a).debit + Sides(B, a).debit
        /\ Sides(C, a).credit = Sides(R, a).credit + Sides(B, a).credit
    BY <1>3, <1>4 DEF Plus
  <1>7. /\ (\A j \in O : ~On(j, a, "debit")) => Sides(O, a).debit = 0
        /\ (\A j \in O : ~On(j, a, "credit")) => Sides(O, a).credit = 0
    BY <1>2, NothingOnASide
  <1>8. QED BY <1>5, <1>6, <1>7 DEF O

\* Every journal is a movement of one kind (_unapplied_cash_movement_kind,
\* _vat_period_movement_kind), and the side that the kind leaves out of its paper
\* has nothing on it, unless the journal disagrees with its key.
LEMMA MovementsAreOneSided ==
    ASSUME NEW j, JournalFits(j)
    PROVE  /\ CashMovement(j) \in {"parked", "applied", "refunded", "other"}
           /\ CashAgrees(j) =>
                 /\ CashMovement(j) = "parked" => ~On(j, "210200", "debit")
                 /\ CashMovement(j) \in {"applied", "refunded"} => ~On(j, "210200", "credit")
           /\ VatMovement(j) \in {"issued", "voided", "other"}
           /\ VatAgrees(j) =>
                 /\ VatMovement(j) = "issued" => ~On(j, "210100", "debit")
                 /\ VatMovement(j) = "voided" => ~On(j, "210100", "credit")
  <1>1. /\ CashMovement(j) \in {"parked", "applied", "refunded", "other"}
        /\ CashMovement(j) = "parked" =>
              j.key = "unapplied_cash" \/ "unapplied_cash" \in Roles(j, "credit")
        /\ CashMovement(j) \in {"applied", "refunded"} =>
              \/ j.key \in {"unapplied_cash_application", "unapplied_cash_refund"}
              \/ "unapplied_cash" \in Roles(j, "debit")
    BY DEF CashMovement
  <1>2. /\ VatMovement(j) \in {"issued", "voided", "other"}
        /\ VatMovement(j) = "issued" =>
              j.key = "invoice_draft" \/ "tax_payable" \in Roles(j, "credit")
        /\ VatMovement(j) = "voided" =>
              j.key = "issued_invoice_void" \/ "tax_payable" \in Roles(j, "debit")
    BY DEF VatMovement
  <1>3. ASSUME j.key = "none", \A x \in j.lines : x.role = "adjusting"
        PROVE  CashMovement(j) = "other" /\ VatMovement(j) = "other"
    <2>1. \A side \in {"debit", "credit"} : \A r \in Roles(j, side) : r = "adjusting"
      BY <1>3 DEF Roles
    <2>2. CashMovement(j) = "other"
      BY <1>3, <2>1 DEF CashMovement
    <2>3. VatMovement(j) = "other"
      BY <1>3, <2>1 DEF VatMovement
    <2>4. QED BY <2>2, <2>3
  <1>4. ASSUME CashAgrees(j)
        PROVE  /\ CashMovement(j) = "parked" => ~On(j, "210200", "debit")
               /\ CashMovement(j) \in {"applied", "refunded"} => ~On(j, "210200", "credit")
    BY <1>1, <1>3, <1>4, RolesAreOn DEF CashAgrees, Agrees
  <1>5. ASSUME VatAgrees(j)
        PROVE  /\ VatMovement(j) = "issued" => ~On(j, "210100", "debit")
               /\ VatMovement(j) = "voided" => ~On(j, "210100", "credit")
    BY <1>2, <1>3, <1>5, RolesAreOn DEF VatAgrees, Agrees
  <1>6. QED BY <1>1, <1>2, <1>4, <1>5

\* The balance of an account that no closing journal books is what operational
\* journals book.
LEMMA OnlyOperations ==
    ASSUME NEW J, JournalsFit(J), NEW a \in Accounts \ ClosingAccounts
    PROVE  /\ Net(Sides(J, a)) = Net(Sides(Operational(J), a))
           /\ JournalsFit(Operational(J))
  <1> DEFINE n == Net(Totals(J)[a])
             o == Net(Totals(Operational(J))[a])
             c == Net(Totals(Closing(J))[a])
  <1>1. JournalsFit(Operational(J))
    BY OperationalAndClosing
  <1>2. c = 0
    BY OperationalAndClosing
  <1>3. n = o + c
    BY OperationsAndCloses
  <1>4. o = Net(Sides(Operational(J), a)) /\ o \in Int
    BY <1>1, TotalsTyped DEF Typed
  <1>5. n = Net(Sides(J, a))
    BY TotalsTyped
  <1> HIDE DEF n, o, c
  <1>6. n = o
    BY <1>2, <1>3, <1>4
  <1>7. QED BY <1>1, <1>4, <1>5, <1>6

\* What a paper's movements add up to, credit-normal, is off the account by at most
\* what the journals that disagree with their key book on it.
LEMMA CashMovementsAddUp ==
    ASSUME NEW J, JournalsFit(J)
    PROVE  LET moved(kind) == Moved(J, "210200", CashMovement, kind)
               off == Sides({j \in Operational(J) : ~CashAgrees(j)}, "210200")
           IN  /\ moved("parked").credit - moved("applied").debit - moved("refunded").debit
                    + (-Net(moved("other"))) + Net(Sides(J, "210200")) \in -off.credit..off.debit
               /\ moved("parked").credit \in Int /\ moved("applied").debit \in Int
               /\ moved("refunded").debit \in Int /\ Net(moved("other")) \in Int
               /\ off.debit \in Int /\ off.credit \in Int
  <1> DEFINE O == Operational(J)
             Kind(kind) == {j \in O : CashMovement(j) = kind}
             Of(kind) == Sides(Kind(kind), "210200")
             P == Kind("parked")
             A == Kind("applied")
             R == Kind("refunded")
             X == Kind("other")
             C == {j \in O : ~CashAgrees(j)}
             a == "210200"
  <1>1. a \in Accounts \ ClosingAccounts
    BY CatalogAssumption DEF ClosingAccounts, Income, OfClass
  <1>2. Net(Sides(J, a)) = Net(Sides(O, a)) /\ JournalsFit(O)
    BY <1>1, OnlyOperations
  <1>3. \A j \in O : JournalFits(j)
    BY DEF Operational, JournalsFit
  <1>4. /\ O = ((P \cup A) \cup R) \cup X
        /\ P \cap A = {} /\ (P \cup A) \cap R = {} /\ ((P \cup A) \cup R) \cap X = {}
    <2> HIDE DEF O
    <2>1. QED BY <1>3, MovementsAreOneSided
  <1>5. /\ \A j \in P \ C : ~On(j, a, "debit")
        /\ \A j \in (A \cup R) \ C : ~On(j, a, "credit")
        /\ P \subseteq O /\ A \cup R \subseteq O /\ C \subseteq O /\ A \cap R = {}
    <2> HIDE DEF O
    <2>1. QED BY <1>3, MovementsAreOneSided
  <1>6. \A kind : Moved(J, a, CashMovement, kind) = Of(kind)
    BY DEF Moved
  <1>7. /\ Of("parked") = Sides(P, a) /\ Of("applied") = Sides(A, a)
        /\ Of("refunded") = Sides(R, a) /\ Of("other") = Sides(X, a)
    OBVIOUS
  <1> HIDE DEF O, P, A, R, X, C, Kind, Of
  <1>8. JournalsFit(P) /\ JournalsFit(A) /\ JournalsFit(R) /\ JournalsFit(X)
        /\ JournalsFit(P \cup A) /\ JournalsFit((P \cup A) \cup R)
        /\ JournalsFit(((P \cup A) \cup R) \cup X) /\ JournalsFit(A \cup R) /\ JournalsFit(C)
    BY <1>2, <1>4, <1>5, PartFits
  <1> DEFINE n == Net(Sides(O, a))
             np == Net(Sides(P, a))
             na == Net(Sides(A, a))
             nr == Net(Sides(R, a))
             nx == Net(Sides(X, a))
             npa == Net(Sides(P \cup A, a))
             npar == Net(Sides((P \cup A) \cup R, a))
  <1>9. npa = np + na
    <2>1. JournalsFit(P \cup A) /\ P \cap A = {}
      BY <1>4, <1>8
    <2>2. QED BY <2>1, SidesOfUnion
  <1>10. npar = npa + nr
    <2>1. JournalsFit((P \cup A) \cup R) /\ (P \cup A) \cap R = {}
      BY <1>4, <1>8
    <2>2. QED BY <2>1, SidesOfUnion
  <1>11. n = npar + nx
    <2>1. JournalsFit(((P \cup A) \cup R) \cup X) /\ ((P \cup A) \cup R) \cap X = {}
      BY <1>4, <1>8
    <2> DEFINE K == (P \cup A) \cup R
    <2>2. JournalsFit(K \cup X) /\ K \cap X = {}
      BY <2>1
    <2>3. K \cup X = O /\ npar = Net(Sides(K, a))
      BY <1>4
    <2> HIDE DEF K, npar, n, nx
    <2>4. Net(Sides(K \cup X, a)) = Net(Sides(K, a)) + Net(Sides(X, a))
      BY <2>2, SidesOfUnion
    <2>5. QED BY <2>3, <2>4 DEF n, nx
  <1> DEFINE p == Sides(P, a).credit
             q == Sides(A, a).debit
             r == Sides(R, a).debit
             pd == Sides(P, a).debit
             ac == Sides(A, a).credit
             rc == Sides(R, a).credit
             cd == Sides(C, a).debit
             cc == Sides(C, a).credit
  <1>12. pd \in Nat /\ pd <= cd
    BY <1>2, <1>5, SideIsAmong
  <1>13. Sides(A \cup R, a).credit <= cc
    BY <1>2, <1>5, SideIsAmong
  <1>14. Sides(A \cup R, a).credit = ac + rc
    <2>1. Sides(A \cup R, a) = Plus(Sides(A, a), Sides(R, a))
      BY <1>5, <1>8, SidesOfUnion
    <2>2. QED BY <2>1 DEF Plus
  <1>15. /\ p \in Nat /\ q \in Nat /\ r \in Nat /\ ac \in Nat /\ rc \in Nat
         /\ cd \in Nat /\ cc \in Nat
    BY <1>8, SidesNat
  <1>16. np = pd - p /\ na = q - ac /\ nr = r - rc /\ nx \in Int
    BY <1>8, SidesTyped DEF Net
  <1>17. /\ Moved(J, a, CashMovement, "parked").credit = p
         /\ Moved(J, a, CashMovement, "applied").debit = q
         /\ Moved(J, a, CashMovement, "refunded").debit = r
         /\ Net(Moved(J, a, CashMovement, "other")) = nx
    BY <1>6, <1>7
  <1>18. Net(Sides(J, a)) = n
    BY <1>2
  <1>19. Sides({j \in Operational(J) : ~CashAgrees(j)}, a) = Sides(C, a)
    BY DEF C, O
  <1> HIDE DEF n, np, na, nr, nx, npa, npar, p, q, r, pd, ac, rc, cd, cc, a
  <1>20. p - q - r + (-nx) + n = pd - (ac + rc)
    BY <1>9, <1>10, <1>11, <1>12, <1>15, <1>16
  <1>21. p - q - r + (-nx) + n \in -cc..cd
    BY <1>12, <1>13, <1>14, <1>15, <1>20
  <1>22. QED BY <1>15, <1>16, <1>17, <1>18, <1>19, <1>21 DEF a, cc, cd

LEMMA VatMovementsAddUp ==
    ASSUME NEW J, JournalsFit(J)
    PROVE  LET moved(kind) == Moved(J, "210100", VatMovement, kind)
               off == Sides({j \in Operational(J) : ~VatAgrees(j)}, "210100")
           IN  moved("issued").credit - moved("voided").debit + (-Net(moved("other")))
                  + Net(Sides(J, "210100")) \in -off.credit..off.debit
  <1> DEFINE O == Operational(J)
             Kind(kind) == {j \in O : VatMovement(j) = kind}
             Of(kind) == Sides(Kind(kind), "210100")
             I == Kind("issued")
             V == Kind("voided")
             X == Kind("other")
             C == {j \in O : ~VatAgrees(j)}
             a == "210100"
  <1>1. a \in Accounts \ ClosingAccounts
    BY CatalogAssumption DEF ClosingAccounts, Income, OfClass
  <1>2. Net(Sides(J, a)) = Net(Sides(O, a)) /\ JournalsFit(O)
    BY <1>1, OnlyOperations
  <1>3. \A j \in O : JournalFits(j)
    BY DEF Operational, JournalsFit
  <1>4. O = (I \cup V) \cup X /\ I \cap V = {} /\ (I \cup V) \cap X = {}
    <2> HIDE DEF O
    <2>1. QED BY <1>3, MovementsAreOneSided
  <1>5. /\ \A j \in I \ C : ~On(j, a, "debit")
        /\ \A j \in V \ C : ~On(j, a, "credit")
        /\ I \subseteq O /\ V \subseteq O /\ C \subseteq O
    <2> HIDE DEF O
    <2>1. QED BY <1>3, MovementsAreOneSided
  <1>6. \A kind : Moved(J, a, VatMovement, kind) = Of(kind)
    BY DEF Moved
  <1>7. Of("issued") = Sides(I, a) /\ Of("voided") = Sides(V, a) /\ Of("other") = Sides(X, a)
    OBVIOUS
  <1> HIDE DEF O, I, V, X, C, Kind, Of
  <1>8. JournalsFit(I) /\ JournalsFit(V) /\ JournalsFit(X) /\ JournalsFit(I \cup V)
        /\ JournalsFit((I \cup V) \cup X) /\ JournalsFit(C)
    BY <1>2, <1>4, <1>5, PartFits
  <1> DEFINE n == Net(Sides(O, a))
             ni == Net(Sides(I, a))
             nv == Net(Sides(V, a))
             nx == Net(Sides(X, a))
             niv == Net(Sides(I \cup V, a))
  <1>9. niv = ni + nv
    <2>1. JournalsFit(I \cup V) /\ I \cap V = {}
      BY <1>4, <1>8
    <2>2. QED BY <2>1, SidesOfUnion
  <1>10. n = niv + nx
    <2>1. JournalsFit((I \cup V) \cup X) /\ (I \cup V) \cap X = {}
      BY <1>4, <1>8
    <2> DEFINE K == I \cup V
    <2>2. JournalsFit(K \cup X) /\ K \cap X = {}
      BY <2>1
    <2>3. K \cup X = O /\ niv = Net(Sides(K, a))
      BY <1>4
    <2> HIDE DEF K, niv, n, nx
    <2>4. Net(Sides(K \cup X, a)) = Net(Sides(K, a)) + Net(Sides(X, a))
      BY <2>2, SidesOfUnion
    <2>5. QED BY <2>3, <2>4 DEF n, nx
  <1> DEFINE i == Sides(I, a).credit
             v == Sides(V, a).debit
             id == Sides(I, a).debit
             vc == Sides(V, a).credit
             cd == Sides(C, a).debit
             cc == Sides(C, a).credit
  <1>11. id \in Nat /\ id <= cd /\ vc \in Nat /\ vc <= cc
    <2>1. id \in Nat /\ id <= cd
      BY <1>2, <1>5, SideIsAmong
    <2>2. vc \in Nat /\ vc <= cc
      BY <1>2, <1>5, SideIsAmong
    <2>3. QED BY <2>1, <2>2
  <1>12. i \in Nat /\ v \in Nat /\ cd \in Nat /\ cc \in Nat
    BY <1>8, SidesNat
  <1>13. ni = id - i /\ nv = v - vc /\ nx \in Int
    BY <1>8, SidesTyped DEF Net
  <1>14. /\ Moved(J, a, VatMovement, "issued").credit = i
         /\ Moved(J, a, VatMovement, "voided").debit = v
         /\ Net(Moved(J, a, VatMovement, "other")) = nx
    BY <1>6, <1>7
  <1>15. Net(Sides(J, a)) = n
    BY <1>2
  <1>16. Sides({j \in Operational(J) : ~VatAgrees(j)}, a) = Sides(C, a)
    BY DEF C, O
  <1> HIDE DEF n, ni, nv, nx, niv, i, v, id, vc, cd, cc, a
  <1>17. i - v + (-nx) + n = id - vc
    BY <1>9, <1>10, <1>11, <1>12, <1>13
  <1>18. i - v + (-nx) + n \in -cc..cd
    BY <1>11, <1>12, <1>17
  <1>19. QED BY <1>14, <1>15, <1>16, <1>18 DEF a, cc, cd

\* load_unapplied_cash_rollforward, load_vat_period_register.
LEMMA PapersTie ==
    ASSUME NEW s, BookOK(s), NEW p \in Periods, NoGap(s, p)
    PROVE  LET cash == Sides({j \in Operational(Within(s, {p})) : ~CashAgrees(j)}, "210200")
               vat == Sides({j \in Operational(Through(s, p)) : ~VatAgrees(j)}, "210100")
               tb == TrialBalance(s, p)
           IN  /\ UnappliedCash(s, p).closing + Net(tb["210200"]) \in -cash.credit..cash.debit
               /\ VatRegister(s, p).closing + Net(tb["210100"]) \in -vat.credit..vat.debit
  <1> DEFINE B == Through(s, p - 1)
             W == Within(s, {p})
             J == Through(s, p)
  <1>1. p \in 1..p /\ p..p = {p}
    BY EarlierPeriods
  <1>2. "210200" \in Accounts /\ "210100" \in Accounts
    BY CatalogAssumption
  <1>3. TrialBalance(s, p) = Live(s, p) /\ Opening(s, p) = Live(s, p - 1)
    BY <1>1, InOrderIsLive
  <1>4. /\ TrialBalance(s, p)["210200"] = Sides(J, "210200")
        /\ TrialBalance(s, p)["210100"] = Sides(J, "210100")
        /\ Opening(s, p)["210200"] = Sides(B, "210200")
    BY <1>2, <1>3 DEF Live, Totals
  <1>5. J = B \cup W /\ B \cap W = {} /\ JournalsFit(J)
    BY <1>1, ThroughIsBeforeAndWithin, ThroughFits
  <1> HIDE DEF B, W, J
  <1>6. JournalsFit(B) /\ JournalsFit(W)
    BY <1>5, PartFits
  <1> DEFINE vat == Sides({j \in Operational(J) : ~VatAgrees(j)}, "210100")
             cash == Sides({j \in Operational(W) : ~CashAgrees(j)}, "210200")
  <1>7. VatRegister(s, p).closing + Net(TrialBalance(s, p)["210100"]) \in -vat.credit..vat.debit
    <2>1. VatRegister(s, p).closing =
             Moved(J, "210100", VatMovement, "issued").credit
               - Moved(J, "210100", VatMovement, "voided").debit
               + (-Net(Moved(J, "210100", VatMovement, "other")))
      BY DEF VatRegister, J
    <2>2. Moved(J, "210100", VatMovement, "issued").credit
            - Moved(J, "210100", VatMovement, "voided").debit
            + (-Net(Moved(J, "210100", VatMovement, "other")))
            + Net(Sides(J, "210100")) \in -vat.credit..vat.debit
      BY <1>5, VatMovementsAddUp
    <2>3. QED BY <1>4, <2>1, <2>2
  <1>8. UnappliedCash(s, p).closing + Net(TrialBalance(s, p)["210200"]) \in -cash.credit..cash.debit
    <2> DEFINE o == Net(Sides(B, "210200"))
               w == Net(Sides(W, "210200"))
               n == Net(Sides(J, "210200"))
               pc == Moved(W, "210200", CashMovement, "parked").credit
               ad == Moved(W, "210200", CashMovement, "applied").debit
               rd == Moved(W, "210200", CashMovement, "refunded").debit
               x == Net(Moved(W, "210200", CashMovement, "other"))
    <2>1. UnappliedCash(s, p).closing = (-o) + pc - ad - rd + (-x)
      BY <1>4 DEF UnappliedCash, W
    <2>2. /\ pc - ad - rd + (-x) + w \in -cash.credit..cash.debit
          /\ pc \in Int /\ ad \in Int /\ rd \in Int /\ x \in Int
      BY <1>6, CashMovementsAddUp
    <2>3. n = o + w
      BY <1>5, SidesOfUnion
    <2>4. o \in Int /\ w \in Int
      BY <1>6, SidesTyped
    <2>5. TrialBalance(s, p)["210200"] = Sides(J, "210200")
      BY <1>4
    <2> HIDE DEF o, w, pc, ad, rd, x, cash
    <2>6. (-o) + pc - ad - rd + (-x) + (o + w) = pc - ad - rd + (-x) + w
      BY <2>2, <2>4
    <2>7. QED BY <2>1, <2>2, <2>3, <2>5, <2>6
  <1>9. QED BY <1>7, <1>8 DEF J, W

-----------------------------------------------------------------------------
(* Aging *)

\* A decrease consumes what is open from the front, and no more than there is.
LEMMA SettleConsumes ==
    ASSUME NEW n \in Nat, NEW open \in [1..n -> Nat], NEW x \in Nat
    PROVE  /\ Settle(open, x) \in [1..n -> Nat]
           /\ \A i \in 1..n : Settle(open, x)[i] <= open[i]
           /\ \A i \in 0..n : SumUpTo(Settle(open, x), i) = Larger(SumUpTo(open, i) - x, 0)
  <1> DEFINE Left(g) == g = [i \in {0} \cup DOMAIN open |->
                IF i = 0 THEN x ELSE g[i - 1] - Smaller(open[i], g[i - 1])]
             left == CHOOSE g : Left(g)
             settled == [i \in DOMAIN open |-> open[i] - Smaller(open[i], left[i - 1])]
  <1>1. Settle(open, x) = settled
    BY DEF Settle
  <1>2. DOMAIN open = 1..n /\ {0} \cup DOMAIN open = 0..n /\ \A i \in 1..n : open[i] \in Nat
    OBVIOUS
  <1>3. \E g : Left(g)
    <2> DEFINE turn == [t \in (1..n) \X Int |-> t[2] - Smaller(open[t[1]], t[2])]
    <2>1. turn \in [(1..n) \X Int -> Int]
      BY DEF Smaller
    <2>2. \A i \in 1..n, v \in Int : turn[<<i, v>>] = v - Smaller(open[i], v)
      OBVIOUS
    <2> HIDE DEF turn
    <2>3. PICK g \in [0..n -> Int] : Runs(g, n, x, turn)
      <3>1. x \in Int
        OBVIOUS
      <3>2. QED BY <2>1, <3>1, LoopRuns
    <2>4. \A i \in 1..n : g[i] = g[i - 1] - Smaller(open[i], g[i - 1])
      <3> TAKE i \in 1..n
      <3>1. i - 1 \in 0..n
        OBVIOUS
      <3>2. g[i - 1] \in Int
        BY <2>3, <3>1
      <3>3. QED BY <2>2, <2>3, <3>2 DEF Runs
    <2>5. g[0] = x
      BY <2>3 DEF Runs
    <2>6. Left(g)
      <3>1. \A i \in 0..n : g[i] = IF i = 0 THEN x ELSE g[i - 1] - Smaller(open[i], g[i - 1])
        BY <2>4, <2>5
      <3>2. g = [i \in 0..n |-> IF i = 0 THEN x ELSE g[i - 1] - Smaller(open[i], g[i - 1])]
        BY <2>3, <3>1
      <3>3. QED BY <1>2, <3>2
    <2>7. QED BY <2>6
  <1>4. Left(left)
    <2> HIDE DEF Left
    <2>1. QED BY <1>3
  <1> HIDE DEF left
  <1>5. left[0] = x /\ \A i \in 1..n : left[i] = left[i - 1] - Smaller(open[i], left[i - 1])
    BY <1>2, <1>4
  <1> HIDE DEF Left
  <1> DEFINE u == [i \in 0..n |-> SumUpTo(open, i)]
  <1>6. /\ \A i \in 0..n : SumUpTo(open, i) = u[i] /\ u[i] \in Int
        /\ u[0] = 0 /\ \A i \in 1..n : u[i] = u[i - 1] + open[i]
    <2>1. \A i \in 1..n : open[i] \in Int
      BY <1>2
    <2>2. /\ SumUpTo(open, 0) = 0
          /\ \A i \in 1..n : SumUpTo(open, i) = SumUpTo(open, i - 1) + open[i]
          /\ \A i \in 0..n : SumUpTo(open, i) \in Int
      BY <2>1, SumUpToSteps
    <2>3. \A i \in 1..n : i \in 0..n /\ i - 1 \in 0..n
      OBVIOUS
    <2>4. \A i \in 0..n : SumUpTo(open, i) = u[i]
      OBVIOUS
    <2> HIDE DEF u
    <2>5. QED BY <2>2, <2>3, <2>4
  <1> HIDE DEF u
  <1>7. \A i \in 0..n : left[i] = Larger(x - u[i], 0)
    <2> DEFINE P == {i \in 0..n : left[i] = Larger(x - u[i], 0)}
    <2>1. 0 \in P
      BY <1>5, <1>6 DEF Larger
    <2>2. ASSUME NEW i \in 0..(n - 1), i \in P
          PROVE  i + 1 \in P
      <3>1. i + 1 \in 1..n /\ (i + 1) - 1 = i
        OBVIOUS
      <3>2. /\ left[i + 1] = left[i] - Smaller(open[i + 1], left[i])
            /\ u[i + 1] = u[i] + open[i + 1] /\ u[i] \in Int /\ open[i + 1] \in Nat
        BY <1>2, <1>5, <1>6, <3>1
      <3>3. left[i] = Larger(x - u[i], 0)
        BY <2>2
      <3>4. left[i + 1] = Larger(x - u[i + 1], 0)
        BY <3>2, <3>3 DEF Larger, Smaller
      <3>5. QED BY <3>1, <3>4
    <2>3. \A i \in 0..n : i \in P
      <3> HIDE DEF P
      <3>1. QED BY <2>1, <2>2, CountingUp
    <2>4. QED BY <2>3
  <1>8. \A i \in 1..n : /\ settled[i] = open[i] - Smaller(open[i], left[i - 1])
                        /\ settled[i] \in Nat /\ settled[i] <= open[i]
    <2> TAKE i \in 1..n
    <2>1. settled[i] = open[i] - Smaller(open[i], left[i - 1])
      BY <1>2
    <2>2. i - 1 \in 0..n
      OBVIOUS
    <2>3. left[i - 1] \in Nat
      <3>1. left[i - 1] = Larger(x - u[i - 1], 0) /\ u[i - 1] \in Int
        BY <1>6, <1>7, <2>2
      <3>2. QED BY <3>1 DEF Larger
    <2> HIDE DEF settled
    <2>4. QED BY <1>2, <2>1, <2>3 DEF Smaller
  <1>9. settled \in [1..n -> Nat]
    BY <1>2, <1>8
  <1> HIDE DEF settled
  <1>10. \A i \in 0..n : SumUpTo(settled, i) = Larger(u[i] - x, 0)
    <2> DEFINE P == {i \in 0..n : SumUpTo(settled, i) = Larger(u[i] - x, 0)}
    <2>1. \A i \in 1..n : settled[i] \in Int
      BY <1>8
    <2>2. 0 \in P
      <3>1. SumUpTo(settled, 0) = 0
        BY <2>1, SumUpToSteps
      <3>2. QED BY <1>6, <3>1 DEF Larger
    <2>3. ASSUME NEW i \in 0..(n - 1), i \in P
          PROVE  i + 1 \in P
      <3>1. i + 1 \in 1..n /\ (i + 1) - 1 = i
        OBVIOUS
      <3>2. SumUpTo(settled, i + 1) = SumUpTo(settled, i) + settled[i + 1]
        <4>1. \A k \in 1..n : SumUpTo(settled, k) = SumUpTo(settled, k - 1) + settled[k]
          BY <2>1, SumUpToSteps
        <4>2. QED BY <3>1, <4>1
      <3>3. SumUpTo(settled, i) = Larger(u[i] - x, 0)
        BY <2>3
      <3>4. settled[i + 1] = open[i + 1] - Smaller(open[i + 1], left[i])
        BY <1>8, <3>1
      <3>5. left[i] = Larger(x - u[i], 0)
        BY <1>7
      <3>6. u[i + 1] = u[i] + open[i + 1] /\ u[i] \in Int /\ open[i + 1] \in Nat
        BY <1>2, <1>6, <3>1
      <3>7. SumUpTo(settled, i + 1) = Larger(u[i + 1] - x, 0)
        BY <3>2, <3>3, <3>4, <3>5, <3>6 DEF Larger, Smaller
      <3>8. QED BY <3>1, <3>7
    <2>4. \A i \in 0..n : i \in P
      <3> HIDE DEF P
      <3>1. QED BY <2>2, <2>3, CountingUp
    <2>5. QED BY <2>4
  <1>11. QED BY <1>1, <1>6, <1>8, <1>9, <1>10

\* What a line makes of the open items before it.
Aged(lines, k, open) == IF lines[k].up > 0 THEN [open EXCEPT ![k] = lines[k].up]
                        ELSE Settle(open, lines[k].down)

OpenRun(lines, n, o) ==
    /\ o \in [0..n -> [1..n -> Nat]]
    /\ o[0] = [i \in 1..n |-> 0]
    /\ \A k \in 1..n : o[k] = Aged(lines, k, o[k - 1])
    /\ OpenItems(lines) = o[n]

\* The loop of _fifo_aging_open_items: what is open after each line.
LEMMA OpenItemsRun ==
    ASSUME NEW n \in Nat, NEW L, DOMAIN L = 1..n, Len(L) = n,
           \A k \in 1..n : L[k].up \in Nat /\ L[k].down \in Nat
    PROVE  \E o : OpenRun(L, n, o)
  <1> DEFINE none == [i \in 1..n |-> 0]
             Open(g) == g = [k \in 0..n |-> IF k = 0 THEN none ELSE Aged(L, k, g[k - 1])]
             open == CHOOSE g : Open(g)
             V == [1..n -> Nat]
             turn == [t \in (1..n) \X V |-> Aged(L, t[1], t[2])]
  <1>1. OpenItems(L) = open[n]
    <2> DEFINE Coded(g) == g = [k \in {0} \cup DOMAIN L |->
                  IF k = 0 THEN [i \in DOMAIN L |-> 0]
                  ELSE IF L[k].up > 0 THEN [g[k - 1] EXCEPT ![k] = L[k].up]
                  ELSE Settle(g[k - 1], L[k].down)]
    <2>1. OpenItems(L) = (CHOOSE g : Coded(g))[n]
      BY DEF OpenItems
    <2>2. {0} \cup DOMAIN L = 0..n
      OBVIOUS
    <2>3. \A g : Coded(g) <=> Open(g)
      BY <2>2 DEF Aged
    <2> HIDE DEF Coded, Open
    <2>4. QED BY <2>1, <2>3
  <1>2. none \in V
    OBVIOUS
  <1>3. \A i \in 1..n, v \in V : turn[<<i, v>>] = Aged(L, i, v) /\ turn[<<i, v>>] \in V
    <2> TAKE i \in 1..n, v \in V
    <2>1. turn[<<i, v>>] = Aged(L, i, v)
      OBVIOUS
    <2>2. Settle(v, L[i].down) \in V
      BY SettleConsumes
    <2>3. [v EXCEPT ![i] = L[i].up] \in V
      OBVIOUS
    <2> HIDE DEF V, turn
    <2>4. QED BY <2>1, <2>2, <2>3 DEF Aged
  <1>4. turn \in [(1..n) \X V -> V]
    <2>1. \A t \in (1..n) \X V : turn[t] \in V
      <3> SUFFICES ASSUME NEW i \in 1..n, NEW v \in V
                   PROVE  turn[<<i, v>>] \in V
        OBVIOUS
      <3>1. QED BY <1>3
    <2>2. turn = [t \in (1..n) \X V |-> turn[t]]
      OBVIOUS
    <2> HIDE DEF turn, V
    <2>3. QED BY <2>1, <2>2
  <1> HIDE DEF turn, V, none
  <1>5. PICK g \in [0..n -> V] : Runs(g, n, none, turn)
    BY <1>2, <1>4, LoopRuns
  <1>6. \A k \in 1..n : g[k] = Aged(L, k, g[k - 1])
    <2> TAKE k \in 1..n
    <2>1. k - 1 \in 0..n
      OBVIOUS
    <2>2. g[k - 1] \in V
      BY <1>5, <2>1
    <2>3. QED BY <1>3, <1>5, <2>2 DEF Runs
  <1>7. g[0] = none
    BY <1>5 DEF Runs
  <1>8. Open(g)
    <2>1. \A k \in 0..n : g[k] = IF k = 0 THEN none ELSE Aged(L, k, g[k - 1])
      BY <1>6, <1>7
    <2>2. QED BY <1>5, <2>1
  <1>9. Open(open)
    <2> HIDE DEF Open
    <2>1. QED BY <1>8
  <1> HIDE DEF open
  <1>10. /\ open[0] = none
         /\ \A k \in 1..n : open[k] = Aged(L, k, open[k - 1])
         /\ open = [k \in 0..n |-> open[k]]
    <2>1. open[0] = none
      BY <1>9
    <2>2. \A k \in 1..n : open[k] = Aged(L, k, open[k - 1])
      BY <1>9
    <2>3. open = [k \in 0..n |-> open[k]]
      BY <1>9
    <2>4. QED BY <2>1, <2>2, <2>3
  <1> HIDE DEF Open
  <1>11. \A k \in 0..n : open[k] \in V
    <2> DEFINE P == {k \in 0..n : open[k] \in V}
    <2>1. 0 \in P
      BY <1>2, <1>10
    <2>2. ASSUME NEW i \in 0..(n - 1), i \in P
          PROVE  i + 1 \in P
      <3>1. i + 1 \in 1..n /\ (i + 1) - 1 = i /\ open[i] \in V
        BY <2>2
      <3>2. open[i + 1] = Aged(L, i + 1, open[i])
        BY <1>10, <3>1
      <3>3. open[i + 1] \in V
        BY <1>3, <3>1, <3>2
      <3>4. QED BY <3>1, <3>3
    <2>3. \A k \in 0..n : k \in P
      <3> HIDE DEF P
      <3>1. QED BY <2>1, <2>2, CountingUp
    <2>4. QED BY <2>3
  <1>12. open \in [0..n -> V]
    BY <1>10, <1>11
  <1>13. OpenRun(L, n, open)
    BY <1>1, <1>10, <1>12 DEF OpenRun, V, none
  <1>14. QED BY <1>13

\* Items of t in all, p of them before some place and d added since: what is left
\* after the place is what was added, or all of it.
Remain(t, p, d) == t \in Nat /\ p \in Int /\ d \in Nat /\ t - p = Smaller(t, d)
LEMMA IncreaseAdds ==
    ASSUME NEW t, NEW p, NEW d, Remain(t, p, d), NEW u \in Nat
    PROVE  Remain(t + u, p, d + u)
  BY DEF Remain, Smaller
LEMMA DecreaseTakes ==
    ASSUME NEW t, NEW p, NEW d, Remain(t, p, d), NEW x \in Nat
    PROVE  Remain(Larger(t - x, 0), Larger(p - x, 0), d)
  BY DEF Remain, Smaller, Larger

\* What is left of the newest items is what they added, or all that is open; and
\* all that is open is the most that the lines after some place come to.
NewestRemain(L, n, ups, nets) ==
    LET open == OpenItems(L)
        T == SumUpTo(open, n)
    IN  /\ open \in [1..n -> Nat]
        /\ \A m \in 0..n : T - SumUpTo(open, m) = Smaller(T, SumUpTo(ups, n) - SumUpTo(ups, m))
        /\ \A m \in 0..n : SumUpTo(nets, n) - SumUpTo(nets, m) <= T
        /\ \E m \in 0..n : SumUpTo(nets, n) - SumUpTo(nets, m) = T

\* By induction over the lines: the items already open are settled from the oldest,
\* and a decrease beyond them leaves none open.
LEMMA OldestSettleFirst ==
    ASSUME NEW n \in Nat, NEW L, DOMAIN L = 1..n, Len(L) = n,
           \A k \in 1..n : /\ L[k].up \in Nat /\ L[k].down \in Nat
                           /\ (L[k].up = 0 <=> L[k].down # 0),
           NEW ups, ups = [k \in 1..n |-> L[k].up],
           NEW nets, nets = [k \in 1..n |-> L[k].up - L[k].down]
    PROVE  NewestRemain(L, n, ups, nets)
  <1>1. PICK o : OpenRun(L, n, o)
    <2>1. \A k \in 1..n : L[k].up \in Nat /\ L[k].down \in Nat
      OBVIOUS
    <2>2. QED BY <2>1, OpenItemsRun
  <1>2. /\ o \in [0..n -> [1..n -> Nat]]
        /\ o[0] = [i \in 1..n |-> 0]
        /\ \A k \in 1..n : o[k] = Aged(L, k, o[k - 1])
        /\ OpenItems(L) = o[n]
    BY <1>1 DEF OpenRun
  <1> DEFINE B == [i \in 0..n |-> SumUpTo(ups, i)]
             G == [i \in 0..n |-> SumUpTo(nets, i)]
             U == [k \in 0..n |-> [i \in 0..n |-> SumUpTo(o[k], i)]]
  <1>3. \A k \in 1..n : ups[k] = L[k].up /\ nets[k] = L[k].up - L[k].down
    OBVIOUS
  <1>4. /\ \A i \in 0..n : B[i] = SumUpTo(ups, i) /\ B[i] \in Int
        /\ \A i \in 1..n : B[i] = B[i - 1] + L[i].up
        /\ \A k \in 0..n : \A m \in 0..k : B[m] <= B[k]
    <2>1. \A i \in 1..n : ups[i] \in Int /\ ups[i] >= 0
      BY <1>3
    <2>2. /\ \A i \in 1..n : SumUpTo(ups, i) = SumUpTo(ups, i - 1) + ups[i]
          /\ \A i \in 0..n : SumUpTo(ups, i) \in Int
      BY <2>1, SumUpToSteps
    <2>3. ASSUME NEW k \in 0..n, NEW m \in 0..k
          PROVE  SumUpTo(ups, m) <= SumUpTo(ups, k)
      <3>1. \A i \in (m + 1)..k : ups[i] >= 0
        BY <2>1
      <3>2. \A i \in 1..n : ups[i] \in Int
        BY <2>1
      <3>3. QED BY <3>1, <3>2, SumUpToMonotone
    <2>4. \A i \in 1..n : i \in 0..n /\ i - 1 \in 0..n
      OBVIOUS
    <2>5. \A i \in 0..n : B[i] = SumUpTo(ups, i)
      OBVIOUS
    <2>6. \A k \in 0..n : \A m \in 0..k : m \in 0..n
      OBVIOUS
    <2> HIDE DEF B
    <2>7. QED BY <1>3, <2>2, <2>3, <2>4, <2>5, <2>6
  <1>5. /\ \A i \in 0..n : G[i] = SumUpTo(nets, i) /\ G[i] \in Int
        /\ \A i \in 1..n : G[i] = G[i - 1] + (L[i].up - L[i].down)
    <2>1. ASSUME NEW i \in 1..n
          PROVE  nets[i] \in Int
      <3> DEFINE up == L[i].up
                 down == L[i].down
      <3>1. nets[i] = up - down
        BY <1>3
      <3>2. up \in Nat /\ down \in Nat
        OBVIOUS
      <3> HIDE DEF up, down
      <3>3. QED BY <3>1, <3>2
    <2>2. /\ \A i \in 1..n : SumUpTo(nets, i) = SumUpTo(nets, i - 1) + nets[i]
          /\ \A i \in 0..n : SumUpTo(nets, i) \in Int
      BY <2>1, SumUpToSteps
    <2>3. \A i \in 1..n : i \in 0..n /\ i - 1 \in 0..n
      OBVIOUS
    <2>4. \A i \in 0..n : G[i] = SumUpTo(nets, i)
      OBVIOUS
    <2> HIDE DEF G
    <2>5. QED BY <1>3, <2>2, <2>3, <2>4
  <1>6. ASSUME NEW k \in 0..n
        PROVE  /\ o[k] \in [1..n -> Nat]
               /\ \A i \in 0..n : U[k][i] = SumUpTo(o[k], i) /\ U[k][i] \in Int
               /\ U[k][0] = 0
               /\ \A i \in 1..n : U[k][i] = U[k][i - 1] + o[k][i]
    <2>1. o[k] \in [1..n -> Nat] /\ \A i \in 1..n : o[k][i] \in Int
      BY <1>2
    <2>2. /\ SumUpTo(o[k], 0) = 0
          /\ \A i \in 1..n : SumUpTo(o[k], i) = SumUpTo(o[k], i - 1) + o[k][i]
          /\ \A i \in 0..n : SumUpTo(o[k], i) \in Int
      BY <2>1, SumUpToSteps
    <2>3. \A i \in 1..n : i \in 0..n /\ i - 1 \in 0..n
      OBVIOUS
    <2>4. \A i \in 0..n : U[k][i] = SumUpTo(o[k], i)
      OBVIOUS
    <2> HIDE DEF U
    <2>5. 0 \in 0..n
      OBVIOUS
    <2>6. QED BY <2>1, <2>2, <2>3, <2>4, <2>5
  <1> HIDE DEF B, G, U
  <1> DEFINE Holds(k) == /\ \A i \in (k + 1)..n : o[k][i] = 0
                         /\ \A m \in 0..k : U[k][k] - U[k][m] = Smaller(U[k][k], B[k] - B[m])
                         /\ \A m \in 0..k : G[k] - G[m] <= U[k][k]
                         /\ \E m \in 0..k : G[k] - G[m] = U[k][k]
             P == {k \in 0..n : Holds(k)}
  <1>7. 0 \in P
    <2>1. \A i \in 1..n : o[0][i] = 0
      BY <1>2
    <2> DEFINE t == U[0][0]
               b == B[0]
               g == G[0]
    <2>2. 0 \in 0..n /\ 0..0 = {0}
      OBVIOUS
    <2>3. t = 0 /\ b \in Int /\ g \in Int
      BY <1>4, <1>5, <1>6, <2>2
    <2>4. \A m \in 0..0 : U[0][m] = t /\ B[m] = b /\ G[m] = g
      BY <2>2
    <2>5. t - t = Smaller(t, b - b) /\ g - g <= t /\ g - g = t
      <3> HIDE DEF t, b, g
      <3>1. QED BY <2>3 DEF Smaller
    <2>6. \A m \in 0..0 : U[0][0] - U[0][m] = Smaller(U[0][0], B[0] - B[m])
      BY <2>4, <2>5
    <2>7. (\A m \in 0..0 : G[0] - G[m] <= U[0][0]) /\ (\E m \in 0..0 : G[0] - G[m] = U[0][0])
      BY <2>2, <2>4, <2>5
    <2>8. QED BY <2>1, <2>2, <2>6, <2>7
  <1>8. ASSUME NEW k \in 0..(n - 1), k \in P
        PROVE  k + 1 \in P
    <2> DEFINE l == k + 1
               up == L[l].up
               down == L[l].down
    <2>1. /\ k \in 0..n /\ l \in 1..n /\ l \in 0..n /\ l - 1 = k
          /\ \A m \in 0..l : m = l \/ m \in 0..k
      OBVIOUS
    <2>2. Holds(k)
      BY <1>8
    <2>3. o[l] = Aged(L, l, o[k])
      BY <1>2, <2>1
    <2>4. /\ B[l] = B[k] + up /\ G[l] = G[k] + (up - down)
          /\ B[k] \in Int /\ G[k] \in Int /\ up \in Nat /\ down \in Nat
          /\ (up = 0 <=> down # 0)
      BY <1>4, <1>5, <2>1
    <2>5. up \in Nat /\ down \in Nat
      BY <2>4
    <2>6. B[l] \in Int /\ G[l] \in Int
      BY <1>4, <1>5, <2>1
    <2>7. \A m \in 0..k : m \in 0..n /\ B[m] \in Int /\ G[m] \in Int /\ B[m] <= B[k]
      <3>1. \A m \in 0..k : m \in 0..n
        BY <2>1
      <3>2. \A m \in 0..k : B[m] <= B[k]
        BY <1>4, <2>1
      <3>3. QED BY <1>4, <1>5, <3>1, <3>2
    <2>8. /\ \A m \in 0..k : U[k][m] \in Int
          /\ U[k][k] \in Int
      BY <1>6, <2>1, <2>7
    <2>9. U[k][k] >= 0
      <3> DEFINE t == U[k][k]
                 g == G[k]
      <3>1. k \in 0..k
        OBVIOUS
      <3>2. g - g <= t /\ t \in Int /\ g \in Int
        BY <2>2, <2>4, <2>8, <3>1
      <3> HIDE DEF t, g
      <3>3. t >= 0
        BY <3>2
      <3>4. QED BY <3>3 DEF t
    <2>10. \A m \in 0..k : B[k] - B[m] \in Nat
      <3> TAKE m \in 0..k
      <3> DEFINE b == B[k]
                 c == B[m]
      <3>1. b \in Int /\ c \in Int /\ c <= b
        BY <2>4, <2>7
      <3> HIDE DEF b, c
      <3>2. b - c \in Nat
        BY <3>1
      <3>3. QED BY <3>2 DEF b, c
    <2> HIDE DEF up, down, Holds
    <2>11. /\ \A i \in (k + 1)..n : o[k][i] = 0
           /\ \A m \in 0..k : U[k][k] - U[k][m] = Smaller(U[k][k], B[k] - B[m])
           /\ \A m \in 0..k : G[k] - G[m] <= U[k][k]
           /\ \E m \in 0..k : G[k] - G[m] = U[k][k]
      BY <2>2 DEF Holds
    <2>12. CASE up > 0
      <3>1. down = 0
        BY <2>4, <2>12
      <3>2. o[l] = [o[k] EXCEPT ![l] = up]
        BY <2>3, <2>12 DEF Aged, up
      <3>3. o[k] \in [1..n -> Nat] /\ o[l][l] = up /\ \A i \in 1..n : i # l => o[l][i] = o[k][i]
        BY <1>6, <2>1, <3>2
      <3>4. \A i \in (l + 1)..n : o[l][i] = 0
        <4>1. \A i \in (l + 1)..n : i \in 1..n /\ i # l /\ i \in (k + 1)..n
          BY <2>1
        <4>2. QED BY <2>11, <3>3, <4>1
      <3>5. \A m \in 0..k : U[l][m] = U[k][m]
        <4> SUFFICES ASSUME NEW m \in 0..k
                     PROVE  U[l][m] = U[k][m]
          OBVIOUS
        <4>1. \A i \in 1..m : i \in 1..n /\ i # l
          BY <2>1
        <4>2. \A i \in 1..m : o[k][i] = o[l][i] /\ o[k][i] \in Int
          BY <3>3, <4>1
        <4>3. IsFiniteSet(1..m)
          BY FS_Interval
        <4>4. SumOver(o[k], 1..m) = SumOver(o[l], 1..m)
          BY <4>2, <4>3, SumEqual
        <4>5. U[l][m] = SumUpTo(o[l], m) /\ U[k][m] = SumUpTo(o[k], m)
          BY <1>6, <2>1, <2>7
        <4>6. QED BY <4>4, <4>5 DEF SumUpTo
      <3>6. U[l][l] = U[k][k] + up
        <4>1. U[l][l] = U[l][k] + o[l][l]
          BY <1>6, <2>1
        <4>2. k \in 0..k
          BY <2>1
        <4>3. QED BY <3>3, <3>5, <4>1, <4>2
      <3> HIDE DEF l
      <3>7. \A m \in 0..k : /\ U[l][l] - U[l][m] = Smaller(U[l][l], B[l] - B[m])
                            /\ G[l] - G[m] = (G[k] - G[m]) + up
                            /\ U[k][k] \in Int /\ (G[k] - G[m]) \in Int
        <4> TAKE m \in 0..k
        <4> DEFINE t == U[k][k]
                   q == U[k][m]
                   b == B[k]
                   c == B[m]
                   g == G[k]
                   f == G[m]
        <4>1. /\ U[l][l] = t + up /\ U[l][m] = q /\ B[l] = b + up /\ G[l] = g + (up - down)
              /\ t - q = Smaller(t, b - c)
          BY <2>4, <2>11, <3>5, <3>6
        <4>2. /\ t \in Int /\ t >= 0 /\ q \in Int /\ b \in Int /\ c \in Int /\ g \in Int
              /\ f \in Int /\ b - c \in Nat
          BY <2>4, <2>7, <2>8, <2>9, <2>10
        <4> HIDE DEF t, q, b, c, g, f
        <4>3. (t + up) - q = Smaller(t + up, (b - c) + up)
          <5>1. t \in Nat
            BY <4>2
          <5> DEFINE d == b - c
          <5>2. Remain(t, q, d)
            BY <4>1, <4>2, <5>1 DEF Remain
          <5> HIDE DEF d
          <5>3. Remain(t + up, q, d + up)
            BY <2>5, <5>2, IncreaseAdds
          <5>4. QED BY <5>3 DEF d, Remain
        <4>4. (b + up) - c = (b - c) + up /\ (g + (up - down)) - f = (g - f) + up /\ g - f \in Int
          BY <2>4, <3>1, <4>2
        <4>5. QED BY <4>1, <4>2, <4>3, <4>4 DEF t, q, b, c, g, f
      <3>8. U[l][l] - U[l][l] = Smaller(U[l][l], B[l] - B[l]) /\ G[l] - G[l] <= U[l][l]
        <4> DEFINE t == U[l][l]
                   b == B[l]
                   g == G[l]
        <4>1. b \in Int /\ g \in Int
          BY <2>6
        <4>2. t \in Int /\ t >= 0
          <5> DEFINE v == U[k][k]
          <5>1. t = v + up /\ v \in Int /\ v >= 0
            BY <2>8, <2>9, <3>6
          <5> HIDE DEF t, v
          <5>2. QED BY <2>5, <5>1
        <4> HIDE DEF t, b, g
        <4>3. t - t = Smaller(t, b - b) /\ g - g <= t
          BY <4>1, <4>2 DEF Smaller
        <4>4. QED BY <4>3 DEF t, b, g
      <3>9. \A m \in 0..l : /\ U[l][l] - U[l][m] = Smaller(U[l][l], B[l] - B[m])
                            /\ G[l] - G[m] <= U[l][l]
        <4> SUFFICES ASSUME NEW m \in 0..l
                     PROVE  /\ U[l][l] - U[l][m] = Smaller(U[l][l], B[l] - B[m])
                            /\ G[l] - G[m] <= U[l][l]
          OBVIOUS
        <4>1. CASE m = l
          BY <3>8, <4>1
        <4>2. CASE m \in 0..k
          <5> DEFINE d == G[k] - G[m]
                     t == U[k][k]
          <5>1. d <= t /\ d \in Int /\ t \in Int /\ G[l] - G[m] = d + up /\ U[l][l] = t + up
            BY <2>11, <3>6, <3>7, <4>2
          <5> HIDE DEF d, t
          <5>2. d + up <= t + up
            BY <2>4, <5>1
          <5>3. QED BY <3>7, <4>2, <5>1, <5>2
        <4>3. QED BY <2>1, <4>1, <4>2
      <3>10. \E m \in 0..l : G[l] - G[m] = U[l][l]
        <4>1. PICK m \in 0..k : G[k] - G[m] = U[k][k]
          BY <2>11
        <4>2. m \in 0..l
          BY <4>1 DEF l
        <4>3. G[l] - G[m] = U[l][l]
          BY <3>6, <3>7, <4>1
        <4>4. QED BY <4>2, <4>3
      <3>11. Holds(l)
        BY <3>4, <3>9, <3>10 DEF Holds
      <3>12. QED BY <2>1, <3>11 DEF l
    <2>13. CASE ~(up > 0)
      <3>1. up = 0 /\ down > 0
        BY <2>4, <2>13
      <3>2. o[l] = Settle(o[k], down)
        BY <2>3, <2>13 DEF Aged, up, down
      <3>3. /\ \A i \in 1..n : o[l][i] <= o[k][i]
            /\ \A i \in 0..n : SumUpTo(o[l], i) = Larger(SumUpTo(o[k], i) - down, 0)
        <4> DEFINE ok == o[k]
                   ol == o[l]
        <4>1. ok \in [1..n -> Nat] /\ down \in Nat /\ ol = Settle(ok, down)
          BY <1>6, <2>1, <2>4, <3>2
        <4> HIDE DEF ok, ol
        <4>2. /\ \A i \in 1..n : Settle(ok, down)[i] <= ok[i]
              /\ \A i \in 0..n : SumUpTo(Settle(ok, down), i) = Larger(SumUpTo(ok, i) - down, 0)
          BY <4>1, SettleConsumes
        <4>3. QED BY <4>1, <4>2 DEF ok, ol
      <3>4. \A i \in (l + 1)..n : o[l][i] = 0
        <4>1. \A i \in (l + 1)..n : i \in 1..n /\ i \in (k + 1)..n
          BY <2>1
        <4>2. \A i \in 1..n : o[l][i] \in Nat
          BY <1>6, <2>1
        <4> TAKE i \in (l + 1)..n
        <4> DEFINE y == o[k][i]
                   z == o[l][i]
        <4>3. z \in Nat /\ z <= 0
          <5>1. i \in 1..n /\ i \in (k + 1)..n
            BY <4>1
          <5>2. z \in Nat
            BY <4>2, <5>1
          <5>3. z <= y
            BY <3>3, <5>1
          <5>4. y = 0
            BY <2>11, <5>1
          <5> HIDE DEF y, z
          <5>5. QED BY <5>2, <5>3, <5>4
        <4> HIDE DEF y, z
        <4>4. z = 0
          BY <4>3
        <4>5. QED BY <4>4 DEF z
      <3>5. \A m \in 0..k : U[l][m] = Larger(U[k][m] - down, 0)
        <4> TAKE m \in 0..k
        <4>1. m \in 0..n
          BY <2>7
        <4>2. U[l][m] = SumUpTo(o[l], m) /\ U[k][m] = SumUpTo(o[k], m)
          BY <1>6, <2>1, <4>1
        <4>3. SumUpTo(o[l], m) = Larger(SumUpTo(o[k], m) - down, 0)
          BY <3>3, <4>1
        <4>4. QED BY <4>2, <4>3
      <3>6. U[l][l] = Larger(U[k][k] - down, 0)
        <4>1. U[k][l] = U[k][k] + o[k][l]
          BY <1>6, <2>1
        <4>2. o[k][l] = 0
          <5>1. l \in (k + 1)..n
            BY <2>1
          <5>2. QED BY <2>11, <5>1
        <4>3. U[k][l] = U[k][k]
          <5> DEFINE x == U[k][k]
                     y == U[k][l]
                     z == o[k][l]
          <5>1. y = x + z /\ z = 0 /\ x \in Int
            BY <2>8, <4>1, <4>2
          <5> HIDE DEF x, y, z
          <5>2. y = x
            BY <5>1
          <5>3. QED BY <5>2 DEF x, y
        <4>4. U[l][l] = SumUpTo(o[l], l) /\ U[k][l] = SumUpTo(o[k], l)
          BY <1>6, <2>1
        <4>5. QED BY <2>1, <3>3, <4>3, <4>4
      <3> HIDE DEF l
      <3>7. \A m \in 0..k : /\ U[l][l] - U[l][m] = Smaller(U[l][l], B[l] - B[m])
                            /\ G[l] - G[m] = (G[k] - G[m]) - down
                            /\ U[k][k] \in Int /\ (G[k] - G[m]) \in Int
        <4> TAKE m \in 0..k
        <4> DEFINE t == U[k][k]
                   q == U[k][m]
                   b == B[k]
                   c == B[m]
                   g == G[k]
                   f == G[m]
        <4>1. /\ U[l][l] = Larger(t - down, 0) /\ U[l][m] = Larger(q - down, 0)
              /\ B[l] = b + up /\ G[l] = g + (up - down)
              /\ t - q = Smaller(t, b - c)
          BY <2>4, <2>11, <3>5, <3>6
        <4>2. /\ t \in Int /\ t >= 0 /\ q \in Int /\ b \in Int /\ c \in Int /\ g \in Int
              /\ f \in Int /\ b - c \in Nat
          BY <2>4, <2>7, <2>8, <2>9, <2>10
        <4> HIDE DEF t, q, b, c, g, f
        <4>3. Larger(t - down, 0) - Larger(q - down, 0) = Smaller(Larger(t - down, 0), b - c)
          <5>1. t \in Nat
            BY <4>2
          <5> DEFINE d == b - c
          <5>2. Remain(t, q, d)
            BY <4>1, <4>2, <5>1 DEF Remain
          <5> HIDE DEF d
          <5>3. Remain(Larger(t - down, 0), Larger(q - down, 0), d)
            BY <2>5, <5>2, DecreaseTakes
          <5>4. QED BY <5>3 DEF d, Remain
        <4>4. up = 0
          BY <3>1
        <4>5. (b + up) - c = b - c /\ (g + (up - down)) - f = (g - f) - down /\ g - f \in Int
          BY <2>5, <4>2, <4>4
        <4>6. QED BY <4>1, <4>2, <4>3, <4>5 DEF t, q, b, c, g, f
      <3>8. U[l][l] - U[l][l] = Smaller(U[l][l], B[l] - B[l]) /\ G[l] - G[l] <= U[l][l]
        <4> DEFINE t == U[l][l]
                   b == B[l]
                   g == G[l]
        <4>1. b \in Int /\ g \in Int
          BY <2>6
        <4>2. t \in Int /\ t >= 0
          <5> DEFINE v == U[k][k]
          <5>1. t = Larger(v - down, 0) /\ v \in Int
            BY <2>8, <3>6
          <5> HIDE DEF t, v
          <5>2. QED BY <2>5, <5>1 DEF Larger
        <4> HIDE DEF t, b, g
        <4>3. t - t = Smaller(t, b - b) /\ g - g <= t
          BY <4>1, <4>2 DEF Smaller
        <4>4. QED BY <4>3 DEF t, b, g
      <3>9. \A m \in 0..l : /\ U[l][l] - U[l][m] = Smaller(U[l][l], B[l] - B[m])
                            /\ G[l] - G[m] <= U[l][l]
        <4> SUFFICES ASSUME NEW m \in 0..l
                     PROVE  /\ U[l][l] - U[l][m] = Smaller(U[l][l], B[l] - B[m])
                            /\ G[l] - G[m] <= U[l][l]
          OBVIOUS
        <4>1. CASE m = l
          BY <3>8, <4>1
        <4>2. CASE m \in 0..k
          <5> DEFINE d == G[k] - G[m]
                     t == U[k][k]
          <5>1. /\ d <= t /\ d \in Int /\ t \in Int /\ G[l] - G[m] = d - down
                /\ U[l][l] = Larger(t - down, 0)
            BY <2>11, <3>6, <3>7, <4>2
          <5> HIDE DEF d, t
          <5>2. d <= t /\ d \in Int /\ t \in Int
            BY <5>1
          <5>3. d - down <= Larger(t - down, 0)
            BY <2>5, <5>2 DEF Larger
          <5>4. QED BY <3>7, <4>2, <5>1, <5>3
        <4>3. QED BY <2>1, <4>1, <4>2
      <3>10. \E m \in 0..l : G[l] - G[m] = U[l][l]
        <4> DEFINE t == U[k][k]
        <4>1. t \in Int /\ U[l][l] = Larger(t - down, 0)
          BY <2>8, <3>6
        <4>2. CASE t >= down
          <5>1. PICK m \in 0..k : G[k] - G[m] = t
            BY <2>11
          <5>2. m \in 0..l
            BY <5>1 DEF l
          <5>3. G[l] - G[m] = t - down
            BY <3>7, <5>1
          <5> HIDE DEF t
          <5>4. Larger(t - down, 0) = t - down
            BY <2>4, <4>1, <4>2 DEF Larger
          <5>5. QED BY <4>1, <5>2, <5>3, <5>4
        <4>3. CASE t < down
          <5> DEFINE g == G[l]
          <5>1. g \in Int
            BY <2>6
          <5> HIDE DEF t, g
          <5>2. t \in Int
            BY <4>1
          <5>3. Larger(t - down, 0) = 0
            BY <2>5, <4>3, <5>2 DEF Larger
          <5>4. g - g = 0
            BY <5>1
          <5>5. Larger(t - down, 0) = 0 /\ g - g = 0
            BY <5>3, <5>4
          <5>6. l \in 0..l
            BY DEF l
          <5>7. QED BY <4>1, <5>5, <5>6 DEF g
        <4>4. QED BY <2>4, <4>1, <4>2, <4>3
      <3>11. Holds(l)
        BY <3>4, <3>9, <3>10 DEF Holds
      <3>12. QED BY <2>1, <3>11 DEF l
    <2>14. QED BY <2>12, <2>13
  <1>9. Holds(n)
    <2>1. \A k \in 0..n : k \in P
      <3> HIDE DEF P
      <3>1. QED BY <1>7, <1>8, CountingUp
    <2>2. n \in 0..n
      OBVIOUS
    <2>3. QED BY <2>1, <2>2
  <1>10. n \in 0..n
    OBVIOUS
  <1>11. U[n][n] = SumUpTo(o[n], n) /\ B[n] = SumUpTo(ups, n) /\ G[n] = SumUpTo(nets, n)
    BY <1>4, <1>5, <1>6, <1>10
  <1>12. \A m \in 0..n : /\ U[n][m] = SumUpTo(o[n], m) /\ B[m] = SumUpTo(ups, m)
                         /\ G[m] = SumUpTo(nets, m)
    BY <1>4, <1>5, <1>6, <1>10
  <1>13. o[n] \in [1..n -> Nat]
    BY <1>6, <1>10
  <1>14. /\ \A m \in 0..n : U[n][n] - U[n][m] = Smaller(U[n][n], B[n] - B[m])
         /\ \A m \in 0..n : G[n] - G[m] <= U[n][n]
         /\ \E m \in 0..n : G[n] - G[m] = U[n][n]
    BY <1>9
  <1> DEFINE open == o[n]
             T == SumUpTo(open, n)
  <1>15. T = U[n][n]
    BY <1>11
  <1> HIDE DEF T
  <1>16. \A m \in 0..n : T - SumUpTo(open, m) = Smaller(T, SumUpTo(ups, n) - SumUpTo(ups, m))
    BY <1>11, <1>12, <1>14, <1>15
  <1>17. \A m \in 0..n : SumUpTo(nets, n) - SumUpTo(nets, m) <= T
    BY <1>11, <1>12, <1>14, <1>15
  <1>18. \E m \in 0..n : SumUpTo(nets, n) - SumUpTo(nets, m) = T
    BY <1>11, <1>12, <1>14, <1>15
  <1>19. open = OpenItems(L)
    BY <1>2
  <1>20. open \in [1..n -> Nat]
    BY <1>13
  <1> HIDE DEF open
  <1>21. QED BY <1>16, <1>17, <1>18, <1>19, <1>20 DEF T, NewestRemain

\* The same of lines that increase or decrease: what each adds, and adds net.
Lines(L, n) ==
    /\ DOMAIN L = 1..n /\ Len(L) = n
    /\ \A k \in 1..n : /\ L[k].up \in Nat /\ L[k].down \in Nat
                       /\ (L[k].up = 0 <=> L[k].down # 0)
Ups(L) == [k \in DOMAIN L |-> L[k].up]
Nets(L) == [k \in DOMAIN L |-> L[k].up - L[k].down]
LEMMA OldestFirst ==
    ASSUME NEW n \in Nat, NEW L, Lines(L, n)
    PROVE  NewestRemain(L, n, Ups(L), Nets(L))
  <1> DEFINE ups == Ups(L)
             nets == Nets(L)
  <1>1. DOMAIN L = 1..n
    BY DEF Lines
  <1>2. Len(L) = n
    BY DEF Lines
  <1>3. \A k \in 1..n : /\ L[k].up \in Nat /\ L[k].down \in Nat
                         /\ (L[k].up = 0 <=> L[k].down # 0)
    BY DEF Lines
  <1>4. ups = [k \in 1..n |-> L[k].up]
    BY <1>1 DEF Ups
  <1>5. nets = [k \in 1..n |-> L[k].up - L[k].down]
    BY <1>1 DEF Nets
  <1> HIDE DEF ups, nets
  <1>6. NewestRemain(L, n, ups, nets)
    BY <1>1, <1>2, <1>3, <1>4, <1>5, OldestSettleFirst
  <1>7. QED BY <1>6 DEF ups, nets

\* Rows that AgesBefore can order.
Orderable(R) == \A r \in R : r.day \in Int /\ r.ref \in Int /\ r.up \in Nat
Ordered(f, n) == \A i, k \in 1..n : i < k => ~AgesBefore(f[k], f[i])

\* AgesBefore is a strict order of them.
LEMMA AgesBeforeOrders ==
    ASSUME NEW R, Orderable(R)
    PROVE  /\ \A a \in R : ~AgesBefore(a, a)
           /\ \A a, b, c \in R : AgesBefore(a, b) /\ AgesBefore(b, c) => AgesBefore(a, c)
  BY DEF Orderable, AgesBefore

\* Of finitely many rows, one ages before none.
LEMMA NewestRow ==
    ASSUME NEW R, IsFiniteSet(R), R # {}, Orderable(R)
    PROVE  \E r \in R : \A x \in R : ~AgesBefore(r, x)
  <1> DEFINE Newest(T) == \E r \in T : \A x \in T : ~AgesBefore(r, x)
             C == {T \in SUBSET R : T = {} \/ Newest(T)}
  <1>1. ASSUME NEW T \in C, NEW x \in R \ T
        PROVE  T \cup {x} \in C
    <2>1. T \in SUBSET R /\ T \cup {x} \in SUBSET R
      OBVIOUS
    <2>2. CASE T = {}
      <3>1. ~AgesBefore(x, x)
        BY AgesBeforeOrders
      <3>2. x \in T \cup {x} /\ \A y \in T \cup {x} : ~AgesBefore(x, y)
        BY <2>2, <3>1
      <3>3. QED BY <2>1, <3>2
    <2>3. CASE T # {}
      <3>1. PICK r \in T : \A y \in T : ~AgesBefore(r, y)
        BY <2>3
      <3>2. CASE AgesBefore(r, x)
        <4>1. \A y \in T \cup {x} : ~AgesBefore(x, y)
          BY <2>1, <3>1, <3>2, AgesBeforeOrders
        <4>2. QED BY <2>1, <4>1
      <3>3. CASE ~AgesBefore(r, x)
        BY <2>1, <3>1, <3>3
      <3>4. QED BY <3>2, <3>3
    <2>4. QED BY <2>2, <2>3
  <1>2. {} \in C
    OBVIOUS
  <1>3. C \in SUBSET (SUBSET R)
    OBVIOUS
  <1>4. R \in C
    <2> HIDE DEF C
    <2>1. QED BY <1>1, <1>2, <1>3, SetInduction
  <1>5. QED BY <1>4

\* They can be listed in order of age.
LEMMA RowsCanBeListed ==
    ASSUME NEW R, IsFiniteSet(R), Orderable(R)
    PROVE  \E f \in SetToSeqs(R) : Ordered(f, Cardinality(R))
  <1> DEFINE N == Cardinality(R)
             P == {n \in 0..N : \A T \in SUBSET R :
                      Cardinality(T) = n => \E f \in SetToSeqs(T) : Ordered(f, n)}
  <1>1. N \in Nat
    BY FS_CardinalityType
  <1>2. 0 \in P
    <2>1. ASSUME NEW T \in SUBSET R, Cardinality(T) = 0
          PROVE  \E f \in SetToSeqs(T) : Ordered(f, 0)
      <3> DEFINE f == [i \in 1..0 |-> i]
      <3>1. 1..0 = {}
        OBVIOUS
      <3>2. f \in SetToSeqs(T)
        <4>1. f \in [1..0 -> T] /\ \A i, j \in 1..0 : i # j => f[i] # f[j]
          BY <3>1
        <4> HIDE DEF f
        <4>2. QED BY <2>1, <4>1 DEF SetToSeqs
      <3>3. Ordered(f, 0)
        BY <3>1 DEF Ordered
      <3>4. QED BY <3>2, <3>3
    <2>2. QED BY <1>1, <2>1
  <1>3. ASSUME NEW n \in 0..(N - 1), n \in P
        PROVE  n + 1 \in P
    <2>1. ASSUME NEW T \in SUBSET R, Cardinality(T) = n + 1
          PROVE  \E f \in SetToSeqs(T) : Ordered(f, n + 1)
      <3>1. IsFiniteSet(T) /\ Orderable(T)
        BY FS_Subset DEF Orderable
      <3>2. T # {}
        <4>1. Cardinality({}) = 0
          BY FS_EmptySet
        <4>2. n + 1 # 0
          OBVIOUS
        <4>3. QED BY <2>1, <4>1, <4>2
      <3>3. PICK r \in T : \A x \in T : ~AgesBefore(r, x)
        BY <3>1, <3>2, NewestRow
      <3> DEFINE U == T \ {r}
      <3>4. U \in SUBSET R /\ Cardinality(U) = n
        <4>1. Cardinality(U) = Cardinality(T) - 1
          BY <3>1, FS_RemoveElement
        <4>2. QED BY <1>1, <2>1, <4>1
      <3>5. PICK g \in SetToSeqs(U) : Ordered(g, n)
        BY <1>3, <3>4
      <3>6. /\ g \in [1..n -> U] /\ \A i, k \in 1..n : i # k => g[i] # g[k]
        BY <3>4, <3>5 DEF SetToSeqs
      <3> DEFINE f == [i \in 1..(n + 1) |-> IF i = n + 1 THEN r ELSE g[i]]
      <3>7. \A i \in 1..(n + 1) : i = n + 1 \/ i \in 1..n
        OBVIOUS
      <3>8. \A i \in 1..n : f[i] = g[i] /\ g[i] \in T /\ g[i] # r
        BY <3>6
      <3>9. f[n + 1] = r
        BY <1>1
      <3>10. f \in [1..(n + 1) -> T]
        BY <3>7, <3>8
      <3> HIDE DEF f
      <3>11. \A i, k \in 1..(n + 1) : i # k => f[i] # f[k]
        BY <3>6, <3>7, <3>8, <3>9
      <3>12. f \in SetToSeqs(T)
        BY <2>1, <3>10, <3>11 DEF SetToSeqs
      <3>13. \A i, k \in 1..(n + 1) : i < k => ~AgesBefore(f[k], f[i])
        <4> SUFFICES ASSUME NEW i \in 1..(n + 1), NEW k \in 1..(n + 1), i < k
                     PROVE  ~AgesBefore(f[k], f[i])
          OBVIOUS
        <4>1. i \in 1..n
          OBVIOUS
        <4>2. CASE k = n + 1
          BY <3>3, <3>8, <3>9, <4>1, <4>2
        <4>3. CASE k \in 1..n
          BY <3>5, <3>8, <4>1, <4>3 DEF Ordered
        <4>4. QED BY <3>7, <4>2, <4>3
      <3>14. QED BY <3>12, <3>13 DEF Ordered
    <2>2. n + 1 \in 0..N
      BY <1>1
    <2>3. QED BY <2>1, <2>2
  <1>4. \A n \in 0..N : n \in P
    <2> HIDE DEF P, N
    <2>1. QED BY <1>1, <1>2, <1>3, CountingUp
  <1>5. N \in P
    BY <1>1, <1>4
  <1>6. QED BY <1>5

\* InOrderOfAge lists every row once, in order.
LEMMA OrderOfAge ==
    ASSUME NEW R, IsFiniteSet(R), Orderable(R)
    PROVE  LET L == InOrderOfAge(R)
               n == Cardinality(R)
           IN  /\ n \in Nat /\ L \in [1..n -> R]
               /\ DOMAIN L = 1..n /\ Len(L) = n
               /\ \A i, k \in 1..n : L[i] = L[k] => i = k
               /\ \A r \in R : \E i \in 1..n : L[i] = r
               /\ Ordered(L, n)
  <1> DEFINE n == Cardinality(R)
             Sorted(f) == \A i, k \in DOMAIN f : i < k => ~AgesBefore(f[k], f[i])
             L == CHOOSE f \in SetToSeqs(R) : Sorted(f)
  <1>1. n \in Nat
    BY FS_CardinalityType
  <1>2. \A f \in SetToSeqs(R) : f \in [1..n -> R] /\ DOMAIN f = 1..n
    BY DEF SetToSeqs
  <1>3. \E f \in SetToSeqs(R) : Sorted(f)
    <2>1. PICK f \in SetToSeqs(R) : Ordered(f, n)
      BY RowsCanBeListed
    <2>2. QED BY <1>2, <2>1 DEF Ordered
  <1>4. L \in SetToSeqs(R) /\ Sorted(L)
    <2> HIDE DEF Sorted
    <2>1. QED BY <1>3
  <1>5. L = InOrderOfAge(R)
    BY DEF InOrderOfAge
  <1> HIDE DEF L
  <1>6. L \in [1..n -> R] /\ DOMAIN L = 1..n /\ Ordered(L, n)
    BY <1>2, <1>4 DEF Ordered
  <1>7. \A i, k \in 1..n : L[i] = L[k] => i = k
    BY <1>4 DEF SetToSeqs
  <1>8. Len(L) = n
    <2>1. L \in Seq(R)
      BY <1>1, <1>6
    <2>2. QED BY <1>1, <1>6, <2>1
  <1>9. \A r \in R : \E i \in 1..n : L[i] = r
    <2>1. L \in Injection(1..n, R)
      BY <1>6, <1>7 DEF Injection, IsInjective
    <2>2. IsFiniteSet(1..n) /\ Cardinality(1..n) = n
      BY <1>1, FS_Interval
    <2>3. L \in Surjection(1..n, R)
      BY <2>1, <2>2, FS_Injection
    <2>4. QED BY <2>3 DEF Surjection
  <1>10. QED BY <1>1, <1>5, <1>6, <1>7, <1>8, <1>9

\* A downward-closed set of places is an initial run of them.
LEMMA InitialRun ==
    ASSUME NEW n \in Nat, NEW S, \A i, k \in 1..n : i < k /\ k \in S => i \in S
    PROVE  \E m \in 0..n : \A i \in 1..n : i \in S <=> i <= m
  <1> DEFINE P == {k \in 0..n : \E m \in 0..k : \A i \in 1..k : i \in S <=> i <= m}
  <1>1. 0 \in P
    OBVIOUS
  <1>2. ASSUME NEW k \in 0..(n - 1), k \in P
        PROVE  k + 1 \in P
    <2>1. PICK m \in 0..k : \A i \in 1..k : i \in S <=> i <= m
      BY <1>2
    <2>2. \A i \in 1..(k + 1) : i = k + 1 \/ i \in 1..k
      OBVIOUS
    <2>3. CASE k + 1 \in S
      <3>1. \A i \in 1..(k + 1) : i \in S
        BY <2>3
      <3>2. \A i \in 1..(k + 1) : i \in S <=> i <= k + 1
        BY <3>1
      <3>3. k + 1 \in 0..(k + 1) /\ k + 1 \in 0..n
        OBVIOUS
      <3>4. QED BY <3>2, <3>3
    <2>4. CASE k + 1 \notin S
      <3>1. \A i \in 1..(k + 1) : i \in S <=> i <= m
        <4> TAKE i \in 1..(k + 1)
        <4>1. CASE i = k + 1
          BY <2>1, <2>4, <4>1
        <4>2. CASE i \in 1..k
          BY <2>1, <4>2
        <4>3. QED BY <2>2, <4>1, <4>2
      <3>2. m \in 0..(k + 1) /\ k + 1 \in 0..n
        BY <2>1
      <3>3. QED BY <3>1, <3>2
    <2>5. QED BY <2>3, <2>4
  <1>3. \A k \in 0..n : k \in P
    <2> HIDE DEF P
    <2>1. QED BY <1>1, <1>2, CountingUp
  <1>4. n \in P
    BY <1>3
  <1>5. QED BY <1>4

\* The days of the lines: the period of each, and before which line each period starts.
Dated(R, p) == \A r \in R : \E q \in 1..p : r.day = EndDay[q]

\* per: the period of each line; cut: how many lines are dated before each period.
Timeline(p, n, L, per, cut) ==
    /\ per \in [1..n -> 1..p] /\ cut \in [1..(p + 1) -> 0..n]
    /\ \A i \in 1..n : L[i].day = EndDay[per[i]]
    /\ \A i, k \in 1..n : i < k => per[i] <= per[k]
    /\ \A i, k \in 1..n : i < k /\ per[i] = per[k] /\ L[i].up = 0 => L[k].up = 0
    /\ \A q \in 1..(p + 1) : \A i \in 1..n : per[i] < q <=> i <= cut[q]
    /\ cut[1] = 0 /\ cut[p + 1] = n
    /\ \A q \in 1..p : cut[q] <= cut[q + 1]

\* Lines in order of age have such a timeline.
LEMMA LinesByPeriod ==
    ASSUME NEW p \in Periods, NEW n \in Nat, NEW R, Dated(R, p), Orderable(R),
           NEW L \in [1..n -> R], Ordered(L, n)
    PROVE  \E per, cut : Timeline(p, n, L, per, cut)
  <1>1. /\ p \in Nat \ {0} /\ 1..p \subseteq Periods
        /\ \A q \in 1..p : EndDay[q] \in Int
        /\ \A q, r \in 1..p : q < r => EndDay[q] < EndDay[r]
    <2>1. p \in Nat \ {0} /\ 1..p \subseteq Periods
      BY EarlierPeriods
    <2>2. QED BY <2>1, CalendarAssumption
  <1> DEFINE per == [i \in 1..n |-> CHOOSE q \in 1..p : L[i].day = EndDay[q]]
  <1>2. \A i \in 1..n : per[i] \in 1..p /\ L[i].day = EndDay[per[i]]
    BY DEF Dated
  <1>3. per \in [1..n -> 1..p]
    BY <1>2
  <1> HIDE DEF per
  <1>4. \A i, k \in 1..n : i < k => per[i] <= per[k]
    <2> SUFFICES ASSUME NEW i \in 1..n, NEW k \in 1..n, i < k, per[k] < per[i]
                 PROVE  FALSE
      BY <1>2
    <2>1. L[k].day < L[i].day
      BY <1>1, <1>2
    <2>2. AgesBefore(L[k], L[i])
      BY <2>1 DEF AgesBefore
    <2>3. QED BY <2>2 DEF Ordered
  <1>5. \A i, k \in 1..n : i < k /\ per[i] = per[k] /\ L[i].up = 0 => L[k].up = 0
    <2> SUFFICES ASSUME NEW i \in 1..n, NEW k \in 1..n, i < k, per[i] = per[k], L[i].up = 0,
                        L[k].up # 0
                 PROVE  FALSE
      OBVIOUS
    <2>1. L[i].day = L[k].day
      BY <1>2
    <2>2. L[k].up > 0 /\ ~(L[i].up > 0)
      BY DEF Orderable
    <2>3. AgesBefore(L[k], L[i])
      BY <2>1, <2>2 DEF AgesBefore
    <2>4. QED BY <2>3 DEF Ordered
  <1> DEFINE cut == [q \in 1..(p + 1) |->
                       CHOOSE m \in 0..n : \A i \in 1..n : per[i] < q <=> i <= m]
  <1>6. \A q \in 1..(p + 1) : cut[q] \in 0..n /\ \A i \in 1..n : per[i] < q <=> i <= cut[q]
    <2> SUFFICES ASSUME NEW q \in 1..(p + 1)
                 PROVE  \E m \in 0..n : \A i \in 1..n : per[i] < q <=> i <= m
      OBVIOUS
    <2> DEFINE S == {i \in 1..n : per[i] < q}
    <2>1. \A i, k \in 1..n : i < k /\ k \in S => i \in S
      BY <1>2, <1>4
    <2>2. \A i \in 1..n : i \in S <=> per[i] < q
      OBVIOUS
    <2> HIDE DEF S
    <2>3. \E m \in 0..n : \A i \in 1..n : i \in S <=> i <= m
      BY <2>1, InitialRun
    <2>4. QED BY <2>2, <2>3
  <1>7. cut \in [1..(p + 1) -> 0..n]
    BY <1>6
  <1> HIDE DEF cut
  <1>8. cut[1] = 0
    <2>1. 1 \in 1..(p + 1) /\ cut[1] \in 0..n
      BY <1>1, <1>6
    <2>2. \A i \in 1..n : ~(per[i] < 1)
      BY <1>2
    <2>3. cut[1] \in 1..n => cut[1] <= cut[1] /\ ~(per[cut[1]] < 1)
      BY <2>1, <2>2
    <2>4. cut[1] \notin 1..n
      BY <1>6, <2>1, <2>3
    <2>5. QED BY <2>1, <2>4
  <1>9. cut[p + 1] = n
    <2>1. p + 1 \in 1..(p + 1) /\ cut[p + 1] \in 0..n
      BY <1>1, <1>6
    <2>2. CASE n = 0
      BY <2>1, <2>2
    <2>3. CASE n # 0
      <3>1. n \in 1..n /\ per[n] < p + 1
        BY <1>1, <1>2, <2>3
      <3>2. n <= cut[p + 1]
        BY <1>6, <2>1, <3>1
      <3>3. QED BY <2>1, <3>2
    <2>4. QED BY <2>2, <2>3
  <1>10. \A q \in 1..p : cut[q] <= cut[q + 1]
    <2> TAKE q \in 1..p
    <2>1. q \in 1..(p + 1) /\ q + 1 \in 1..(p + 1) /\ cut[q] \in 0..n /\ cut[q + 1] \in 0..n
      BY <1>1, <1>6
    <2>2. CASE cut[q] = 0
      BY <2>1, <2>2
    <2>3. CASE cut[q] # 0
      <3>1. cut[q] \in 1..n /\ cut[q] <= cut[q]
        BY <2>1, <2>3
      <3>2. per[cut[q]] < q
        BY <1>6, <2>1, <3>1
      <3>3. per[cut[q]] < q + 1
        BY <1>2, <3>1, <3>2
      <3>4. QED BY <1>6, <2>1, <3>1, <3>3
    <2>4. QED BY <2>2, <2>3
  <1>11. Timeline(p, n, L, per, cut)
    BY <1>2, <1>3, <1>4, <1>5, <1>6, <1>7, <1>8, <1>9, <1>10 DEF Timeline
  <1>12. QED BY <1>11

\* SettledOldestFirst sums what rows add, and what they come to.
LEMMA UpsAdd ==
    ASSUME NEW S, IsFiniteSet(S)
    PROVE  MapThenSumSet(LAMBDA r : r.up, S) = SumOver([r \in S |-> r.up], S)
  <1> DEFINE w == [r \in S |-> r.up]
             Folds(g) == g = [s \in SUBSET S |->
                IF s = {} THEN 0 ELSE First(s).up + g[s \ {First(s)}]]
             fold == CHOOSE g : Folds(g)
  <1>1. MapThenSumSet(LAMBDA r : r.up, S) = fold[S]
    BY DEF MapThenSumSet, MapThenFoldSet, First
  <1>2. \A s \in SUBSET S : s # {} => w[First(s)] = First(s).up
    BY FirstIsMember
  <1>3. ASSUME NEW g
        PROVE  Folds(g) <=> Sums(g, w, S)
    <2>1. [s \in SUBSET S |-> IF s = {} THEN 0 ELSE First(s).up + g[s \ {First(s)}]]
            = [s \in SUBSET S |-> IF s = {} THEN 0 ELSE w[First(s)] + g[s \ {First(s)}]]
      BY <1>2
    <2> HIDE DEF w
    <2>2. QED BY <2>1 DEF Sums
  <1>4. \E g : Folds(g)
    BY <1>3, SumsExist
  <1> HIDE DEF Folds
  <1>5. Folds(fold)
    BY <1>4
  <1> HIDE DEF fold, w
  <1>6. Sums(fold, w, S)
    BY <1>3, <1>5
  <1>7. SumOver(w, S) = fold[S]
    BY <1>6, SumsGive
  <1>8. MapThenSumSet(LAMBDA r : r.up, S) = SumOver(w, S)
    BY <1>1, <1>7
  <1>9. QED BY <1>8 DEF w
LEMMA NetsAdd ==
    ASSUME NEW S, IsFiniteSet(S)
    PROVE  MapThenSumSet(LAMBDA r : r.up - r.down, S) = SumOver([r \in S |-> r.up - r.down], S)
  <1> DEFINE w == [r \in S |-> r.up - r.down]
             Folds(g) == g = [s \in SUBSET S |->
                IF s = {} THEN 0 ELSE (First(s).up - First(s).down) + g[s \ {First(s)}]]
             fold == CHOOSE g : Folds(g)
  <1>1. MapThenSumSet(LAMBDA r : r.up - r.down, S) = fold[S]
    BY DEF MapThenSumSet, MapThenFoldSet, First
  <1>2. \A s \in SUBSET S : s # {} => w[First(s)] = First(s).up - First(s).down
    BY FirstIsMember
  <1>3. ASSUME NEW g
        PROVE  Folds(g) <=> Sums(g, w, S)
    <2>1. [s \in SUBSET S |->
             IF s = {} THEN 0 ELSE (First(s).up - First(s).down) + g[s \ {First(s)}]]
            = [s \in SUBSET S |-> IF s = {} THEN 0 ELSE w[First(s)] + g[s \ {First(s)}]]
      BY <1>2
    <2> HIDE DEF w
    <2>2. QED BY <2>1 DEF Sums
  <1>4. \E g : Folds(g)
    BY <1>3, SumsExist
  <1> HIDE DEF Folds
  <1>5. Folds(fold)
    BY <1>4
  <1> HIDE DEF fold, w
  <1>6. Sums(fold, w, S)
    BY <1>3, <1>5
  <1>7. SumOver(w, S) = fold[S]
    BY <1>6, SumsGive
  <1>8. MapThenSumSet(LAMBDA r : r.up - r.down, S) = SumOver(w, S)
    BY <1>1, <1>7
  <1>9. QED BY <1>8 DEF w

\* Every row is listed once; and weights of the rows are those of the lines.
Listing(R, n, L) ==
    /\ n \in Nat /\ L \in [1..n -> R]
    /\ \A i, k \in 1..n : L[i] = L[k] => i = k
    /\ \A r \in R : \E i \in 1..n : L[i] = r
Weighed(R, n, L, w, v) ==
    /\ \A r \in R : w[r] \in Int
    /\ \A i \in 1..n : v[i] = w[L[i]]
Since(R, q) == {r \in R : r.day >= EndDay[q]}

\* The rows of a period and later are the lines after its cut.
LEMMA SumSince ==
    ASSUME NEW p \in Periods, NEW n, NEW R, NEW L, Listing(R, n, L),
           NEW per, NEW cut, Timeline(p, n, L, per, cut),
           NEW w, NEW v, Weighed(R, n, L, w, v), NEW q \in 1..p
    PROVE  /\ IsFiniteSet(Since(R, q))
           /\ SumOver(w, Since(R, q)) = SumUpTo(v, n) - SumUpTo(v, cut[q])
  <1> DEFINE a == cut[q]
             S == (a + 1)..n
  <1>1. n \in Nat /\ L \in [1..n -> R]
    BY DEF Listing
  <1>2. \A i, k \in 1..n : L[i] = L[k] => i = k
    BY DEF Listing
  <1>3. \A r \in R : \E i \in 1..n : L[i] = r
    BY DEF Listing
  <1>4. \A i \in 1..n : v[i] = w[L[i]] /\ v[i] \in Int
    BY <1>1 DEF Weighed
  <1>5. /\ p \in Nat \ {0} /\ q \in 1..(p + 1)
        /\ \A t \in 1..p : EndDay[t] \in Int
        /\ \A t, r \in 1..p : t < r => EndDay[t] < EndDay[r]
    <2>1. p \in Nat \ {0} /\ 1..p \subseteq Periods
      BY EarlierPeriods
    <2>2. QED BY <2>1, CalendarAssumption
  <1>6. a \in 0..n /\ \A i \in 1..n : per[i] < q <=> i <= a
    BY <1>1, <1>5 DEF Timeline
  <1>7. \A i \in 1..n : per[i] \in 1..p /\ L[i].day = EndDay[per[i]]
    BY DEF Timeline
  <1>8. \A i \in 1..n : L[i].day >= EndDay[q] <=> i \in S
    <2> TAKE i \in 1..n
    <2>1. i \in S <=> ~(per[i] < q)
      BY <1>6
    <2> HIDE DEF S
    <2>2. CASE per[i] < q
      BY <1>5, <1>7, <2>1, <2>2
    <2>3. CASE per[i] = q
      BY <1>5, <1>7, <2>1, <2>3
    <2>4. CASE q < per[i]
      BY <1>5, <1>7, <2>1, <2>4
    <2>5. QED BY <1>7, <2>2, <2>3, <2>4
  <1>9. S \subseteq 1..n /\ IsFiniteSet(S)
    <2>1. a + 1 \in Int /\ n \in Int
      BY <1>1, <1>6
    <2>2. IsFiniteSet((a + 1)..n)
      <3> HIDE DEF a
      <3>1. QED BY <2>1, FS_Interval
    <2>3. QED BY <1>1, <1>6, <2>2
  <1>10. Since(R, q) = {L[i] : i \in S}
    <2>1. \A i \in S : L[i] \in R /\ L[i].day >= EndDay[q]
      BY <1>1, <1>8, <1>9
    <2>2. \A r \in R : r.day >= EndDay[q] => \E i \in S : L[i] = r
      BY <1>3, <1>8
    <2> HIDE DEF S
    <2>3. QED BY <2>1, <2>2 DEF Since
  <1>11. \A i \in 1..n : v[i] \in Int
    BY <1>4
  <1>12. SumOver(v, S) = SumUpTo(v, n) - SumUpTo(v, a)
    <2>1. n \in Nat /\ n \in 0..n /\ a \in 0..n
      BY <1>1, <1>6
    <2> HIDE DEF a
    <2>2. QED BY <1>11, <2>1, SumBetween
  <1> HIDE DEF S
  <1>13. /\ IsFiniteSet({L[i] : i \in S})
         /\ SumOver(w, {L[i] : i \in S}) = SumOver(v, S)
    <2>1. \A i \in S : v[i] \in Int
      BY <1>9, <1>11
    <2>2. \A i \in S : w[L[i]] = v[i]
      BY <1>4, <1>9
    <2>3. \A i, k \in S : L[i] = L[k] => i = k
      BY <1>2, <1>9
    <2>4. IsFiniteSet(S)
      BY <1>9
    <2> DEFINE f == [i \in S |-> L[i]]
               T == {L[i] : i \in S}
               U == {f[i] : i \in S}
    <2>5. \A i, k \in S : f[i] = f[k] => i = k
      BY <2>3
    <2>6. \A i \in S : w[f[i]] = v[i]
      BY <2>2
    <2>7. T = U
      OBVIOUS
    <2> HIDE DEF f
    <2>8. IsFiniteSet(U) /\ SumOver(w, U) = SumOver(v, S)
      BY <2>1, <2>4, <2>5, <2>6, SumRenamed
    <2> HIDE DEF U
    <2>9. IsFiniteSet(T) /\ SumOver(w, T) = SumOver(v, S)
      <3> HIDE DEF T
      <3>1. QED BY <2>7, <2>8
    <2>10. QED BY <2>9
  <1>14. QED BY <1>10, <1>12, <1>13

\* What the lines after some place come to is most at the start of a period:
\* within a period increases come first.
LEMMA MostAtAPeriod ==
    ASSUME NEW p \in Periods, NEW n \in Nat, NEW L, NEW per, NEW cut,
           Timeline(p, n, L, per, cut),
           NEW w, \A i \in 1..n : /\ w[i] \in Int
                                  /\ L[i].up = 0 => w[i] <= 0
                                  /\ L[i].up # 0 => w[i] >= 0,
           NEW m \in 0..n
    PROVE  \E q \in 1..(p + 1) : SumUpTo(w, cut[q]) <= SumUpTo(w, m)
  <1>1. p \in Nat \ {0}
    BY EarlierPeriods
  <1>2. \A i \in 0..n : SumUpTo(w, i) \in Int
    BY SumUpToSteps
  <1>3. CASE m = n
    <2>1. cut[p + 1] = m /\ p + 1 \in 1..(p + 1)
      BY <1>1, <1>3 DEF Timeline
    <2>2. SumUpTo(w, m) <= SumUpTo(w, m)
      BY <1>2
    <2>3. QED BY <2>1, <2>2
  <1>4. CASE m # n
    <2> DEFINE l == m + 1
               q == per[l]
               a == cut[q]
               b == cut[q + 1]
    <2>1. l \in 1..n /\ q \in 1..p
      BY <1>4 DEF Timeline
    <2>2. q \in 1..(p + 1) /\ q + 1 \in 1..(p + 1)
      BY <1>1, <2>1
    <2>3. /\ a \in 0..n /\ b \in 0..n
          /\ \A i \in 1..n : per[i] < q <=> i <= a
          /\ \A i \in 1..n : per[i] < q + 1 <=> i <= b
      BY <2>2 DEF Timeline
    <2>4. a <= m /\ l <= b
      <3>1. ~(l <= a)
        BY <2>1, <2>3
      <3>2. per[l] < q + 1
        BY <2>1
      <3>3. l <= b
        BY <2>1, <2>3, <3>2
      <3> HIDE DEF a, b
      <3>4. QED BY <2>3, <3>1, <3>3
    <2>5. \A i \in 1..n : per[i] \in Int
      BY DEF Timeline
    <2>6. \A i \in (a + 1)..b : i \in 1..n /\ per[i] = q
      <3> TAKE i \in (a + 1)..b
      <3>1. i \in 1..n /\ ~(i <= a) /\ i <= b
        <4> HIDE DEF a, b
        <4>1. QED BY <2>3
      <3>2. ~(per[i] < q) /\ per[i] < q + 1
        BY <2>3, <3>1
      <3>3. QED BY <2>1, <2>5, <3>1, <3>2
    <2>7. \A i, k \in 1..n : i < k /\ per[i] = per[k] /\ L[i].up = 0 => L[k].up = 0
      BY DEF Timeline
    <2>8. l > m /\ l = m + 1 /\ \A i \in 1..n : i <= m \/ i = l \/ i > l
      OBVIOUS
    <2>9. per[l] = q
      OBVIOUS
    <2> HIDE DEF l, q, a, b
    <2>10. CASE L[l].up # 0
      <3>1. \A i \in (a + 1)..m : i \in 1..n /\ i \in (a + 1)..b /\ i < l
        BY <2>1, <2>3, <2>4, <2>8
      <3>2. \A i \in (a + 1)..m : w[i] >= 0
        <4> TAKE i \in (a + 1)..m
        <4>1. L[i].up # 0
          BY <2>1, <2>6, <2>7, <2>9, <2>10, <3>1
        <4>2. QED BY <3>1, <4>1
      <3>3. a \in 0..m /\ m \in 0..n
        BY <2>3, <2>4
      <3>4. SumUpTo(w, a) <= SumUpTo(w, m)
        BY <3>2, <3>3, SumUpToMonotone
      <3>5. QED BY <2>2, <3>4 DEF a
    <2>11. CASE L[l].up = 0
      <3>1. \A i \in l..b : i \in 1..n /\ i \in (a + 1)..b /\ (i = l \/ l < i)
        BY <2>1, <2>3, <2>4, <2>8
      <3>2. \A i \in (m + 1)..b : w[i] <= 0
        <4> SUFFICES ASSUME NEW i \in l..b
                     PROVE  w[i] <= 0
          BY <2>8
        <4>1. L[i].up = 0
          BY <2>1, <2>6, <2>7, <2>9, <2>11, <3>1
        <4>2. QED BY <3>1, <4>1
      <3>3. m \in 0..b /\ b \in 0..n
        BY <2>3, <2>4, <2>8
      <3>4. SumUpTo(w, m) >= SumUpTo(w, b)
        BY <3>2, <3>3, SumUpToMonotone
      <3>5. SumUpTo(w, b) <= SumUpTo(w, m)
        BY <1>2, <3>3, <3>4
      <3>6. QED BY <2>2, <3>5 DEF b
    <2>12. QED BY <2>10, <2>11
  <1>5. QED BY <1>3, <1>4

\* The periods, and the lines, of a bucket; and what each period's lines come to.
Dues(p, b) == {q \in 1..p : Bucket(EndDay[p] - EndDay[q]) = b}
LinesDue(p, n, L, b) == {i \in 1..n : Bucket(EndDay[p] - L[i].day) = b}
ByPeriod(p, w, cut, dated) ==
    \A q \in 1..p : dated[q] = SumUpTo(w, cut[q + 1]) - SumUpTo(w, cut[q])

\* The items of a bucket are those of its periods.
LEMMA ItemsByPeriod ==
    ASSUME NEW p \in Periods, NEW n \in Nat, NEW L, NEW per, NEW cut,
           Timeline(p, n, L, per, cut),
           NEW w, \A i \in 1..n : w[i] \in Int, NEW b,
           NEW dated, ByPeriod(p, w, cut, dated)
    PROVE  SumOver(w, LinesDue(p, n, L, b)) = SumOver(dated, Dues(p, b))
  <1> DEFINE A == {q \in 1..p : Bucket(EndDay[p] - EndDay[q]) = b}
             S == {i \in 1..n : Bucket(EndDay[p] - L[i].day) = b}
             v == [q \in A |-> SumOver(w, {i \in S : per[i] = q})]
  <1>1. p \in Nat \ {0}
    BY EarlierPeriods
  <1>2. IsFiniteSet(A) /\ IsFiniteSet(S)
    <2>1. IsFiniteSet(1..p) /\ IsFiniteSet(1..n)
      BY <1>1, FS_Interval
    <2>2. QED BY <2>1, FS_Subset
  <1>3. \A i \in 1..n : per[i] \in 1..p /\ L[i].day = EndDay[per[i]]
    BY DEF Timeline
  <1>4. \A i \in S : i \in 1..n /\ per[i] \in A
    BY <1>3
  <1>5. \A q \in A : v[q] = dated[q] /\ v[q] \in Int
    <2> TAKE q \in A
    <2> DEFINE c == cut[q]
               d == cut[q + 1]
    <2>1. q \in 1..p /\ q \in 1..(p + 1) /\ q + 1 \in 1..(p + 1)
      BY <1>1
    <2>2. /\ c \in 0..n /\ d \in 0..n /\ c <= d
          /\ \A i \in 1..n : per[i] < q <=> i <= c
          /\ \A i \in 1..n : per[i] < q + 1 <=> i <= d
      BY <2>1 DEF Timeline
    <2>3. dated[q] = SumUpTo(w, d) - SumUpTo(w, c)
      BY <2>1 DEF ByPeriod
    <2> HIDE DEF c, d
    <2>4. \A i \in 1..n : per[i] = q <=> i \in (c + 1)..d
      BY <1>3, <2>1, <2>2
    <2>5. \A i \in (c + 1)..d : i \in 1..n
      BY <2>2
    <2>6. \A i \in 1..n : per[i] = q => i \in S
      BY <1>3
    <2>7. {i \in S : per[i] = q} = (c + 1)..d
      <3>1. \A i \in S : i \in 1..n
        OBVIOUS
      <3> HIDE DEF S
      <3>2. QED BY <2>4, <2>5, <2>6, <3>1
    <2>8. SumOver(w, (c + 1)..d) = SumUpTo(w, d) - SumUpTo(w, c)
      <3>1. d \in 0..n /\ c \in 0..d
        BY <2>2
      <3>2. QED BY <3>1, SumBetween
    <2>9. SumUpTo(w, d) \in Int /\ SumUpTo(w, c) \in Int
      BY <2>2, SumUpToSteps
    <2>10. v[q] = SumOver(w, {i \in S : per[i] = q})
      OBVIOUS
    <2> HIDE DEF v, S, A
    <2>11. v[q] = SumUpTo(w, d) - SumUpTo(w, c)
      BY <2>7, <2>8, <2>10
    <2>12. SumUpTo(w, d) - SumUpTo(w, c) \in Int
      BY <2>9
    <2>13. QED BY <2>3, <2>11, <2>12
  <1>6. SumOver(v, A) = SumOver(w, S)
    <2>1. \A i \in S : w[i] \in Int /\ per[i] \in A
      BY <1>4
    <2> HIDE DEF S, A
    <2>2. QED BY <1>2, <2>1, SumByParts
  <1> HIDE DEF v, A, S
  <1>7. SumOver(v, A) = SumOver(dated, A)
    BY <1>2, <1>5, SumEqual
  <1>8. SumOver(w, S) = SumOver(dated, A)
    BY <1>6, <1>7
  <1>9. QED BY <1>8 DEF A, S, Dues, LinesDue

OneSided(R) == \A r \in R : r.down \in Nat /\ (r.up = 0 <=> r.down # 0)

\* What aging reports is what SettledOldestFirst says, of any such rows.
LEMMA RowsAge ==
    ASSUME NEW s, NEW p \in Periods, NEW a, NEW growing,
           IsFiniteSet(AgingRows(s, p, a, growing)), Dated(AgingRows(s, p, a, growing), p),
           Orderable(AgingRows(s, p, a, growing)), OneSided(AgingRows(s, p, a, growing))
    PROVE  Aging(s, p, a, growing).outstanding = SettledOldestFirst(s, p, a, growing)
  <1> DEFINE R == AgingRows(s, p, a, growing)
             n == Cardinality(R)
             L == InOrderOfAge(R)
             open == OpenItems(L)
             T == SumUpTo(open, n)
             ups == Ups(L)
             nets == Nets(L)
             since(q) == {r \in R : r.day >= EndDay[q]}
             up == [q \in 1..(p + 1) |->
                       IF q > p THEN 0 ELSE MapThenSumSet(LAMBDA r : r.up, since(q))]
             net == [q \in 1..(p + 1) |->
                       IF q > p THEN 0 ELSE MapThenSumSet(LAMBDA r : r.up - r.down, since(q))]
             most == Max({net[q] : q \in 1..(p + 1)})
             dated == [q \in 1..p |-> Smaller(most, up[q]) - Smaller(most, up[q + 1])]
             dueIn(b) == {q \in 1..p : Bucket(EndDay[p] - EndDay[q]) = b}
             within(b) == {i \in 1..n : Bucket(EndDay[p] - L[i].day) = b}
             listed(b) == {i \in DOMAIN L : Bucket(EndDay[p] - L[i].day) = b}
  <1>1. SettledOldestFirst(s, p, a, growing) = [b \in Buckets |-> SumOver(dated, dueIn(b))]
    BY DEF SettledOldestFirst, SumOver
  <1>2. Aging(s, p, a, growing).outstanding = [b \in Buckets |-> SumOver(open, listed(b))]
    BY DEF Aging, SumOver
  <1>3. IsFiniteSet(R) /\ Dated(R, p) /\ Orderable(R) /\ OneSided(R)
    OBVIOUS
  <1> HIDE DEF R, dated, most, up, net
  <1>4. p \in Nat \ {0}
    BY EarlierPeriods
  <1>5. n \in Nat /\ L \in [1..n -> R]
    BY <1>3, OrderOfAge
  <1>6. DOMAIN L = 1..n /\ Len(L) = n
    BY <1>3, OrderOfAge
  <1>7. \A i, k \in 1..n : L[i] = L[k] => i = k
    BY <1>3, OrderOfAge
  <1>8. \A r \in R : \E i \in 1..n : L[i] = r
    BY <1>3, OrderOfAge
  <1>9. Ordered(L, n)
    BY <1>3, OrderOfAge
  <1>10. Listing(R, n, L)
    BY <1>5, <1>7, <1>8 DEF Listing
  <1>11. \A b : listed(b) = within(b)
    BY <1>6
  <1>12. open = OpenItems(L)
    OBVIOUS
  <1> HIDE DEF n, L, open
  <1>13. PICK per, cut : Timeline(p, n, L, per, cut)
    BY <1>3, <1>5, <1>9, LinesByPeriod
  <1>14. \A i \in 1..n : /\ L[i].up \in Nat /\ L[i].down \in Nat
                         /\ (L[i].up = 0 <=> L[i].down # 0)
    BY <1>3, <1>5 DEF Orderable, OneSided
  <1>15. /\ \A i \in 1..n : ups[i] = L[i].up /\ ups[i] \in Int
         /\ \A i \in 1..n : nets[i] = L[i].up - L[i].down /\ nets[i] \in Int
    BY <1>6, <1>14 DEF Ups, Nets
  <1>16. /\ open \in [1..n -> Nat]
         /\ \A m \in 0..n : T - SumUpTo(open, m) = Smaller(T, SumUpTo(ups, n) - SumUpTo(ups, m))
         /\ \A m \in 0..n : SumUpTo(nets, n) - SumUpTo(nets, m) <= T
         /\ \E m \in 0..n : SumUpTo(nets, n) - SumUpTo(nets, m) = T
    <2>1. Lines(L, n)
      BY <1>6, <1>14 DEF Lines
    <2>2. NewestRemain(L, n, ups, nets)
      BY <1>5, <2>1, OldestFirst
    <2> HIDE DEF ups, nets
    <2>3. QED BY <1>12, <2>2 DEF NewestRemain
  <1> HIDE DEF ups, nets
  <1>17. /\ \A i \in 0..n : SumUpTo(ups, i) \in Int
         /\ \A i \in 0..n : SumUpTo(nets, i) \in Int
         /\ \A i \in 0..n : SumUpTo(open, i) \in Int
    <2>1. \A i \in 0..n : SumUpTo(ups, i) \in Int
      BY <1>5, <1>15, SumUpToSteps
    <2>2. \A i \in 0..n : SumUpTo(nets, i) \in Int
      BY <1>5, <1>15, SumUpToSteps
    <2>3. \A i \in 1..n : open[i] \in Int
      BY <1>16
    <2>4. \A i \in 0..n : SumUpTo(open, i) \in Int
      BY <1>5, <2>3, SumUpToSteps
    <2>5. QED BY <2>1, <2>2, <2>4
  <1>18. \A q \in 1..(p + 1) : cut[q] \in 0..n
    BY <1>13 DEF Timeline
  <1>19. \A q \in 1..(p + 1) : /\ up[q] = SumUpTo(ups, n) - SumUpTo(ups, cut[q])
                               /\ net[q] = SumUpTo(nets, n) - SumUpTo(nets, cut[q])
    <2> TAKE q \in 1..(p + 1)
    <2>1. CASE q > p
      <3>1. up[q] = 0 /\ net[q] = 0
        BY <2>1 DEF up, net
      <3>2. cut[q] = n
        <4>1. q = p + 1
          BY <1>4, <2>1
        <4>2. QED BY <1>13, <4>1 DEF Timeline
      <3> DEFINE x == SumUpTo(ups, n)
                 y == SumUpTo(nets, n)
      <3>3. x \in Int /\ y \in Int
        BY <1>5, <1>17
      <3> HIDE DEF x, y
      <3>4. x - x = 0 /\ y - y = 0
        BY <3>3
      <3>5. QED BY <3>1, <3>2, <3>4 DEF x, y
    <2>2. CASE ~(q > p)
      <3> DEFINE S == since(q)
                 u == [r \in R |-> r.up]
                 v == [r \in R |-> r.up - r.down]
      <3>1. q \in 1..p /\ S \subseteq R
        BY <1>4, <2>2
      <3>2. /\ \A r \in R : u[r] = r.up /\ u[r] \in Int
            /\ \A r \in R : v[r] = r.up - r.down /\ v[r] \in Int
        BY <1>3 DEF Orderable, OneSided
      <3>3. up[q] = MapThenSumSet(LAMBDA r : r.up, S)
            /\ net[q] = MapThenSumSet(LAMBDA r : r.up - r.down, S)
        BY <2>2 DEF up, net
      <3>4. S = {r \in R : r.day >= EndDay[q]}
        OBVIOUS
      <3> HIDE DEF u, v
      <3>5. \A i \in 1..n : L[i] \in R
        BY <1>5
      <3>6. \A i \in 1..n : ups[i] = u[L[i]] /\ nets[i] = v[L[i]]
        BY <1>15, <3>2, <3>5
      <3>7. IsFiniteSet(S) /\ SumOver(u, S) = SumUpTo(ups, n) - SumUpTo(ups, cut[q])
        <4>1. Weighed(R, n, L, u, ups)
          BY <3>2, <3>6 DEF Weighed
        <4>2. S = Since(R, q)
          BY <3>4 DEF Since
        <4> HIDE DEF S
        <4>3. /\ IsFiniteSet(Since(R, q))
              /\ SumOver(u, Since(R, q)) = SumUpTo(ups, n) - SumUpTo(ups, cut[q])
          BY <1>10, <1>13, <3>1, <4>1, SumSince
        <4>4. QED BY <4>2, <4>3
      <3>8. SumOver(v, S) = SumUpTo(nets, n) - SumUpTo(nets, cut[q])
        <4>1. Weighed(R, n, L, v, nets)
          BY <3>2, <3>6 DEF Weighed
        <4>2. S = Since(R, q)
          BY <3>4 DEF Since
        <4> HIDE DEF S
        <4>3. SumOver(v, Since(R, q)) = SumUpTo(nets, n) - SumUpTo(nets, cut[q])
          BY <1>10, <1>13, <3>1, <4>1, SumSince
        <4>4. QED BY <4>2, <4>3
      <3>9. /\ SumOver(u, S) = SumOver([r \in S |-> r.up], S)
            /\ SumOver(v, S) = SumOver([r \in S |-> r.up - r.down], S)
        <4> DEFINE x == [r \in S |-> r.up]
                   y == [r \in S |-> r.up - r.down]
        <4>1. /\ \A r \in S : u[r] = x[r] /\ u[r] \in Int
              /\ \A r \in S : v[r] = y[r] /\ v[r] \in Int
          <5> HIDE DEF S
          <5>1. QED BY <3>1, <3>2
        <4> HIDE DEF x, y, S
        <4>2. SumOver(u, S) = SumOver(x, S)
          BY <3>7, <4>1, SumEqual
        <4>3. SumOver(v, S) = SumOver(y, S)
          BY <3>7, <4>1, SumEqual
        <4>4. QED BY <4>2, <4>3 DEF x, y
      <3> HIDE DEF S
      <3>10. /\ MapThenSumSet(LAMBDA r : r.up, S) = SumOver([r \in S |-> r.up], S)
             /\ MapThenSumSet(LAMBDA r : r.up - r.down, S)
                  = SumOver([r \in S |-> r.up - r.down], S)
        BY <3>7, UpsAdd, NetsAdd
      <3>11. QED BY <3>3, <3>7, <3>8, <3>9, <3>10
    <2>3. QED BY <2>1, <2>2
  <1>20. most = T
    <2> DEFINE M == {net[q] : q \in 1..(p + 1)}
    <2>1. T \in Int
      BY <1>5, <1>17
    <2>2. \A y \in M : T >= y
      <3> SUFFICES ASSUME NEW q \in 1..(p + 1)
                   PROVE  T >= net[q]
        OBVIOUS
      <3> HIDE DEF T
      <3>1. net[q] = SumUpTo(nets, n) - SumUpTo(nets, cut[q]) /\ cut[q] \in 0..n
        BY <1>18, <1>19
      <3>2. SumUpTo(nets, n) - SumUpTo(nets, cut[q]) <= T
        BY <1>16, <3>1 DEF T
      <3>3. SumUpTo(nets, n) \in Int /\ SumUpTo(nets, cut[q]) \in Int
        BY <1>5, <1>17, <3>1
      <3>4. net[q] \in Int
        BY <3>1, <3>3
      <3>5. QED BY <2>1, <3>1, <3>2, <3>4
    <2>3. T \in M
      <3>1. PICK m \in 0..n : SumUpTo(nets, n) - SumUpTo(nets, m) = T
        BY <1>16
      <3>2. \A i \in 1..n : /\ nets[i] \in Int
                            /\ L[i].up = 0 => nets[i] <= 0
                            /\ L[i].up # 0 => nets[i] >= 0
        <4> TAKE i \in 1..n
        <4> DEFINE g == nets[i]
                   u == L[i].up
                   d == L[i].down
        <4>1. g = u - d /\ u \in Nat /\ d \in Nat /\ (u = 0 <=> d # 0)
          BY <1>14, <1>15
        <4> HIDE DEF g, u, d
        <4>2. g \in Int /\ (u = 0 => g <= 0) /\ (u # 0 => g >= 0)
          BY <4>1
        <4>3. QED BY <4>2 DEF g, u
      <3>3. PICK q \in 1..(p + 1) : SumUpTo(nets, cut[q]) <= SumUpTo(nets, m)
        BY <1>5, <1>13, <3>2, MostAtAPeriod
      <3> DEFINE x == SumUpTo(nets, n)
                 y == SumUpTo(nets, m)
                 z == SumUpTo(nets, cut[q])
                 w == net[q]
      <3>4. cut[q] \in 0..n /\ n \in 0..n
        BY <1>5, <1>18
      <3>5. x \in Int /\ y \in Int /\ z \in Int
        BY <1>17, <3>4
      <3>6. x - y = T /\ z <= y
        BY <3>1, <3>3
      <3>7. x - z <= T /\ w = x - z
        BY <1>16, <1>19, <3>4
      <3>8. /\ x \in Int /\ y \in Int /\ z \in Int
            /\ x - y = T /\ z <= y /\ x - z <= T /\ w = x - z
        BY <3>5, <3>6, <3>7
      <3>9. w \in M
        OBVIOUS
      <3> HIDE DEF x, y, z, w, T, M
      <3>10. w = T
        BY <2>1, <3>8
      <3>11. QED BY <3>9, <3>10
    <2>4. most = Max(M)
      BY DEF most
    <2>5. M \subseteq Int
      <3> SUFFICES ASSUME NEW q \in 1..(p + 1)
                   PROVE  net[q] \in Int
        OBVIOUS
      <3>1. net[q] = SumUpTo(nets, n) - SumUpTo(nets, cut[q]) /\ cut[q] \in 0..n
        BY <1>18, <1>19
      <3>2. SumUpTo(nets, n) \in Int /\ SumUpTo(nets, cut[q]) \in Int
        BY <1>5, <1>17, <3>1
      <3>3. QED BY <3>1, <3>2
    <2> HIDE DEF M, T
    <2>6. Max(M) \in M /\ \A y \in M : Max(M) >= y
      <3>1. \E x \in M : \A y \in M : x >= y
        BY <2>2, <2>3
      <3>2. QED BY <3>1 DEF Max
    <2>7. Max(M) >= T /\ T >= Max(M) /\ Max(M) \in Int
      BY <2>2, <2>3, <2>5, <2>6
    <2>8. Max(M) = T
      BY <2>1, <2>7
    <2>9. QED BY <2>4, <2>8
  <1> HIDE DEF T
  <1>21. \A q \in 1..p : dated[q] = SumUpTo(open, cut[q + 1]) - SumUpTo(open, cut[q])
    <2> TAKE q \in 1..p
    <2> DEFINE x == SumUpTo(open, cut[q])
               y == SumUpTo(open, cut[q + 1])
               u == up[q]
               v == up[q + 1]
    <2>1. q \in 1..(p + 1) /\ q + 1 \in 1..(p + 1)
      BY <1>4
    <2>2. cut[q] \in 0..n /\ cut[q + 1] \in 0..n
      BY <1>18, <2>1
    <2> DEFINE d == SumUpTo(ups, n) - SumUpTo(ups, cut[q])
               e == SumUpTo(ups, n) - SumUpTo(ups, cut[q + 1])
    <2>3. u = d /\ v = e
      BY <1>19, <2>1
    <2>4. T - x = Smaller(T, d) /\ T - y = Smaller(T, e)
      BY <1>16, <2>2 DEF T
    <2>5. T - x = Smaller(T, u) /\ T - y = Smaller(T, v)
      <3> HIDE DEF d, e, x, y, u, v
      <3>1. QED BY <2>3, <2>4
    <2>6. x \in Int /\ y \in Int /\ T \in Int
      <3>1. n \in 0..n
        BY <1>5
      <3>2. x \in Int /\ y \in Int
        BY <1>17, <2>2
      <3>3. T \in Int
        BY <1>17, <3>1 DEF T
      <3>4. QED BY <3>2, <3>3
    <2>7. dated[q] = Smaller(T, u) - Smaller(T, v)
      BY <1>20 DEF dated
    <2> HIDE DEF x, y, u, v
    <2>8. (T - x) - (T - y) = y - x
      BY <2>6
    <2>9. QED BY <2>5, <2>7, <2>8 DEF x, y
  <1>22. \A b \in Buckets : SumOver(open, within(b)) = SumOver(dated, dueIn(b))
    <2> TAKE b \in Buckets
    <2>1. \A i \in 1..n : open[i] \in Int
      BY <1>16
    <2>2. ByPeriod(p, open, cut, dated)
      BY <1>21 DEF ByPeriod
    <2>3. SumOver(open, LinesDue(p, n, L, b)) = SumOver(dated, Dues(p, b))
      BY <1>5, <1>13, <2>1, <2>2, ItemsByPeriod
    <2>4. LinesDue(p, n, L, b) = within(b) /\ Dues(p, b) = dueIn(b)
      BY DEF LinesDue, Dues
    <2>5. QED BY <2>3, <2>4
  <1>23. [b \in Buckets |-> SumOver(open, within(b))] = [b \in Buckets |-> SumOver(dated, dueIn(b))]
    BY <1>22
  <1>24. [b \in Buckets |-> SumOver(open, listed(b))] = [b \in Buckets |-> SumOver(open, within(b))]
    BY <1>11
  <1>25. QED BY <1>1, <1>2, <1>23, <1>24

\* The rows that a journal gives an account's aging.
RowOf(j, x, growing) ==
    [day |-> EndDay[j.period], ref |-> j.ref, role |-> x.role,
     up |-> Growth(x, growing), down |-> Decline(x, growing)]
RowsOf(J, a, growing) ==
    UNION {{RowOf(j, x, growing) : x \in {y \in j.lines : y.account = a}} : j \in J}

LEMMA RowsAreFinite ==
    ASSUME NEW J, JournalsFit(J), NEW a, NEW growing
    PROVE  IsFiniteSet(RowsOf(J, a, growing))
  <1> DEFINE C == {s \in SUBSET J : IsFiniteSet(RowsOf(s, a, growing))}
  <1>1. {} \in C
    <2>1. RowsOf({}, a, growing) = {}
      BY DEF RowsOf
    <2>2. QED BY <2>1, FS_EmptySet
  <1>2. ASSUME NEW s \in C, NEW j \in J \ s
        PROVE  s \cup {j} \in C
    <2> DEFINE T == RowsOf(s, a, growing)
               U == RowsOf({j}, a, growing)
               S == LinesOf(j, a)
               f == [x \in S |-> RowOf(j, x, growing)]
    <2>1. RowsOf(s \cup {j}, a, growing) = T \cup U
      BY DEF RowsOf
    <2>2. IsFiniteSet(S)
      BY LinesOnOne DEF JournalsFit, JournalFits
    <2>3. U = {f[x] : x \in S}
      <3>1. U = {RowOf(j, x, growing) : x \in S}
        BY DEF RowsOf, LinesOf
      <3> HIDE DEF U, S
      <3>2. QED BY <3>1
    <2>4. f \in Surjection(S, U)
      <3>1. DOMAIN f = S
        OBVIOUS
      <3> HIDE DEF f, U, S
      <3>2. f \in [S -> U]
        <4>1. \A x \in S : f[x] \in U
          BY <2>3
        <4>2. f = [x \in S |-> f[x]]
          BY <3>1 DEF f
        <4>3. QED BY <4>1, <4>2
      <3>3. \A u \in U : \E x \in S : f[x] = u
        BY <2>3
      <3>4. QED BY <3>2, <3>3 DEF Surjection
    <2>5. IsFiniteSet(U)
      <3> HIDE DEF f, U, S
      <3>1. QED BY <2>2, <2>4, FS_Surjection
    <2>6. IsFiniteSet(T)
      OBVIOUS
    <2> HIDE DEF T, U
    <2>7. IsFiniteSet(T \cup U)
      BY <2>5, <2>6, FS_Union
    <2>8. QED BY <2>1, <2>7
  <1>3. C \in SUBSET (SUBSET J)
    OBVIOUS
  <1>4. J \in C
    <2> HIDE DEF C
    <2>1. IsFiniteSet(J)
      BY DEF JournalsFit
    <2>2. QED BY <1>1, <1>2, <1>3, <2>1, SetInduction
  <1>5. QED BY <1>4

\* The rows of a book that commands make are such rows.
LEMMA AgingRowsFit ==
    ASSUME NEW s, BookOK(s), NEW p \in Periods, NEW a, NEW growing \in {"debit", "credit"}
    PROVE  LET R == AgingRows(s, p, a, growing)
           IN  /\ IsFiniteSet(R)
               /\ \A r \in R : /\ \E q \in 1..p : r.day = EndDay[q]
                               /\ r.ref \in Int /\ r.up \in Nat /\ r.down \in Nat
                               /\ r.up = 0 <=> r.down # 0
  <1> DEFINE J == Operational(Through(s, p))
  <1>1. AgingRows(s, p, a, growing) = RowsOf(J, a, growing)
    BY DEF AgingRows, RowsOf, RowOf
  <1>2. JournalsFit(J)
    <2>1. JournalsFit(Through(s, p)) /\ J \subseteq Through(s, p)
      BY ThroughFits DEF Operational
    <2>2. QED BY <2>1, PartFits
  <1>3. \A j \in J : /\ j.ref \in Int /\ j.period \in 1..p
                     /\ \A x \in j.lines : /\ x.debit \in Nat /\ x.credit \in Nat
                                           /\ x.debit = 0 <=> x.credit # 0
    <2> SUFFICES ASSUME NEW j \in J
                 PROVE  /\ j.ref \in Int /\ j.period \in 1..p
                        /\ \A x \in j.lines : /\ x.debit \in Nat /\ x.credit \in Nat
                                              /\ x.debit = 0 <=> x.credit # 0
      OBVIOUS
    <2>1. j \in s.journals /\ j.period <= p /\ ~j.closing
      BY DEF Operational, Through
    <2>2. j.ref \in Int
      BY <2>1 DEF BookOK, Referenced
    <2>3. JournalFits(j)
      BY <1>2 DEF JournalsFit
    <2>4. j.period \in 1..p
      BY <2>1, <2>3, PeriodsCount DEF JournalFits
    <2>5. \A x \in j.lines : x \in Line /\ Booked(x)
      BY <2>3 DEF JournalFits, LinesFit
    <2>6. \A x \in j.lines : /\ x.debit \in Nat /\ x.credit \in Nat
                             /\ x.debit = 0 <=> x.credit # 0
      BY <2>5 DEF Line, Booked
    <2>7. QED BY <2>2, <2>4, <2>6
  <1> HIDE DEF J
  <1>4. ASSUME NEW r \in RowsOf(J, a, growing)
        PROVE  /\ \E q \in 1..p : r.day = EndDay[q]
               /\ r.ref \in Int /\ r.up \in Nat /\ r.down \in Nat
               /\ r.up = 0 <=> r.down # 0
    <2>1. PICK j \in J : \E x \in j.lines : r = RowOf(j, x, growing)
      BY <1>4 DEF RowsOf
    <2>2. PICK x \in j.lines : r = RowOf(j, x, growing)
      BY <2>1
    <2>3. /\ r.day = EndDay[j.period] /\ r.ref = j.ref
          /\ r.up = Growth(x, growing) /\ r.down = Decline(x, growing)
      BY <2>2 DEF RowOf
    <2>4. /\ r.up \in Nat /\ r.down \in Nat
          /\ r.up = 0 <=> r.down # 0
      BY <1>3, <2>3 DEF Growth, Decline
    <2>5. QED BY <1>3, <2>3, <2>4
  <1>5. IsFiniteSet(RowsOf(J, a, growing))
    BY <1>2, RowsAreFinite
  <1>6. QED BY <1>1, <1>4, <1>5

\* Aging, of an account of receivables or of payables.
LEMMA AgingTies ==
    ASSUME NEW s, BookOK(s), NEW p \in Periods, NEW a, NEW growing \in {"debit", "credit"}
    PROVE  Aging(s, p, a, growing).outstanding = SettledOldestFirst(s, p, a, growing)
  <1> DEFINE R == AgingRows(s, p, a, growing)
  <1>1. IsFiniteSet(R)
    BY AgingRowsFit
  <1>2. \A r \in R : /\ \E q \in 1..p : r.day = EndDay[q]
                     /\ r.ref \in Int /\ r.up \in Nat /\ r.down \in Nat
                     /\ r.up = 0 <=> r.down # 0
    BY AgingRowsFit
  <1> HIDE DEF R
  <1>3. \A r \in R : r.day \in Int
    <2>1. \A q \in 1..p : EndDay[q] \in Int
      BY EarlierPeriods, CalendarAssumption
    <2>2. QED BY <1>2, <2>1
  <1>4. Dated(R, p) /\ Orderable(R) /\ OneSided(R)
    BY <1>2, <1>3 DEF Dated, Orderable, OneSided
  <1>5. QED BY <1>1, <1>4, RowsAge DEF R

-----------------------------------------------------------------------------
(* Commands keep the books so *)

LEMMA EntriesFit ==
    ASSUME NEW e \in Entries
    PROVE  /\ LinesFit(e.lines)
           /\ e.ref \in Nat \ {0} /\ e.ref % 2 = 0
  <1>1. /\ e.ref \in Nat \ {0} /\ e.ref % 2 = 0
        /\ e.lines \subseteq Line /\ IsFiniteSet(e.lines) /\ \A x \in e.lines : Booked(x)
        /\ MapThenSumSet(LAMBDA x : x.debit - x.credit, e.lines) = 0
    BY EntriesAssumption
  <1>2. SumOver([x \in e.lines |-> x.debit - x.credit], e.lines) = 0
    BY <1>1, LinesAdd
  <1>3. LinesFit(e.lines)
    BY <1>1, <1>2 DEF LinesFit
  <1>4. QED BY <1>1, <1>3

\* What reverses a journal balances as the journal does.
LEMMA SwappedFits ==
    ASSUME NEW lines, LinesFit(lines)
    PROVE  LinesFit(Swapped(lines))
  <1> DEFINE f == [x \in lines |-> [x EXCEPT !.debit = x.credit, !.credit = x.debit]]
             S == {f[x] : x \in lines}
             w == [x \in lines |-> x.debit - x.credit]
             u == [x \in lines |-> x.credit - x.debit]
             v == [y \in S |-> y.debit - y.credit]
  <1>1. /\ lines \subseteq Line /\ IsFiniteSet(lines) /\ SumOver(w, lines) = 0
        /\ \A x \in lines : Booked(x)
    BY DEF LinesFit
  <1>2. S = Swapped(lines)
    BY DEF Swapped
  <1>3. \A x \in lines : /\ f[x] = [account |-> x.account, role |-> x.role,
                                    debit |-> x.credit, credit |-> x.debit]
                         /\ f[x] \in Line
    BY <1>1 DEF Line
  <1>4. \A x \in lines : /\ x.debit \in Int /\ x.credit \in Int
                         /\ f[x].account = x.account
                         /\ f[x].debit = x.credit /\ f[x].credit = x.debit
    <2> HIDE DEF f
    <2> SUFFICES ASSUME NEW x \in lines
                 PROVE  /\ x.debit \in Int /\ x.credit \in Int
                        /\ f[x].account = x.account
                        /\ f[x].debit = x.credit /\ f[x].credit = x.debit
      OBVIOUS
    <2>1. x \in Line
      BY <1>1
    <2>2. x.debit \in Int /\ x.credit \in Int
      BY <2>1 DEF Line
    <2>3. f[x] = [account |-> x.account, role |-> x.role, debit |-> x.credit, credit |-> x.debit]
      BY <1>3
    <2>4. /\ f[x].account = x.account
          /\ f[x].debit = x.credit /\ f[x].credit = x.debit
      BY <2>3
    <2>5. QED BY <2>2, <2>4
  <1>5. /\ \A x \in lines : w[x] \in Int /\ u[x] \in Int /\ u[x] = w[x] - (w[x] + w[x])
        /\ \A x \in lines : v[f[x]] = u[x]
        /\ \A x, y \in lines : f[x] = f[y] => x = y
    <2>1. \A x \in lines : w[x] \in Int /\ u[x] \in Int /\ u[x] = w[x] - (w[x] + w[x])
      <3> SUFFICES ASSUME NEW x \in lines
                   PROVE  w[x] \in Int /\ u[x] \in Int /\ u[x] = w[x] - (w[x] + w[x])
        OBVIOUS
      <3>1. w[x] = x.debit - x.credit /\ u[x] = x.credit - x.debit
        OBVIOUS
      <3>2. x.debit \in Int /\ x.credit \in Int
        BY <1>4
      <3> HIDE DEF f, w, u
      <3>3. QED BY <3>1, <3>2
    <2>2. \A x \in lines : v[f[x]] = u[x]
      <3> SUFFICES ASSUME NEW x \in lines
                   PROVE  v[f[x]] = u[x]
        OBVIOUS
      <3>1. f[x] \in S
        OBVIOUS
      <3> HIDE DEF S, f
      <3>2. v[f[x]] = f[x].debit - f[x].credit
        BY <3>1
      <3>3. QED BY <1>4, <3>2
    <2>3. \A x, y \in lines : f[x] = f[y] => x = y
      <3> HIDE DEF f
      <3> SUFFICES ASSUME NEW x \in lines, NEW y \in lines, f[x] = f[y]
                   PROVE  x = y
        OBVIOUS
      <3>1. x \in Line /\ y \in Line
        BY <1>1
      <3>2. /\ x.account = y.account /\ x.role = y.role
            /\ x.debit = y.debit /\ x.credit = y.credit
        <4>1. [account |-> x.account, role |-> x.role, debit |-> x.credit, credit |-> x.debit]
                = [account |-> y.account, role |-> y.role, debit |-> y.credit, credit |-> y.debit]
          BY <1>3
        <4>2. QED BY <4>1
      <3>3. QED BY <3>1, <3>2 DEF Line
    <2>4. QED BY <2>1, <2>2, <2>3
  <1>6. \A y \in S : Booked(y)
    <2> HIDE DEF f
    <2>1. SUFFICES ASSUME NEW x \in lines
                   PROVE  Booked(f[x])
      OBVIOUS
    <2>2. Booked(x) /\ x.debit \in Int /\ x.credit \in Int
      BY <1>1, <1>4
    <2>3. f[x] = [account |-> x.account, role |-> x.role, debit |-> x.credit, credit |-> x.debit]
      BY <1>3
    <2>4. /\ f[x].account = x.account /\ f[x].role = x.role
          /\ f[x].debit = x.credit /\ f[x].credit = x.debit
      BY <2>3
    <2>5. QED BY <2>2, <2>4 DEF Booked
  <1>7. S \subseteq Line
    <2> HIDE DEF f
    <2>1. QED BY <1>3
  <1> HIDE DEF f, w, u, v
  <1>8. IsFiniteSet(S) /\ SumOver(v, S) = SumOver(u, lines)
    <2>1. \A x \in lines : u[x] \in Int
      BY <1>5
    <2>2. \A x \in lines : v[f[x]] = u[x]
      BY <1>5
    <2>3. \A x, y \in lines : f[x] = f[y] => x = y
      BY <1>5
    <2>4. IsFiniteSet(lines)
      BY <1>1
    <2>5. IsFiniteSet({f[x] : x \in lines}) /\ SumOver(v, {f[x] : x \in lines}) = SumOver(u, lines)
      BY <2>1, <2>2, <2>3, <2>4, SumRenamed
    <2>6. QED BY <2>5
  <1> DEFINE z == [x \in lines |-> 0]
  <1>9. SumOver(u, lines) = 0
    <2>1. SumOver(z, lines) = 0 /\ \A x \in lines : z[x] = 0 /\ z[x] \in Int
      BY <1>1, SumOfZeroes
    <2> HIDE DEF z
    <2>2. \A x \in lines : u[x] = z[x] - w[x]
      <3>1. \A x \in lines : w[x] \in Int /\ u[x] = w[x] - (w[x] + w[x]) /\ z[x] = 0
        BY <1>5, <2>1
      <3>2. QED BY <3>1
    <2>3. SumOver(u, lines) = SumOver(z, lines) - SumOver(w, lines)
      BY <1>1, <1>5, <2>1, <2>2, SumMinus
    <2>4. QED BY <1>1, <2>1, <2>3
  <1> HIDE DEF S
  <1>10. SumOver(v, S) = 0
    BY <1>8, <1>9
  <1>11. SumOver([x \in S |-> x.debit - x.credit], S) = 0
    BY <1>10 DEF v
  <1>12. LinesFit(S)
    BY <1>6, <1>7, <1>8, <1>11 DEF LinesFit
  <1>13. QED BY <1>2, <1>12

\* A journal joins the others.
LEMMA JournalJoins ==
    ASSUME NEW J, JournalsFit(J), NEW j, JournalFits(j), \A k \in J : k.ref # j.ref
    PROVE  JournalsFit(J \cup {j})
  <1>1. IsFiniteSet(J \cup {j})
    BY FS_AddElement DEF JournalsFit
  <1>2. QED BY <1>1 DEF JournalsFit

\* Journals of a period that is open join the book.
LEMMA OpenPeriodBooks ==
    ASSUME NEW s, BookOK(s), NEW j, JournalFits(j), s.status[j.period] = "open",
           \A k \in s.journals : k.ref # j.ref, Referenced(s, j)
    PROVE  BookOK([s EXCEPT !.journals = @ \cup {j}])
  <1> DEFINE t == [s EXCEPT !.journals = @ \cup {j}]
  <1>1. /\ s = [journals |-> s.journals, status |-> s.status, snapshots |-> s.snapshots]
        /\ JournalsFit(s.journals)
        /\ \A k \in s.journals : Referenced(s, k)
        /\ s.status \in [Periods -> Statuses]
        /\ DOMAIN s.snapshots = Periods
        /\ \A p \in Periods : s.status[p] # "open" => Kept(s, p)
    BY DEF BookOK
  <1>2. /\ t = [journals |-> s.journals \cup {j}, status |-> s.status, snapshots |-> s.snapshots]
        /\ t.journals = s.journals \cup {j} /\ t.status = s.status /\ t.snapshots = s.snapshots
    BY <1>1
  <1> HIDE DEF t
  <1>3. JournalsFit(t.journals)
    BY <1>1, <1>2, JournalJoins
  <1>4. \A k \in t.journals : Referenced(t, k)
    BY <1>1, <1>2 DEF Referenced
  <1>5. ASSUME NEW p \in Periods, t.status[p] # "open"
        PROVE  Kept(t, p)
    <2>1. Kept(s, p) /\ s.status[p] # "open" /\ s.snapshots[p] = t.snapshots[p]
      BY <1>1, <1>2, <1>5
    <2>2. ASSUME 1..(p - 1) \subseteq s.snapshots[p].before
          PROVE  /\ \A q \in 1..(p - 1) : t.status[q] # "open"
                 /\ t.snapshots[p].totals = Live(t, p)
      <3>1. (\A q \in 1..(p - 1) : s.status[q] # "open") /\ s.snapshots[p].totals = Live(s, p)
        BY <2>1, <2>2 DEF Kept
      <3>2. j.period \in Int /\ j.period >= 1 /\ p \in Int /\ j.period # p
        BY <2>1, EarlierPeriods DEF JournalFits
      <3>3. ~(j.period <= p)
        BY <3>1, <3>2
      <3>4. Through(t, p) = Through(s, p)
        BY <1>2, <3>3 DEF Through
      <3>5. QED BY <1>2, <2>1, <3>1, <3>4 DEF Live
    <2>3. QED BY <1>2, <2>1, <2>2 DEF Kept
  <1>6. BookOK(t)
    BY <1>1, <1>2, <1>3, <1>4, <1>5 DEF BookOK
  <1>7. QED BY <1>6 DEF t

\* The line that moves an amount on an account.
LineOf(a, amount) == [account |-> a, role |-> RoleOf[a],
                      debit |-> Larger(amount, 0), credit |-> Larger(-amount, 0)]
LEMMA LineMoves ==
    ASSUME NEW a \in Accounts, NEW amount \in Int
    PROVE  /\ LineOf(a, amount) \in Line /\ LineOf(a, amount).account = a
           /\ LineOf(a, amount).debit - LineOf(a, amount).credit = amount
           /\ amount # 0 => Booked(LineOf(a, amount))
  <1>1. /\ Larger(amount, 0) \in Nat /\ Larger(-amount, 0) \in Nat
        /\ Larger(amount, 0) - Larger(-amount, 0) = amount
        /\ amount # 0 => (Larger(amount, 0) = 0 <=> Larger(-amount, 0) # 0)
    BY DEF Larger
  <1>2. QED BY <1>1 DEF LineOf, Line, Booked

\* The balances that the close of p takes off, and what they leave in retained
\* earnings.
Taken(s, p) == [a \in Accounts |-> -Net(Sides(Through(s, p), a))]
LEMMA ClosingTakesIncome ==
    ASSUME NEW s, BookOK(s), NEW p \in Periods
    PROVE  /\ ClosingLines(s, p) =
                 {LineOf(a, Taken(s, p)[a]) : a \in {b \in Income : Taken(s, p)[b] # 0}}
                   \cup {LineOf("310100", -x) : x \in {SumOver(Taken(s, p), Income)} \ {0}}
           /\ \A a \in Accounts : Taken(s, p)[a] \in Int
           /\ SumOver(Taken(s, p), Income) \in Int
  <1>1. Income \in SUBSET Accounts /\ IsFiniteSet(Income)
        /\ Income = {a \in Accounts : RoleOf[a] \in ClosingRoles}
    <2>1. IsFiniteSet(Income)
      BY AccountsAreClassed, CatalogAssumption, FS_Subset
    <2>2. QED BY <2>1, AccountsAreClassed
  <1>2. MapThenSumSet(LAMBDA a : -Net(Sides(Through(s, p), a)), Income) = SumOver(Taken(s, p), Income)
    BY <1>1, ParkedAdds DEF Taken
  <1>3. \A a \in Accounts : Taken(s, p)[a] = -Net(Sides(Through(s, p), a))
    BY DEF Taken
  <1>4. ClosingLines(s, p) =
          {LineOf(a, -Net(Sides(Through(s, p), a))) :
             a \in {b \in Income : -Net(Sides(Through(s, p), b)) # 0}}
            \cup {LineOf("310100", -x) : x \in
                     {MapThenSumSet(LAMBDA a : -Net(Sides(Through(s, p), a)), Income)} \ {0}}
    BY <1>1 DEF ClosingLines, LineOf
  <1>5. {LineOf(a, -Net(Sides(Through(s, p), a))) :
             a \in {b \in Income : -Net(Sides(Through(s, p), b)) # 0}}
          = {LineOf(a, Taken(s, p)[a]) : a \in {b \in Income : Taken(s, p)[b] # 0}}
    BY <1>1, <1>3
  <1>6. \A a \in Accounts : Taken(s, p)[a] \in Int
    BY <1>3, ThroughFits, SidesTyped
  <1>7. SumOver(Taken(s, p), Income) \in Int
    BY <1>1, <1>6, SumInt
  <1>8. QED BY <1>2, <1>4, <1>5, <1>6, <1>7

LEMMA ClosingLinesFit ==
    ASSUME NEW s, BookOK(s), NEW p \in Periods
    PROVE  /\ LinesFit(ClosingLines(s, p))
           /\ \A x \in ClosingLines(s, p) : x.account \in ClosingAccounts
           /\ \A x \in ClosingLines(s, p) :
                 x.account \in Income => x.debit - x.credit = Taken(s, p)[x.account]
           /\ \A a \in Income : Taken(s, p)[a] # 0 => \E x \in ClosingLines(s, p) : x.account = a
           /\ \A x, y \in ClosingLines(s, p) : x.account = y.account => x = y
  <1> DEFINE bal == Taken(s, p)
             parked == SumOver(bal, Income)
             B == {b \in Income : bal[b] # 0}
             f == [a \in B |-> LineOf(a, bal[a])]
             T == {f[a] : a \in B}
             R == {LineOf("310100", -x) : x \in {parked} \ {0}}
             w == [x \in T \cup R |-> x.debit - x.credit]
  <1>1. /\ ClosingLines(s, p) = T \cup R
        /\ \A a \in Accounts : bal[a] \in Int
        /\ parked \in Int
    BY ClosingTakesIncome
  <1>2. /\ B \subseteq Income /\ Income \in SUBSET Accounts /\ "310100" \in Accounts
        /\ "310100" \notin Income /\ \A a \in Income : a \notin B => bal[a] = 0
        /\ \A a \in B : bal[a] # 0
    BY AccountsAreClassed
  <1>3. IsFiniteSet(Income) /\ IsFiniteSet(B) /\ IsFiniteSet(Income \ B)
    <2>1. IsFiniteSet(Income)
      BY <1>2, CatalogAssumption, FS_Subset
    <2>2. QED BY <1>2, <2>1, FS_Subset
  <1>4. \A a \in B : f[a] = LineOf(a, bal[a])
    OBVIOUS
  <1> HIDE DEF bal, B, f
  <1>5. \A a \in B : /\ f[a] \in Line /\ f[a].account = a
                     /\ f[a].debit - f[a].credit = bal[a] /\ bal[a] \in Int
                     /\ Booked(f[a])
    BY <1>1, <1>2, <1>4, LineMoves
  <1>6. \/ parked = 0 /\ R = {}
        \/ parked # 0 /\ R = {LineOf("310100", -parked)}
    OBVIOUS
  <1> HIDE DEF R, parked
  <1>7. \A x \in R : /\ x \in Line /\ x.account = "310100"
                     /\ x.debit - x.credit = -parked /\ Booked(x)
    <2>1. -parked \in Int /\ (parked # 0 => -parked # 0)
      BY <1>1
    <2>2. QED BY <1>2, <1>6, <2>1, LineMoves
  <1>8. \A x \in T : x \in Line /\ x.account \in B /\ x = f[x.account] /\ Booked(x)
    BY <1>5
  <1>9. \A x, y \in T \cup R : x.account = y.account => x = y
    <2>1. \A x, y \in R : x = y
      BY <1>6
    <2>2. \A x \in T, y \in R : x.account # y.account
      BY <1>2, <1>7, <1>8
    <2>3. \A x, y \in T : x.account = y.account => x = y
      BY <1>8
    <2> HIDE DEF T
    <2>4. QED BY <2>1, <2>2, <2>3
  <1>10. \A x \in T \cup R : w[x] = x.debit - x.credit
    OBVIOUS
  <1>11. \A a \in B : w[f[a]] = bal[a]
    BY <1>5, <1>10
  <1> HIDE DEF w
  <1>12. IsFiniteSet(T) /\ SumOver(w, T) = SumOver(bal, B)
    <2>1. \A a \in B : bal[a] \in Int
      BY <1>5
    <2>2. \A a, b \in B : f[a] = f[b] => a = b
      BY <1>5
    <2>3. IsFiniteSet({f[a] : a \in B}) /\ SumOver(w, {f[a] : a \in B}) = SumOver(bal, B)
      BY <1>3, <1>11, <2>1, <2>2, SumRenamed
    <2>4. QED BY <2>3
  <1> HIDE DEF T
  <1>13. SumOver(bal, B) = parked
    <2> DEFINE Rest == Income \ B
    <2>1. IsFiniteSet(Rest) /\ \A a \in Rest : bal[a] = 0
      BY <1>2, <1>3
    <2>2. B \cap Rest = {} /\ B \cup Rest = Income /\ \A a \in B \cup Rest : bal[a] \in Int
      BY <1>1, <1>2
    <2> HIDE DEF Rest
    <2>3. SumOver(bal, Rest) = 0
      BY <2>1, SumOfZeroes
    <2>4. SumOver(bal, B \cup Rest) = SumOver(bal, B) + SumOver(bal, Rest)
      BY <1>3, <2>1, <2>2, SumUnion
    <2>5. SumOver(bal, B) \in Int
      BY <1>3, <1>5, SumInt
    <2> DEFINE m == SumOver(bal, B)
    <2>6. SumOver(bal, Income) = m + 0 /\ m \in Int
      BY <2>2, <2>3, <2>4, <2>5
    <2> HIDE DEF m
    <2>7. SumOver(bal, Income) = m
      BY <2>6
    <2>8. QED BY <2>7 DEF parked, m
  <1>14. IsFiniteSet(R) /\ SumOver(w, R) = -parked
    <2>1. CASE parked = 0 /\ R = {}
      <3>1. IsFiniteSet({}) /\ SumOver(w, {}) = 0
        BY FS_EmptySet, SumEmpty
      <3>2. -parked = 0
        <4>1. parked <= 0 /\ parked >= 0 /\ parked \in Int
          BY <2>1
        <4>2. QED BY <4>1
      <3>3. QED BY <2>1, <3>1, <3>2
    <2>2. CASE R = {LineOf("310100", -parked)}
      <3> DEFINE x == LineOf("310100", -parked)
      <3>1. x \in R /\ R = {x}
        BY <2>2
      <3> HIDE DEF x
      <3>2. w[x] = -parked /\ w[x] \in Int
        BY <1>1, <1>7, <1>10, <3>1
      <3>3. IsFiniteSet({x}) /\ SumOver(w, {x}) = w[x]
        BY <3>2, FS_Singleton, SumSingle
      <3>4. QED BY <3>1, <3>2, <3>3
    <2>3. QED BY <1>6, <2>1, <2>2
  <1>15. T \cap R = {}
    BY <1>2, <1>7, <1>8
  <1>16. \A x \in T \cup R : w[x] \in Int
    <2>1. \A x \in T : w[x] = bal[x.account] /\ bal[x.account] \in Int
      BY <1>5, <1>8, <1>11
    <2>2. \A x \in R : w[x] = -parked
      BY <1>7, <1>10
    <2>3. QED BY <1>1, <2>1, <2>2
  <1>17. IsFiniteSet(T \cup R) /\ SumOver(w, T \cup R) = 0
    <2>1. IsFiniteSet(T \cup R)
      BY <1>12, <1>14, FS_Union
    <2>2. SumOver(w, T \cup R) = SumOver(w, T) + SumOver(w, R)
      BY <1>12, <1>14, <1>15, <1>16, SumUnion
    <2>3. QED BY <1>1, <1>12, <1>13, <1>14, <2>1, <2>2
  <1>18. LinesFit(T \cup R)
    <2>1. SumOver([x \in T \cup R |-> x.debit - x.credit], T \cup R) = 0
      BY <1>17 DEF w
    <2>2. T \cup R \subseteq Line /\ \A x \in T \cup R : Booked(x)
      BY <1>7, <1>8
    <2>3. QED BY <1>17, <2>1, <2>2 DEF LinesFit
  <1>19. \A x \in T \cup R : x.account \in ClosingAccounts
    BY <1>2, <1>7, <1>8 DEF ClosingAccounts
  <1>20. \A x \in T \cup R : x.account \in Income => x.debit - x.credit = bal[x.account]
    <2>1. \A x \in T : x.debit - x.credit = bal[x.account]
      BY <1>5, <1>8
    <2>2. QED BY <1>2, <1>7, <2>1
  <1>21. \A a \in Income : bal[a] # 0 => \E x \in T \cup R : x.account = a
    <2> SUFFICES ASSUME NEW a \in Income, bal[a] # 0
                 PROVE  \E x \in T \cup R : x.account = a
      OBVIOUS
    <2>1. a \in B
      BY DEF B
    <2>2. f[a] \in T /\ f[a].account = a
      BY <1>5, <2>1 DEF T
    <2>3. QED BY <2>2
  <1>22. QED BY <1>1, <1>9, <1>18, <1>19, <1>20, <1>21 DEF bal

\* The journal that closes p, unless it would be empty, and the balances after it.
ClosingJournal(s, p) ==
    [ref |-> ClosingRef(p), period |-> p, key |-> "none", lines |-> ClosingLines(s, p),
     closing |-> TRUE, reverses |-> 0]
ClosingJournals(s, p) == IF ClosingLines(s, p) = {} THEN {} ELSE {ClosingJournal(s, p)}
LEMMA ClosingParks ==
    ASSUME NEW s, BookOK(s), NEW p \in Periods, s.status[p] = "open"
    PROVE  /\ JournalsFit(s.journals \cup ClosingJournals(s, p))
           /\ \A a \in Income : Net(Sides(Through(s, p) \cup ClosingJournals(s, p), a)) = 0
  <1> DEFINE j == ClosingJournal(s, p)
             K == ClosingJournals(s, p)
             J == Through(s, p)
  <1>1. /\ LinesFit(ClosingLines(s, p))
        /\ \A x \in ClosingLines(s, p) : x.account \in ClosingAccounts
        /\ \A x \in ClosingLines(s, p) :
              x.account \in Income => x.debit - x.credit = Taken(s, p)[x.account]
        /\ \A a \in Income : Taken(s, p)[a] # 0 => \E x \in ClosingLines(s, p) : x.account = a
        /\ \A x, y \in ClosingLines(s, p) : x.account = y.account => x = y
    BY ClosingLinesFit
  <1>2. /\ j.ref = ClosingRef(p) /\ j.period = p /\ j.lines = ClosingLines(s, p)
        /\ j.closing = TRUE /\ j.reverses = 0
    BY DEF ClosingJournal
  <1> HIDE DEF j
  <1>3. JournalFits(j)
    BY <1>1, <1>2 DEF JournalFits
  <1>4. \A k \in s.journals : k.ref # j.ref
    <2> SUFFICES ASSUME NEW k \in s.journals
                 PROVE  k.ref # j.ref
      OBVIOUS
    <2>1. p \in Int /\ p >= 1 /\ j.ref = -p
      BY <1>2, EarlierPeriods DEF ClosingRef
    <2>2. Referenced(s, k) /\ k.period \in Periods
      BY DEF BookOK, JournalsFit, JournalFits
    <2>3. CASE k.closing
      <3>1. k.ref = -k.period /\ s.status[k.period] # "open" /\ k.period \in Int
        BY <2>2, <2>3, EarlierPeriods DEF Referenced
      <3>2. k.period # p
        BY <3>1
      <3>3. QED BY <2>1, <3>1, <3>2
    <2>4. CASE ~k.closing
      <3>1. k.ref \in Int /\ k.ref > 0
        BY <2>2, <2>4 DEF Referenced
      <3>2. QED BY <2>1, <3>1
    <2>5. QED BY <2>3, <2>4
  <1>5. JournalsFit(s.journals) /\ JournalsFit(J)
    BY ThroughFits DEF BookOK
  <1>6. JournalsFit(s.journals \cup {j}) /\ JournalsFit(J \cup {j})
    <2>1. \A k \in J : k.ref # j.ref
      BY <1>4 DEF Through
    <2> HIDE DEF J
    <2>2. QED BY <1>3, <1>4, <1>5, <2>1, JournalJoins
  <1>7. (K = {} /\ ClosingLines(s, p) = {}) \/ K = {j}
    BY DEF ClosingJournals, j
  <1>8. JournalsFit(s.journals \cup K)
    <2>1. CASE K = {j}
      <3> HIDE DEF K
      <3>1. QED BY <1>6, <2>1
    <2>2. CASE K = {}
      <3>1. s.journals \cup K = s.journals
        BY <2>2
      <3>2. QED BY <1>5, <3>1
    <2>3. QED BY <1>7, <2>1, <2>2
  <1>9. ASSUME NEW a \in Income
        PROVE  Net(Sides(J \cup K, a)) = 0
    <2> DEFINE n == Net(Sides(J, a))
    <2>1. a \in Accounts
      BY AccountsAreClassed
    <2>2. Taken(s, p)[a] = -n /\ n \in Int
      <3>1. n \in Int
        <4> HIDE DEF J
        <4>1. QED BY <1>5, SidesTyped
      <3>2. QED BY <2>1, <3>1 DEF Taken
    <2>3. CASE K = {} /\ ClosingLines(s, p) = {}
      <3>1. Taken(s, p)[a] = 0
        BY <1>1, <2>3
      <3>2. J \cup K = J
        BY <2>3
      <3> HIDE DEF n, J, K
      <3>3. n = 0
        BY <2>2, <3>1
      <3>4. QED BY <3>2, <3>3 DEF n
    <2>4. CASE K = {j}
      <3>1. J \cap {j} = {}
        BY <1>4 DEF Through
      <3> HIDE DEF J, K
      <3>2. Net(Sides(J \cup {j}, a)) = n + Net(Sides({j}, a))
        <4>1. JournalsFit(J \cup {j})
          BY <1>6
        <4>2. QED BY <3>1, <4>1, SidesOfUnion
      <3>3. Net(Sides({j}, a)) = -n
        <4>1. CASE \E x \in j.lines : x.account = a
          <5>1. PICK x \in j.lines : x.account = a
            BY <4>1
          <5>2. x.debit - x.credit = Taken(s, p)[a]
            BY <1>1, <1>2, <5>1
          <5>3. Net(Sides({j}, a)) = x.debit - x.credit
            <6> DEFINE w == [y \in j.lines |-> y.debit - y.credit]
            <6>1. Net(Sides({j}, a)) = SumOver(w, LinesOf(j, a))
              BY <1>3, SidesOfOne
            <6>2. LinesOf(j, a) = {x}
              BY <1>1, <1>2, <5>1 DEF LinesOf
            <6>3. w[x] = x.debit - x.credit
              BY <5>1
            <6>4. x.debit \in Int /\ x.credit \in Int
              BY <1>3, <5>1 DEF JournalFits, LinesFit, Line
            <6> HIDE DEF w
            <6>5. w[x] \in Int
              BY <6>3, <6>4
            <6>6. SumOver(w, {x}) = w[x]
              BY <6>5, SumSingle
            <6>7. QED BY <6>1, <6>2, <6>3, <6>6
          <5> HIDE DEF n
          <5>4. QED BY <2>2, <5>2, <5>3
        <4>2. CASE \A x \in j.lines : x.account # a
          <5>1. Net(Sides({j}, a)) = 0
            <6>1. LinesOf(j, a) = {}
              BY <4>2 DEF LinesOf
            <6>2. QED BY <1>3, <6>1, SidesOfOne, SumEmpty
          <5>2. Taken(s, p)[a] = 0
            BY <1>1, <1>2, <4>2
          <5> HIDE DEF n
          <5>3. QED BY <2>2, <5>1, <5>2
        <4>3. QED BY <4>1, <4>2
      <3>4. Net(Sides(J \cup {j}, a)) = n + (-n)
        BY <3>2, <3>3
      <3> HIDE DEF n
      <3>5. n + (-n) = 0
        BY <2>2
      <3>6. QED BY <2>4, <3>4, <3>5
    <2>5. QED BY <1>7, <2>3, <2>4
  <1>10. QED BY <1>8, <1>9

\* The book after the hard close of p, before and with its snapshot.
Closed(s, p, code) == [s EXCEPT !.journals = @ \cup ClosingJournals(s, p), !.status[p] = code]
Snapped(s, p, code) ==
    [Closed(s, p, code) EXCEPT !.snapshots[p] =
        [totals |-> Live(Closed(s, p, code), p),
         before |-> {q \in Periods : s.status[q] # "open"}]]
LEMMA HardCloseBooks ==
    ASSUME NEW s, BookOK(s), NEW p \in Periods, s.status[p] = "open",
           NEW code \in {"book_closed", "hard_closed"}
    PROVE  BookOK(Snapped(s, p, code))
  <1> DEFINE t == Snapped(s, p, code)
             K == ClosingJournals(s, p)
             u == Closed(s, p, code)
  <1>1. /\ s = [journals |-> s.journals, status |-> s.status, snapshots |-> s.snapshots]
        /\ JournalsFit(s.journals)
        /\ \A k \in s.journals : Referenced(s, k)
        /\ s.status \in [Periods -> Statuses]
        /\ DOMAIN s.snapshots = Periods
        /\ \A q \in Periods : s.status[q] # "open" => Kept(s, q)
    BY DEF BookOK
  <1>2. /\ JournalsFit(s.journals \cup K)
        /\ \A a \in Income : Net(Sides(Through(s, p) \cup K, a)) = 0
    BY ClosingParks
  <1>3. \A k \in K : k.period = p /\ k.closing = TRUE /\ k.reverses = 0 /\ k.ref = -p
    BY DEF ClosingJournals, ClosingJournal, ClosingRef
  <1> HIDE DEF K
  <1>4. u = [journals |-> s.journals \cup K, status |-> [s.status EXCEPT ![p] = code],
             snapshots |-> s.snapshots]
    <2>1. u = [[s EXCEPT !.journals = @ \cup K] EXCEPT !.status[p] = code]
      BY DEF Closed, K
    <2>2. [s EXCEPT !.journals = @ \cup K] =
             [journals |-> s.journals \cup K, status |-> s.status, snapshots |-> s.snapshots]
      BY <1>1
    <2>3. QED BY <2>1, <2>2
  <1>5. /\ t = [journals |-> t.journals, status |-> t.status, snapshots |-> t.snapshots]
        /\ t.journals = s.journals \cup K
        /\ t.status = [s.status EXCEPT ![p] = code]
        /\ t.snapshots = [s.snapshots EXCEPT ![p] =
              [totals |-> Live(u, p), before |-> {q \in Periods : s.status[q] # "open"}]]
    <2> HIDE DEF u
    <2>1. t = [u EXCEPT !.snapshots[p] =
                 [totals |-> Live(u, p), before |-> {q \in Periods : s.status[q] # "open"}]]
      BY DEF Snapped, u
    <2>2. t = [journals |-> s.journals \cup K, status |-> [s.status EXCEPT ![p] = code],
               snapshots |-> [s.snapshots EXCEPT ![p] =
                  [totals |-> Live(u, p), before |-> {q \in Periods : s.status[q] # "open"}]]]
      BY <1>4, <2>1
    <2> HIDE DEF t
    <2>3. QED BY <2>2
  <1>6. u.journals = t.journals
    BY <1>4, <1>5
  <1> HIDE DEF t, u
  <1>7. /\ \A q \in Periods : t.status[q] = IF q = p THEN code ELSE s.status[q]
        /\ t.status \in [Periods -> Statuses] /\ DOMAIN t.snapshots = Periods
        /\ \A q \in Periods : q # p => t.snapshots[q] = s.snapshots[q]
        /\ t.snapshots[p].totals = Live(u, p)
        /\ t.snapshots[p].before = {q \in Periods : s.status[q] # "open"}
    BY <1>1, <1>5 DEF Statuses
  <1>8. \A k \in t.journals : Referenced(t, k)
    <2> SUFFICES ASSUME NEW k \in t.journals
                 PROVE  Referenced(t, k)
      OBVIOUS
    <2>1. CASE k \in K
      BY <1>3, <1>7, <2>1 DEF Referenced
    <2>2. CASE k \in s.journals
      <3>1. Referenced(s, k) /\ k.period \in Periods
        BY <1>1, <2>2 DEF JournalsFit, JournalFits
      <3>2. s.status[k.period] # "open" => t.status[k.period] # "open"
        BY <1>7, <3>1
      <3>3. QED BY <3>1, <3>2 DEF Referenced
    <2>3. QED BY <1>5, <2>1, <2>2
  <1>9. Live(u, p) = Live(t, p)
    BY <1>6 DEF Live, Through
  <1>10. Kept(t, p)
    <2>1. Through(t, p) = Through(s, p) \cup K
      <3>1. p <= p
        BY EarlierPeriods
      <3>2. QED BY <1>3, <1>5, <3>1 DEF Through
    <2>2. \A a \in Income : a \in Accounts
      BY AccountsAreClassed
    <2>3. \A a \in Income : Net(Live(t, p)[a]) = 0
      BY <1>2, <2>1, <2>2 DEF Live, Totals
    <2>4. ASSUME 1..(p - 1) \subseteq t.snapshots[p].before
          PROVE  \A q \in 1..(p - 1) : t.status[q] # "open"
      <3>1. \A q \in 1..(p - 1) : q \in Periods /\ s.status[q] # "open"
        BY <1>7, <2>4
      <3>2. \A q \in 1..(p - 1) : t.status[q] # "open"
        BY <1>7, <3>1
      <3>3. QED BY <3>2
    <2>5. QED BY <1>7, <1>9, <2>3, <2>4 DEF Kept
  <1>11. ASSUME NEW q \in Periods, q # p, t.status[q] # "open"
         PROVE  Kept(t, q)
    <2>1. Kept(s, q) /\ s.status[q] # "open" /\ s.snapshots[q] = t.snapshots[q]
      BY <1>1, <1>7, <1>11
    <2>2. ASSUME 1..(q - 1) \subseteq s.snapshots[q].before
          PROVE  /\ \A r \in 1..(q - 1) : t.status[r] # "open"
                 /\ t.snapshots[q].totals = Live(t, q)
      <3>1. (\A r \in 1..(q - 1) : s.status[r] # "open") /\ s.snapshots[q].totals = Live(s, q)
        BY <2>1, <2>2 DEF Kept
      <3>2. p \in Int /\ p >= 1 /\ q \in Int /\ \A r \in 1..q : r \in Periods
        BY EarlierPeriods
      <3>3. ~(p <= q)
        BY <1>11, <3>1, <3>2
      <3>4. Through(t, q) = Through(s, q)
        BY <1>3, <1>5, <3>3 DEF Through
      <3>5. \A r \in 1..(q - 1) : t.status[r] # "open"
        <4>1. \A r \in 1..(q - 1) : r \in Periods
          BY <3>2
        <4>2. QED BY <1>7, <3>1, <4>1
      <3>6. QED BY <2>1, <3>1, <3>4, <3>5 DEF Live
    <2>3. QED BY <2>1, <2>2 DEF Kept
  <1>12. JournalsFit(t.journals)
    BY <1>2, <1>5
  <1>13. \A q \in Periods : t.status[q] # "open" => Kept(t, q)
    BY <1>10, <1>11
  <1>14. BookOK(t)
    BY <1>5, <1>7, <1>8, <1>12, <1>13 DEF BookOK
  <1>15. QED BY <1>14 DEF t

\* The calendar's status follows the last book's close.
LEMMA OthersCloseBooks ==
    ASSUME NEW s, BookOK(s), NEW p \in Periods, s.status[p] = "book_closed"
    PROVE  BookOK([s EXCEPT !.status[p] = "hard_closed"])
  <1> DEFINE t == [s EXCEPT !.status[p] = "hard_closed"]
  <1>1. /\ s = [journals |-> s.journals, status |-> s.status, snapshots |-> s.snapshots]
        /\ JournalsFit(s.journals)
        /\ \A k \in s.journals : Referenced(s, k)
        /\ s.status \in [Periods -> Statuses]
        /\ DOMAIN s.snapshots = Periods
        /\ \A q \in Periods : s.status[q] # "open" => Kept(s, q)
    BY DEF BookOK
  <1>2. t = [journals |-> s.journals, status |-> [s.status EXCEPT ![p] = "hard_closed"],
             snapshots |-> s.snapshots]
    BY <1>1
  <1> HIDE DEF t
  <1>3. t.journals = s.journals /\ t.snapshots = s.snapshots
    BY <1>2
  <1>4. /\ t.status \in [Periods -> Statuses]
        /\ \A q \in Periods : t.status[q] = "open" <=> s.status[q] = "open"
    BY <1>1, <1>2 DEF Statuses
  <1>5. \A k \in t.journals : Referenced(t, k)
    BY <1>1, <1>3, <1>4 DEF Referenced, JournalsFit, JournalFits
  <1>6. \A q \in Periods : t.status[q] # "open" => Kept(t, q)
    <2> SUFFICES ASSUME NEW q \in Periods, t.status[q] # "open"
                 PROVE  Kept(t, q)
      OBVIOUS
    <2>1. Kept(s, q)
      BY <1>1, <1>4
    <2>2. \A r \in 1..(q - 1) : r \in Periods
      BY EarlierPeriods
    <2>3. Live(t, q) = Live(s, q)
      BY <1>3 DEF Live, Through
    <2>4. QED BY <1>3, <1>4, <2>1, <2>2, <2>3 DEF Kept
  <1>7. BookOK(t)
    BY <1>1, <1>2, <1>3, <1>4, <1>5, <1>6 DEF BookOK
  <1>8. QED BY <1>7 DEF t

-----------------------------------------------------------------------------
(* The invariant *)

\* A package reads a book, and was assembled from that book alone.
PackageOK(r) ==
    r.kind \in {"package", "packaged"} =>
        /\ BookOK(r.view) /\ r.period \in Periods /\ r.scope \in Scopes
        /\ r.kind = "packaged" => r.documents = Documents(r.view, r.period, r.scope)
\* A row that is not committed yet is the only one of its key.
Alone(f) == filings[f].kind = "inserted" =>
    /\ Filed(filings[f].key) = {}
    /\ \A g \in Filers : filings[g].kind = "inserted" /\ filings[g].key = filings[f].key => g = f
FilingsOK == DOMAIN filings = Filers /\ \A f \in Filers : Alone(f)
Inv == BookOK(book) /\ PackageOK(request) /\ FilingsOK /\ FilingAnswersItsReceipt

LEMMA InvInitially == Init => Inv
  <1> SUFFICES ASSUME Init
               PROVE  Inv
    OBVIOUS
  <1>1. /\ book = [journals |-> {}, status |-> [p \in Periods |-> "open"],
                   snapshots |-> [p \in Periods |-> NoSnapshot]]
        /\ request.kind = "idle" /\ receipts = {}
        /\ DOMAIN filings = Filers /\ \A f \in Filers : filings[f].kind = "idle"
    BY DEF Init, Idle
  <1>2. /\ book.journals = {} /\ book.status = [p \in Periods |-> "open"]
        /\ book.snapshots = [p \in Periods |-> NoSnapshot]
    BY <1>1
  <1>3. JournalsFit({})
    BY SidesOfNone
  <1>4. BookOK(book)
    <2>1. book.status \in [Periods -> Statuses] /\ DOMAIN book.snapshots = Periods
      BY <1>2 DEF Statuses
    <2>2. \A p \in Periods : book.status[p] = "open"
      BY <1>2
    <2>3. QED BY <1>1, <1>2, <1>3, <2>1, <2>2 DEF BookOK
  <1>5. QED BY <1>1, <1>4 DEF Inv, PackageOK, FilingsOK, Alone, FilingAnswersItsReceipt

\* A command that keeps the book keeps everything.
LEMMA CommitKeeps ==
    ASSUME Inv, NEW new, BookOK(new), Commit(new)
    PROVE  Inv'
  <1>1. book' = new /\ request' = request /\ filings' = filings /\ receipts' = receipts
    BY DEF Commit
  <1>2. BookOK(book')
    BY <1>1
  <1>3. QED BY <1>1, <1>2 DEF Inv, PackageOK, FilingsOK, Alone, FilingAnswersItsReceipt, Filed

LEMMA PostKeeps ==
    ASSUME Inv, NEW e \in Entries, NEW p \in Periods, PostJournal(e, p)
    PROVE  Inv'
  <1> DEFINE j == [ref |-> e.ref, period |-> p, key |-> e.key, lines |-> e.lines,
                   closing |-> FALSE, reverses |-> 0]
  <1>1. /\ book.status[p] = "open" /\ \A k \in book.journals : k.ref # e.ref
        /\ Commit([book EXCEPT !.journals = @ \cup {j}])
    BY DEF PostJournal, Write
  <1>2. JournalFits(j) /\ Referenced(book, j) /\ j.period = p /\ j.ref = e.ref
    BY EntriesFit DEF JournalFits, Referenced
  <1> HIDE DEF j
  <1>3. BookOK([book EXCEPT !.journals = @ \cup {j}])
    BY <1>1, <1>2, OpenPeriodBooks DEF Inv
  <1>4. QED BY <1>1, <1>3, CommitKeeps

LEMMA ReverseKeeps ==
    ASSUME Inv, NEW j \in book.journals, NEW p \in Periods, NEW key,
           ReverseJournal(j, p, key)
    PROVE  Inv'
  <1> DEFINE r == [ref |-> ReversalOf(j.ref), period |-> p, key |-> key,
                   lines |-> Swapped(j.lines), closing |-> FALSE, reverses |-> j.ref]
  <1>1. /\ book.status[p] = "open" /\ ~j.closing /\ j.reverses = 0
        /\ \A k \in book.journals : k.reverses # j.ref
        /\ Commit([book EXCEPT !.journals = @ \cup {r}])
    BY DEF ReverseJournal, Write
  <1>2. /\ BookOK(book) /\ JournalFits(j)
        /\ \A k \in book.journals : Referenced(book, k) /\ k.period \in Periods
    BY DEF Inv, BookOK, JournalsFit, JournalFits
  <1>3. j.ref \in Nat \ {0} /\ j.ref % 2 = 0
    BY <1>1, <1>2 DEF Referenced
  <1>4. JournalFits(r)
    <2>1. LinesFit(Swapped(j.lines))
      BY <1>1, <1>2, SwappedFits DEF JournalFits
    <2>2. QED BY <2>1 DEF JournalFits
  <1>5. r.ref = j.ref + 1 /\ r.reverses = j.ref /\ r.closing = FALSE /\ r.period = p
    BY DEF ReversalOf
  <1> HIDE DEF r
  <1>6. Referenced(book, r)
    BY <1>3, <1>5 DEF Referenced
  <1>7. ASSUME NEW k \in book.journals
        PROVE  k.ref # r.ref
    <2>1. CASE k.closing
      <3>1. k.ref = -k.period /\ k.period \in Int /\ k.period >= 1
        BY <1>2, <2>1, EarlierPeriods DEF Referenced
      <3>2. QED BY <1>3, <1>5, <3>1
    <2>2. CASE ~k.closing /\ k.reverses = 0
      <3>1. k.ref \in Nat /\ k.ref % 2 = 0
        BY <1>2, <2>2 DEF Referenced
      <3>2. \A n, m \in Nat : n % 2 = 0 /\ m % 2 = 0 => n # m + 1
        OBVIOUS
      <3>3. QED BY <1>3, <1>5, <3>1, <3>2
    <2>3. CASE ~k.closing /\ k.reverses # 0
      <3>1. k.ref = k.reverses + 1 /\ k.reverses \in Nat /\ k.reverses # j.ref
        BY <1>1, <1>2, <2>3 DEF Referenced
      <3>2. QED BY <1>3, <1>5, <3>1
    <2>4. QED BY <2>1, <2>2, <2>3
  <1>8. BookOK([book EXCEPT !.journals = @ \cup {r}])
    BY <1>1, <1>2, <1>4, <1>5, <1>6, <1>7, OpenPeriodBooks
  <1>9. QED BY <1>1, <1>8, CommitKeeps

LEMMA CloseKeeps ==
    ASSUME Inv, NEW p \in Periods, NEW last \in BOOLEAN, HardClose(p, last)
    PROVE  Inv'
  <1> DEFINE code == IF last THEN "hard_closed" ELSE "book_closed"
             lines == ClosingLines(book, p)
             closing == {[ref |-> ClosingRef(p), period |-> p, key |-> "none", lines |-> x,
                          closing |-> TRUE, reverses |-> 0] : x \in {lines} \ {{}}}
             closed == [book EXCEPT !.journals = @ \cup closing, !.status[p] = code]
             new == [closed EXCEPT !.snapshots[p] =
                        [totals |-> Live(closed, p),
                         before |-> {q \in Periods : book.status[q] # "open"}]]
  <1>1. book.status[p] = "open" /\ Commit(new)
    BY DEF HardClose
  <1>2. code \in {"book_closed", "hard_closed"}
    OBVIOUS
  <1>3. closing = ClosingJournals(book, p)
    <2>1. CASE lines = {}
      BY <2>1 DEF ClosingJournals
    <2>2. CASE lines # {}
      BY <2>2 DEF ClosingJournals, ClosingJournal
    <2>3. QED BY <2>1, <2>2
  <1> HIDE DEF code, closing
  <1>4. closed = Closed(book, p, code)
    BY <1>3 DEF Closed
  <1> HIDE DEF closed
  <1>5. new = Snapped(book, p, code)
    BY <1>4 DEF Snapped
  <1> HIDE DEF new
  <1>6. BookOK(Snapped(book, p, code))
    BY <1>1, <1>2, HardCloseBooks DEF Inv
  <1>7. QED BY <1>1, <1>5, <1>6, CommitKeeps

LEMMA OthersCloseKeeps ==
    ASSUME Inv, NEW p \in Periods, OthersClose(p)
    PROVE  Inv'
  <1>1. book.status[p] = "book_closed" /\ Commit([book EXCEPT !.status[p] = "hard_closed"])
    BY DEF OthersClose
  <1>2. BookOK([book EXCEPT !.status[p] = "hard_closed"])
    BY <1>1, OthersCloseBooks DEF Inv
  <1>3. QED BY <1>1, <1>2, CommitKeeps

LEMMA PackagesKeep ==
    ASSUME Inv
    PROVE  /\ \A p \in ReportedPeriods, scope \in Scopes : BeginPackage(p, scope) => Inv'
           /\ EndPackage => Inv'
           /\ Respond => Inv'
  <1>1. ASSUME NEW p \in ReportedPeriods, NEW scope \in Scopes, BeginPackage(p, scope)
        PROVE  Inv'
    <2>1. /\ request' = [kind |-> "package", period |-> p, scope |-> scope, view |-> book]
          /\ book' = book /\ filings' = filings /\ receipts' = receipts
      BY <1>1 DEF BeginPackage
    <2>2. request'.kind = "package" /\ request'.period = p /\ request'.scope = scope /\ request'.view = book
      BY <2>1
    <2>3. p \in Periods
      BY ReportedAssumption
    <2>4. PackageOK(request')
      BY <2>2, <2>3 DEF PackageOK, Inv
    <2>5. QED BY <2>1, <2>2, <2>4 DEF Inv, FilingsOK, Alone, FilingAnswersItsReceipt, Filed
  <1>2. ASSUME EndPackage
        PROVE  Inv'
    <2>1. /\ request.kind = "package" /\ book' = book /\ filings' = filings /\ receipts' = receipts
          /\ request' = [kind |-> "packaged", period |-> request.period,
                         scope |-> request.scope, view |-> request.view,
                         documents |-> Assembled(request)]
      BY <1>2 DEF EndPackage
    <2>2. /\ request'.kind = "packaged" /\ request'.period = request.period
          /\ request'.scope = request.scope /\ request'.view = request.view
          /\ request'.documents = Documents(request.view, request.period, request.scope)
      BY <2>1 DEF Assembled
    <2>3. PackageOK(request)
      BY DEF Inv
    <2>4. PackageOK(request')
      BY <2>1, <2>2, <2>3 DEF PackageOK
    <2>5. QED BY <2>1, <2>2, <2>4 DEF Inv, FilingsOK, Alone, FilingAnswersItsReceipt, Filed
  <1>3. ASSUME Respond
        PROVE  Inv'
    <2>1. request'.kind = "idle" /\ book' = book /\ filings' = filings /\ receipts' = receipts
      BY <1>3 DEF Respond, Idle
    <2>2. QED BY <2>1 DEF Inv, PackageOK, FilingsOK, Alone, FilingAnswersItsReceipt, Filed
  <1>4. QED BY <1>1, <1>2, <1>3

\* A session that moves on with its filing, and neither inserts nor commits a row.
LEMMA OtherFilingsKeep ==
    ASSUME Inv, NEW f \in Filers, NEW r, Sets(f, r), UNCHANGED <<book, request, receipts>>,
           r.kind # "inserted",
           r.kind = "filed" =>
               \E old \in Filed(r.key) : /\ old.register = r.register
                                         /\ old.period = r.period /\ old.reason = r.reason
    PROVE  Inv'
  <1>1. /\ DOMAIN filings' = Filers /\ filings'[f] = r
        /\ \A g \in Filers \ {f} : filings'[g] = filings[g]
    BY DEF Sets, Inv, FilingsOK
  <1>2. FilingsOK'
    BY <1>1 DEF Inv, FilingsOK, Alone, Filed
  <1>3. FilingAnswersItsReceipt'
    BY <1>1 DEF Inv, FilingAnswersItsReceipt, Filed
  <1>4. QED BY <1>2, <1>3 DEF Inv, PackageOK

\* A session inserts its row: the key has no receipt, and no other session holds it.
LEMMA InsertKeeps ==
    ASSUME Inv, NEW f \in Filers, InsertFiling(f)
    PROVE  Inv'
  <1> DEFINE r == [filings[f] EXCEPT !.kind = "inserted"]
  <1>1. /\ filings[f].kind = "filing" /\ ~KeyHeld(f) /\ Filed(filings[f].key) = {}
        /\ Sets(f, r) /\ UNCHANGED <<book, request, receipts>>
    BY DEF InsertFiling, Persists
  <1>2. r.kind = "inserted" /\ r.key = filings[f].key
    BY <1>1
  <1> HIDE DEF r
  <1>3. /\ DOMAIN filings' = Filers /\ filings'[f] = r
        /\ \A g \in Filers \ {f} : filings'[g] = filings[g]
    BY <1>1 DEF Sets, Inv, FilingsOK
  <1>4. FilingsOK'
    BY <1>1, <1>2, <1>3 DEF Inv, FilingsOK, Alone, Filed, KeyHeld
  <1>5. FilingAnswersItsReceipt'
    BY <1>1, <1>2, <1>3 DEF Inv, FilingAnswersItsReceipt, Filed
  <1>6. QED BY <1>1, <1>4, <1>5 DEF Inv, PackageOK

\* A row that is committed is the receipt of its key.
LEMMA CommitFilingKeeps ==
    ASSUME Inv, NEW f \in Filers, CommitFiling(f)
    PROVE  Inv'
  <1> DEFINE new == Receipt(filings[f])
             r == Answer(filings[f], filings[f].reason)
  <1>1. /\ filings[f].kind = "inserted" /\ receipts' = receipts \cup {new}
        /\ Sets(f, r) /\ UNCHANGED <<book, request>>
    BY DEF CommitFiling
  <1>2. /\ r.kind = "filed" /\ r.key = new.key /\ r.register = new.register
        /\ r.period = new.period /\ r.reason = new.reason /\ new.key = filings[f].key
    BY DEF Receipt, Answer
  <1> HIDE DEF new, r
  <1>3. /\ DOMAIN filings' = Filers /\ filings'[f] = r
        /\ \A g \in Filers \ {f} : filings'[g] = filings[g]
    BY <1>1 DEF Sets, Inv, FilingsOK
  <1>4. /\ \A x \in receipts : x.key # new.key
        /\ \A g \in Filers \ {f} : filings[g].kind = "inserted" => filings[g].key # new.key
    BY <1>1, <1>2 DEF Inv, FilingsOK, Alone, Filed
  <1>5. FilingsOK'
    <2> SUFFICES ASSUME NEW g \in Filers, filings'[g].kind = "inserted"
                 PROVE  /\ {x \in receipts' : x.key = filings'[g].key} = {}
                        /\ \A h \in Filers : filings'[h].kind = "inserted"
                              /\ filings'[h].key = filings'[g].key => h = g
      BY <1>3 DEF FilingsOK, Alone, Filed
    <2>1. g # f /\ filings'[g] = filings[g]
      BY <1>2, <1>3
    <2>2. /\ \A x \in receipts : x.key # filings[g].key
          /\ \A h \in Filers : filings[h].kind = "inserted" /\ filings[h].key = filings[g].key => h = g
      BY <2>1 DEF Inv, FilingsOK, Alone, Filed
    <2>3. \A x \in receipts' : x.key # filings'[g].key
      BY <1>1, <1>4, <2>1, <2>2
    <2>4. QED BY <1>2, <1>3, <2>1, <2>2, <2>3
  <1>6. FilingAnswersItsReceipt'
    <2>1. \A x, y \in receipts' : x.key = y.key => x = y
      BY <1>1, <1>4 DEF Inv, FilingAnswersItsReceipt
    <2>2. new \in receipts' /\ receipts \subseteq receipts'
      BY <1>1
    <2> SUFFICES ASSUME NEW g \in Filers, filings'[g].kind = "filed"
                 PROVE  \E x \in receipts' : /\ x.key = filings'[g].key
                                             /\ x.register = filings'[g].register
                                             /\ x.period = filings'[g].period
                                             /\ x.reason = filings'[g].reason
      BY <2>1 DEF FilingAnswersItsReceipt, Filed
    <2>3. CASE g = f
      BY <1>2, <1>3, <2>2, <2>3
    <2>4. CASE g # f
      BY <1>3, <2>2, <2>4 DEF Inv, FilingAnswersItsReceipt, Filed
    <2>5. QED BY <2>3, <2>4
  <1>7. QED BY <1>1, <1>5, <1>6 DEF Inv, PackageOK

LEMMA FilingsKeep ==
    ASSUME Inv, NEW f \in Filers
    PROVE  /\ \A k \in FilingKeys, h \in Evidence, p \in ReportedPeriods :
                 BeginFiling(f, k, h, p) => Inv'
           /\ InsertFiling(f) => Inv'
           /\ CommitFiling(f) => Inv'
           /\ ReplayFiling(f) => Inv'
           /\ RefuseFiling(f) \/ EndFiling(f) => Inv'
  <1>1. ASSUME NEW k \in FilingKeys, NEW h \in Evidence, NEW p \in ReportedPeriods,
               BeginFiling(f, k, h, p)
        PROVE  Inv'
    <2>1. PICK reason : Sets(f, [kind |-> "filing", key |-> k, hash |-> h, period |-> p,
                                 view |-> book, register |-> VatRegister(book, p),
                                 reason |-> reason])
      BY <1>1 DEF BeginFiling
    <2> DEFINE r == [kind |-> "filing", key |-> k, hash |-> h, period |-> p, view |-> book,
                     register |-> VatRegister(book, p), reason |-> reason]
    <2>2. Sets(f, r) /\ r.kind = "filing" /\ UNCHANGED <<book, request, receipts>>
      BY <1>1, <2>1 DEF BeginFiling
    <2> HIDE DEF r
    <2>3. QED BY <2>2, OtherFilingsKeep
  <1>2. ASSUME ReplayFiling(f)
        PROVE  Inv'
    <2>1. PICK old \in Filed(filings[f].key) :
              SameFiling(old, filings[f]) /\ Sets(f, Answer(filings[f], old.reason))
      BY <1>2 DEF ReplayFiling
    <2> DEFINE r == Answer(filings[f], old.reason)
    <2>2. /\ Sets(f, r) /\ UNCHANGED <<book, request, receipts>>
          /\ r.kind = "filed" /\ r.key = filings[f].key
          /\ r.register = old.register /\ r.period = old.period /\ r.reason = old.reason
      BY <1>2, <2>1 DEF ReplayFiling, Answer, SameFiling
    <2> HIDE DEF r
    <2>3. QED BY <2>1, <2>2, OtherFilingsKeep
  <1>3. ASSUME RefuseFiling(f) \/ EndFiling(f)
        PROVE  Inv'
    <2>1. Sets(f, Idle) /\ Idle.kind = "idle" /\ UNCHANGED <<book, request, receipts>>
      BY <1>3 DEF RefuseFiling, EndFiling, Idle
    <2>2. QED BY <2>1, OtherFilingsKeep
  <1>4. QED BY <1>1, <1>2, <1>3, InsertKeeps, CommitFilingKeeps

LEMMA InvNext == Inv /\ [Next]_vars => Inv'
  <1> SUFFICES ASSUME Inv, [Next]_vars
               PROVE  Inv'
    OBVIOUS
  <1>1. CASE \E e \in Entries, p \in Periods : PostJournal(e, p)
    BY <1>1, PostKeeps
  <1>2. CASE \E j \in book.journals, p \in Periods, key \in ReversalKeys :
                ReverseJournal(j, p, key)
    BY <1>2, ReverseKeeps
  <1>3. CASE \E p \in Periods, last \in BOOLEAN : HardClose(p, last)
    BY <1>3, CloseKeeps
  <1>4. CASE \E p \in Periods : OthersClose(p)
    BY <1>4, OthersCloseKeeps
  <1>5. CASE \/ \E p \in ReportedPeriods, scope \in Scopes : BeginPackage(p, scope)
             \/ EndPackage \/ Respond
    BY <1>5, PackagesKeep
  <1>6. CASE \/ \E f \in Filers, k \in FilingKeys, h \in Evidence, p \in ReportedPeriods :
                   BeginFiling(f, k, h, p)
             \/ \E f \in Filers : \/ InsertFiling(f) \/ CommitFiling(f) \/ ReplayFiling(f)
                                  \/ RefuseFiling(f) \/ EndFiling(f)
    BY <1>6, FilingsKeep
  <1>7. CASE UNCHANGED vars
    BY <1>7 DEF vars, Inv, PackageOK, FilingsOK, Alone, FilingAnswersItsReceipt, Filed
  <1>8. QED BY <1>1, <1>2, <1>3, <1>4, <1>5, <1>6, <1>7 DEF Next

LEMMA InvAlways == Spec => []Inv
  BY InvInitially, InvNext, PTL DEF Spec

-----------------------------------------------------------------------------
(* The properties *)

\* The statements of a package tie out, whatever was posted, reversed and closed
\* before it was read, and whatever commits while it is assembled
\* (_assemble_financial_statement_package).
THEOREM PackageTiesOutHolds == Spec => []PackageTiesOut
  <1>1. Inv => PackageTiesOut
    BY DocumentsTie DEF Inv, PackageOK, PackageTiesOut
  <1>2. QED BY <1>1, InvAlways, PTL

\* Opening and period sides add up to the balance of every account
\* (load_account_rollforward), as long as no hard close skipped an earlier period.
THEOREM RollforwardTiesOutInOrderHolds == Spec => []RollforwardTiesOutInOrder
  <1>1. Inv => RollforwardTiesOutInOrder
    BY RollforwardsTie DEF Inv, RollforwardTiesOutInOrder
  <1>2. QED BY <1>1, InvAlways, PTL

\* A hard close in order moves income to retained earnings and changes no other
\* balance (persist_hard_close, _insert_closing_journal).
THEOREM CloseParksIncomeOnlyHolds == Spec => []CloseParksIncomeOnly
  <1>1. Inv => CloseParksIncomeOnly
    BY ClosesPark DEF Inv, CloseParksIncomeOnly
  <1>2. QED BY <1>1, InvAlways, PTL

\* The working papers of leftover cash and VAT count every journal on their account
\* once, whatever keys callers chose: they are off it by at most what the documents
\* that disagree with their key book there
\* (load_unapplied_cash_rollforward, load_vat_period_register).
THEOREM WorkingPapersTieOutHolds == Spec => []WorkingPapersTieOut
  <1>1. Inv => WorkingPapersTieOut
    BY PapersTie DEF Inv, WorkingPapersTieOut
  <1>2. QED BY <1>1, InvAlways, PTL

\* Open items are settled oldest first, and what exceeds them settles nothing
\* later: what is left of them is what the newest increases come to
\* (_fifo_aging_open_items).
THEOREM AgingIsOldestFirstHolds == Spec => []AgingIsOldestFirst
  <1>1. Inv => AgingIsOldestFirst
    BY AgingTies DEF Inv, AgingIsOldestFirst
  <1>2. QED BY <1>1, InvAlways, PTL

\* A key has one receipt and every filing under it is answered what that receipt
\* says, for any number of filings that overlap (persist_home_tax_submission).
THEOREM FilingAnswersItsReceiptHolds == Spec => []FilingAnswersItsReceipt
  <1>1. Inv => FilingAnswersItsReceipt
    BY DEF Inv
  <1>2. QED BY <1>1, InvAlways, PTL
=============================================================================
