----------------------- MODULE Reconciliation_proofs -----------------------
(***************************************************************************)
(* What bank-to-book reconciliation proposes, plans and reviews, for any   *)
(* statements, journals, populations and bridges.                          *)
(***************************************************************************)
EXTENDS Reconciliation, Sums_proofs

-----------------------------------------------------------------------------
(* propose_deterministic_match *)

Named(e, i, candidates) == {j \in candidates : j[i] = e[i]}
Agrees(e, j) == j.currency = e.currency /\ j.amount = e.amount /\ j.side = e.side
NearMoney(e, candidates) == {j \in candidates : Agrees(e, j) /\ Near(e, j)}

\* Of finitely many candidates, one is proposed when it is the only one.
LEMMA OneOfMany ==
    ASSUME NEW S, IsFiniteSet(S), S # {}
    PROVE  /\ Cardinality(S) \in Nat
           /\ Cardinality(S) > 1 <=> ~\E j : S = {j}
           /\ Cardinality(S) = 1 <=> \E j : S = {j}
  <1>1. Cardinality(S) \in Nat
    BY FS_CardinalityType
  <1>2. Cardinality(S) # 0
    BY FS_EmptySet
  <1>3. Cardinality(S) = 1 <=> \E j : S = {j}
    BY FS_Singleton
  <1>4. Cardinality(S) > 1 <=> Cardinality(S) # 1
    BY <1>1, <1>2
  <1>5. QED BY <1>1, <1>3, <1>4

\* A journal beside the one that fitted.
LEMMA OneOrTwo ==
    ASSUME NEW S, NEW j, NEW k, S = {j} \/ S = {j, k}
    PROVE  IsFiniteSet(S) /\ S # {}
  <1>1. IsFiniteSet({j}) /\ IsFiniteSet({j} \cup {k})
    BY FS_Singleton, FS_AddElement
  <1>2. {j, k} = {j} \cup {k}
    OBVIOUS
  <1>3. QED BY <1>1, <1>2

\* A match by identity is with the only journal that carries it, and agrees.
LEMMA IdentityMatches ==
    ASSUME NEW e, NEW i, NEW C, IsFiniteSet(C), ByIdentity(e, i, C).code = "match"
    PROVE  \E j \in C : /\ Named(e, i, C) = {j} /\ Agrees(e, j)
                        /\ ByIdentity(e, i, C) = Match(e, j, i)
  <1> DEFINE named == Named(e, i, C)
             chosen == CHOOSE x \in named : TRUE
  <1>1. \A exception : Abstain(e, exception).code # "match"
    BY DEF Abstain
  <1>2. ByIdentity(e, i, C) =
          IF named = {} THEN Abstain(e, "no_candidate")
          ELSE IF Cardinality(named) > 1 THEN Abstain(e, "ambiguous_reference")
          ELSE IF chosen.currency # e.currency THEN Abstain(e, "currency_mismatch")
          ELSE IF chosen.amount # e.amount THEN Abstain(e, "amount_mismatch")
          ELSE IF chosen.side # e.side THEN Abstain(e, "direction_mismatch")
          ELSE Match(e, chosen, i)
    BY DEF ByIdentity, Named
  <1>3. IsFiniteSet(named)
    BY FS_Subset DEF Named
  <1> HIDE DEF chosen, named
  <1>4. /\ named # {} /\ ~(Cardinality(named) > 1) /\ Agrees(e, chosen)
        /\ ByIdentity(e, i, C) = Match(e, chosen, i)
    BY <1>1, <1>2 DEF Agrees
  <1>5. PICK j : named = {j}
    BY <1>3, <1>4, OneOfMany
  <1>6. chosen = j /\ j \in C
    BY <1>5 DEF chosen, named, Named
  <1>7. QED BY <1>4, <1>5, <1>6 DEF named

\* And the weak rule's is with the only journal that fits and is near.
LEMMA MoneyMatches ==
    ASSUME NEW e, NEW C, IsFiniteSet(C), ByMoney(e, C).code = "match"
    PROVE  \E j \in C : /\ NearMoney(e, C) = {j}
                        /\ ByMoney(e, C) = Match(e, j, "exact_money_bounded_date")
  <1> DEFINE exact == {j \in C : j.currency = e.currency /\ j.amount = e.amount}
             same == {j \in exact : j.side = e.side}
             near == NearMoney(e, C)
             chosen == CHOOSE j \in near : TRUE
  <1>1. \A exception : Abstain(e, exception).code # "match"
    BY DEF Abstain
  <1>2. near = {j \in same : Near(e, j)}
    BY DEF NearMoney, Agrees
  <1>3. ByMoney(e, C) =
          IF Cardinality(near) = 1 THEN Match(e, chosen, "exact_money_bounded_date")
          ELSE IF near # {} THEN Abstain(e, "ambiguous_reference")
          ELSE IF same # {} THEN Abstain(e, "date_window_mismatch")
          ELSE IF exact # {} THEN Abstain(e, "direction_mismatch")
          ELSE Abstain(e, "no_candidate")
    <2> HIDE DEF near
    <2>1. QED BY <1>2 DEF ByMoney
  <1>4. IsFiniteSet(near)
    BY FS_Subset DEF NearMoney
  <1> HIDE DEF exact, same, near, chosen
  <1>5. Cardinality(near) = 1 /\ ByMoney(e, C) = Match(e, chosen, "exact_money_bounded_date")
    BY <1>1, <1>3
  <1>6. near # {}
    BY <1>5, FS_EmptySet
  <1>7. PICK j : near = {j}
    BY <1>4, <1>5, <1>6, OneOfMany
  <1>8. chosen = j /\ j \in C
    BY <1>7 DEF chosen, near, NearMoney
  <1>9. QED BY <1>5, <1>7, <1>8 DEF near

\* With another journal among the candidates a match stays what it was, unless
\* the journal is as good: then the entry is ambiguous.
LEMMA IdentityStays ==
    ASSUME NEW e, NEW i, NEW C, IsFiniteSet(C), NEW k, ByIdentity(e, i, C).code = "match"
    PROVE  \/ ByIdentity(e, i, C \cup {k}) = ByIdentity(e, i, C)
           \/ ByIdentity(e, i, C \cup {k}).exception = "ambiguous_reference"
  <1>1. PICK j \in C : /\ Named(e, i, C) = {j} /\ Agrees(e, j)
                       /\ ByIdentity(e, i, C) = Match(e, j, i)
    BY IdentityMatches
  <1> DEFINE named == Named(e, i, C \cup {k})
             chosen == CHOOSE x \in named : TRUE
  <1>2. named = {j} \/ named = {j, k}
    BY <1>1 DEF Named
  <1>3. ByIdentity(e, i, C \cup {k}) =
          IF named = {} THEN Abstain(e, "no_candidate")
          ELSE IF Cardinality(named) > 1 THEN Abstain(e, "ambiguous_reference")
          ELSE IF chosen.currency # e.currency THEN Abstain(e, "currency_mismatch")
          ELSE IF chosen.amount # e.amount THEN Abstain(e, "amount_mismatch")
          ELSE IF chosen.side # e.side THEN Abstain(e, "direction_mismatch")
          ELSE Match(e, chosen, i)
    BY DEF ByIdentity, Named
  <1>4. IsFiniteSet(named) /\ named # {}
    BY <1>2, OneOrTwo
  <1> HIDE DEF named, chosen
  <1>5. CASE Cardinality(named) > 1
    BY <1>3, <1>4, <1>5 DEF Abstain
  <1>6. CASE ~(Cardinality(named) > 1)
    <2>1. named = {j}
      BY <1>2, <1>4, <1>6, OneOfMany
    <2>2. chosen = j
      BY <2>1 DEF chosen
    <2>3. QED BY <1>1, <1>3, <1>6, <2>1, <2>2 DEF Agrees
  <1>7. QED BY <1>5, <1>6

LEMMA MoneyStays ==
    ASSUME NEW e, NEW C, IsFiniteSet(C), NEW k, ByMoney(e, C).code = "match"
    PROVE  \/ ByMoney(e, C \cup {k}) = ByMoney(e, C)
           \/ ByMoney(e, C \cup {k}).exception = "ambiguous_reference"
  <1>1. PICK j \in C : /\ NearMoney(e, C) = {j}
                       /\ ByMoney(e, C) = Match(e, j, "exact_money_bounded_date")
    BY MoneyMatches
  <1> DEFINE near == NearMoney(e, C \cup {k})
             chosen == CHOOSE x \in near : TRUE
  <1>2. near = {j} \/ near = {j, k}
    BY <1>1 DEF NearMoney
  <1>3. /\ Cardinality(near) = 1 =>
             ByMoney(e, C \cup {k}) = Match(e, chosen, "exact_money_bounded_date")
        /\ Cardinality(near) # 1 /\ near # {} =>
             ByMoney(e, C \cup {k}) = Abstain(e, "ambiguous_reference")
    <2> DEFINE same == {x \in {y \in C \cup {k} : y.currency = e.currency /\ y.amount = e.amount} :
                          x.side = e.side}
    <2>1. near = {x \in same : Near(e, x)}
      BY DEF NearMoney, Agrees
    <2> HIDE DEF near
    <2>2. QED BY <2>1 DEF ByMoney
  <1>4. IsFiniteSet(near) /\ near # {}
    BY <1>2, OneOrTwo
  <1> HIDE DEF near, chosen
  <1>5. CASE Cardinality(near) # 1
    BY <1>3, <1>4, <1>5 DEF Abstain
  <1>6. CASE Cardinality(near) = 1
    <2>1. near = {j}
      BY <1>2, <1>4, <1>6, OneOfMany
    <2>2. chosen = j
      BY <2>1 DEF chosen
    <2>3. QED BY <1>1, <1>3, <1>6, <2>2
  <1>7. QED BY <1>5, <1>6

-----------------------------------------------------------------------------
(* Plans *)

LEMMA AmountsAdd ==
    ASSUME NEW S, IsFiniteSet(S), NEW items
    PROVE  Sum(S, LAMBDA n : items[n].amount) = SumOver([n \in S |-> items[n].amount], S)
  <1> DEFINE w == [n \in S |-> items[n].amount]
             Folds(g) == g = [s \in SUBSET S |->
                            IF s = {} THEN 0 ELSE items[First(s)].amount + g[s \ {First(s)}]]
             fold == CHOOSE g : Folds(g)
  <1>1. Sum(S, LAMBDA n : items[n].amount) = fold[S]
    BY DEF Sum, MapThenSumSet, MapThenFoldSet, First
  <1>2. \A s \in SUBSET S : s # {} => w[First(s)] = items[First(s)].amount
    BY FirstIsMember
  <1>3. ASSUME NEW g
        PROVE  Folds(g) <=> Sums(g, w, S)
    <2>1. [s \in SUBSET S |-> IF s = {} THEN 0 ELSE items[First(s)].amount + g[s \ {First(s)}]]
            = [s \in SUBSET S |-> IF s = {} THEN 0 ELSE w[First(s)] + g[s \ {First(s)}]]
      BY <1>2
    <2> HIDE DEF w
    <2>2. QED BY <2>1 DEF Sums
  <1>4. \E g : Folds(g)
    BY <1>3, SumsExist
  <1> HIDE DEF Folds
  <1>5. Folds(fold)
    BY <1>4
  <1> HIDE DEF fold, w
  <1>6. Sums(fold, w, S)
    BY <1>3, <1>5
  <1>7. QED BY <1>1, <1>6, SumsGive DEF w

\* What the caller gives is a short sequence of evidence.
LEMMA GivenTyped ==
    ASSUME NEW evidence, NEW items \in Given(evidence)
    PROVE  /\ IsFiniteSet(DOMAIN items)
           /\ \A n \in DOMAIN items : items[n] \in evidence
  <1>1. PICK m \in 0..MaxCandidates : items \in [1..m -> evidence]
    BY DEF Given, SeqOf
  <1>2. m \in Nat
    BY <1>1, CandidatesAssumption
  <1>3. IsFiniteSet(1..m) /\ DOMAIN items = 1..m
    BY <1>1, <1>2, FS_Interval
  <1>4. QED BY <1>1, <1>3

\* The same amounts at the same places add up to the same.
LEMMA PlanAdds ==
    ASSUME NEW items, IsFiniteSet(DOMAIN items), NEW plan, DOMAIN plan = DOMAIN items,
           \A n \in DOMAIN items : plan[n].amount = items[n].amount
    PROVE  SumOver([n \in DOMAIN plan |-> plan[n].amount], DOMAIN plan) = Total(items)
  <1> DEFINE D == DOMAIN items
  <1>1. [n \in D |-> plan[n].amount] = [n \in D |-> items[n].amount]
    OBVIOUS
  <1>2. Sum(D, LAMBDA n : items[n].amount) = SumOver([n \in D |-> items[n].amount], D)
    BY AmountsAdd
  <1>3. QED BY <1>1, <1>2 DEF Total

\* As often as evidence is named, as often its amount is allocated.
LEMMA MentionsAdd ==
    ASSUME NEW items, IsFiniteSet(DOMAIN items), NEW plan, NEW x, x.amount \in Int,
           \A n \in DOMAIN items : plan[n].amount = items[n].amount
    PROVE  LET M == {n \in DOMAIN items : items[n] = x}
           IN  SumOver([n \in M |-> plan[n].amount], M) = Mentions(items, x) * x.amount
  <1> DEFINE M == {n \in DOMAIN items : items[n] = x}
             w == [n \in M |-> plan[n].amount]
  <1>1. IsFiniteSet(M)
    BY FS_Subset
  <1>2. \A n \in M : w[n] = x.amount
    OBVIOUS
  <1>3. Mentions(items, x) = Cardinality(M)
    BY DEF Mentions
  <1> HIDE DEF M, w
  <1>4. SumOver(w, M) = Cardinality(M) * x.amount
    BY <1>1, <1>2, SumConstant
  <1>5. QED BY <1>3, <1>4 DEF M, w

\* A side with one piece of evidence takes the whole plan.
LEMMA OneMention ==
    ASSUME NEW x, x.amount \in Int
    PROVE  Range(<<x>>) = {x} /\ Mentions(<<x>>, x) * x.amount = x.amount
  <1>1. DOMAIN <<x>> = {1} /\ <<x>>[1] = x
    OBVIOUS
  <1>2. {n \in DOMAIN <<x>> : <<x>>[n] = x} = {1}
    BY <1>1
  <1>3. Mentions(<<x>>, x) = 1
    BY <1>2, FS_Singleton DEF Mentions
  <1>4. Range(<<x>>) = {x}
    BY <1>1 DEF Range
  <1>5. QED BY <1>3, <1>4

-----------------------------------------------------------------------------
(* The invariant *)

\* Each decision is what the run's population made of one statement entry.
Decided == \A d \in decisions : \E e \in Statement : d = Propose(e, population)
\* The answer is the one that the last call computed.
SplitAnswer(e, chosen) ==
    [kind |-> "split", entries |-> <<e>>, journals |-> chosen, plan |-> Split(e, chosen)]
AggregateAnswer(items, j) ==
    [kind |-> "aggregate", entries |-> items, journals |-> <<j>>, plan |-> Aggregate(items, j)]
Computed ==
    \/ answer \in {NoAnswer, Refused}
    \/ \E e \in Statement, chosen \in Given(population) :
           SplitFits(e, chosen) /\ answer = SplitAnswer(e, chosen)
    \/ \E items \in Given(Statement), j \in population :
           AggregateFits(items, j) /\ answer = AggregateAnswer(items, j)
    \/ \E given \in SUBSET decisions, expected \in Populations, scope \in Scopes,
          bridge \in Bridges, preceding \in Preceding :
             /\ Covers(given, expected) /\ ScopesAgree(scope, bridge, preceding)
             /\ answer = Review(given, expected, scope, bridge, preceding)
Reconciled ==
    /\ book \subseteq Journals /\ IsFiniteSet(book)
    /\ population \subseteq Journals /\ IsFiniteSet(population)
    /\ Decided
    /\ Computed

LEMMA ReconciledStarts == Init => Reconciled
  BY FS_EmptySet DEF Init, Reconciled, Decided, Computed

LEMMA ReconciledStep == Reconciled /\ [Next]_vars => Reconciled'
  <1> SUFFICES ASSUME Reconciled, [Next]_vars
               PROVE  Reconciled'
    OBVIOUS
  <1>1. ASSUME NEW j \in Journals, Post(j)
        PROVE  Reconciled'
    <2>1. IsFiniteSet(book')
      BY <1>1, FS_AddElement DEF Post, Reconciled
    <2>2. QED BY <1>1, <2>1 DEF Post, Reconciled, Decided, Computed
  <1>2. CASE BeginRun
    BY <1>2 DEF BeginRun, Reconciled, Decided, Computed
  <1>3. ASSUME NEW e \in Statement, Decide(e)
        PROVE  Reconciled'
    <2>1. Decided'
      BY <1>3 DEF Decide, Reconciled, Decided
    <2>2. QED BY <1>3, <2>1 DEF Decide, Reconciled, Computed
  <1>4. CASE Ask
    <2>1. UNCHANGED <<book, population, decisions>>
      BY <1>4 DEF Ask, PlanSplit, PlanAggregate, BuildReview
    <2>2. Computed'
      <3>1. ASSUME NEW e \in Statement, NEW chosen \in Given(population), PlanSplit(e, chosen)
            PROVE  Computed'
        <4>1. answer' = IF SplitFits(e, chosen) THEN SplitAnswer(e, chosen) ELSE Refused
          BY <3>1 DEF PlanSplit, SplitAnswer
        <4>2. QED BY <2>1, <4>1 DEF Computed
      <3>2. ASSUME NEW items \in Given(Statement), NEW j \in population, PlanAggregate(items, j)
            PROVE  Computed'
        <4>1. answer' = IF AggregateFits(items, j) THEN AggregateAnswer(items, j) ELSE Refused
          BY <3>2 DEF PlanAggregate, AggregateAnswer
        <4>2. QED BY <2>1, <4>1 DEF Computed
      <3>3. ASSUME NEW given \in SUBSET decisions, NEW expected \in Populations,
                   NEW scope \in Scopes, NEW bridge \in Bridges, NEW preceding \in Preceding,
                   BuildReview(given, expected, scope, bridge, preceding)
            PROVE  Computed'
        <4>1. answer' = IF Covers(given, expected) /\ ScopesAgree(scope, bridge, preceding)
                        THEN Review(given, expected, scope, bridge, preceding) ELSE Refused
          BY <3>3 DEF BuildReview
        <4>2. QED BY <2>1, <4>1 DEF Computed
      <3>4. QED BY <1>4, <3>1, <3>2, <3>3 DEF Ask
    <2>3. QED BY <2>1, <2>2 DEF Reconciled, Decided
  <1>5. CASE UNCHANGED vars
    BY <1>5 DEF vars, Reconciled, Decided, Computed
  <1>6. QED BY <1>1, <1>2, <1>3, <1>4, <1>5 DEF Next

\* In every state: finitely many journals, and decisions and answers as computed.
THEOREM ReconciledAlways == Spec => []Reconciled
  BY ReconciledStarts, ReconciledStep, PTL DEF Spec

-----------------------------------------------------------------------------
(* The theorems *)

\* propose_deterministic_match: a match agrees with its entry in money and
\* direction, carries its first identity, and no other journal did as well.
THEOREM MatchedEvidenceAgreesHolds == Spec => []MatchedEvidenceAgrees
  <1>1. ASSUME Reconciled
        PROVE  MatchedEvidenceAgrees
    <2> DEFINE identified(e) == \E i \in Identities : e[i] # NoReference
               fits(e, j) == IF e.provider # NoReference THEN j.provider = e.provider
                             ELSE IF e.end_to_end # NoReference
                               THEN j.end_to_end = e.end_to_end
                               ELSE j.servicer = e.servicer
    <2> SUFFICES ASSUME NEW e \in Statement, NEW d \in decisions,
                        d.entry = e.ref, d.code = "match"
                 PROVE  \E j \in population :
                            /\ d.journals = {j.ref} /\ d.amount = j.amount /\ Agrees(e, j)
                            /\ IF identified(e) THEN fits(e, j) ELSE Near(e, j)
                            /\ \A k \in population \ {j} :
                                   IF identified(e) THEN ~fits(e, k)
                                                    ELSE ~(Agrees(e, k) /\ Near(e, k))
      BY DEF MatchedEvidenceAgrees, Agrees
    <2> DEFINE i == Strongest(e, population)
    <2>1. d = Propose(e, population)
      <3>1. PICK f \in Statement : d = Propose(f, population)
        BY <1>1 DEF Reconciled, Decided
      <3>2. d.entry = f.ref
        BY <3>1 DEF Propose, ByIdentity, ByMoney, Match, Abstain
      <3>3. QED BY <3>1, <3>2, StatementAssumption
    <2>2. IsFiniteSet(population)
      BY <1>1 DEF Reconciled
    <2>3. CASE i = "none"
      <3>1. ~identified(e)
        BY <2>3 DEF Strongest, Identities
      <3>2. PICK j \in population :
              /\ NearMoney(e, population) = {j}
              /\ d = Match(e, j, "exact_money_bounded_date")
        BY <2>1, <2>2, <2>3, MoneyMatches DEF Propose
      <3>3. d.journals = {j.ref} /\ d.amount = e.amount
        BY <3>2 DEF Match
      <3> HIDE DEF identified, fits
      <3>4. QED BY <3>1, <3>2, <3>3 DEF NearMoney, Agrees
    <2>4. CASE i # "none"
      <3>1. /\ identified(e) /\ i \in Identities
            /\ \A j : fits(e, j) <=> j[i] = e[i]
        BY <2>4 DEF Strongest, Identities
      <3>2. PICK j \in population :
              /\ Named(e, i, population) = {j} /\ Agrees(e, j) /\ d = Match(e, j, i)
        BY <2>1, <2>2, <2>4, IdentityMatches DEF Propose
      <3>3. d.journals = {j.ref} /\ d.amount = e.amount
        BY <3>2 DEF Match
      <3> HIDE DEF identified, fits, i
      <3>4. QED BY <3>1, <3>2, <3>3 DEF Named, Agrees
    <2>5. QED BY <2>3, <2>4
  <1>2. QED BY <1>1, ReconciledAlways, PTL

\* Journals posted after a run may make an entry ambiguous, and never move its
\* match from one journal to another.
KeepsItsMatch ==
    \A e \in Statement :
        LET before == Propose(e, book)  after == Propose(e, book')
        IN  before.code = "match" =>
                after = before \/ after.exception = "ambiguous_reference"
THEOREM NewEvidenceNeverRedirectsHolds == Spec => NewEvidenceNeverRedirects
  <1>1. ASSUME Reconciled, [Next]_vars
        PROVE  KeepsItsMatch
    <2> SUFFICES ASSUME NEW e \in Statement, Propose(e, book).code = "match"
                 PROVE  \/ Propose(e, book') = Propose(e, book)
                        \/ Propose(e, book').exception = "ambiguous_reference"
      BY DEF KeepsItsMatch
    <2>1. book' = book \/ \E k : book' = book \cup {k}
      BY <1>1 DEF Next, vars, Post, BeginRun, Decide, Ask, PlanSplit, PlanAggregate, BuildReview
    <2>2. CASE book' = book
      BY <2>2
    <2>3. ASSUME NEW k, book' = book \cup {k}
          PROVE  \/ Propose(e, book') = Propose(e, book)
                 \/ Propose(e, book').exception = "ambiguous_reference"
      <3> DEFINE i == Strongest(e, book)
      <3>1. IsFiniteSet(book)
        BY <1>1 DEF Reconciled
      <3>2. Strongest(e, book \cup {k}) = i
        BY DEF Strongest
      <3>3. CASE i = "none"
        BY <2>3, <3>1, <3>2, <3>3, MoneyStays DEF Propose
      <3>4. CASE i # "none"
        BY <2>3, <3>1, <3>2, <3>4, IdentityStays DEF Propose
      <3>5. QED BY <3>3, <3>4
    <2>4. QED BY <2>1, <2>2, <2>3
  <1>2. Spec => [][KeepsItsMatch]_vars
    BY <1>1, ReconciledAlways, PTL DEF Spec
  <1>3. QED BY <1>2 DEF NewEvidenceNeverRedirects, KeepsItsMatch

\* propose_split_allocations and aggregate_allocations: a plan allocates to each
\* statement entry and to each journal its whole amount as often as the caller
\* named it, and so exactly once when the evidence is distinct.
THEOREM AllocationsConserveHolds == Spec => []AllocationsConserve
  <1> DEFINE Conserved ==
                /\ \A e \in Range(answer.entries) :
                      Allocated("entry", e.ref) = Mentions(answer.entries, e) * e.amount
                /\ \A j \in Range(answer.journals) :
                      Allocated("journal", j.ref) = Mentions(answer.journals, j) * j.amount
  <1>1. ASSUME Reconciled, answer.kind = "split"
        PROVE  Conserved
    <2>1. PICK e \in Statement, chosen \in Given(population) :
             SplitFits(e, chosen) /\ answer = SplitAnswer(e, chosen)
      BY <1>1 DEF Reconciled, Computed, NoAnswer, Refused, AggregateAnswer, Review
    <2> DEFINE plan == answer.plan
    <2>2. /\ answer.entries = <<e>> /\ answer.journals = chosen
          /\ plan = [n \in DOMAIN chosen |-> Allocation(e.ref, chosen[n].ref, chosen[n].amount)]
      BY <2>1 DEF SplitAnswer, Split
    <2>3. /\ IsFiniteSet(DOMAIN chosen) /\ DOMAIN plan = DOMAIN chosen
          /\ \A n \in DOMAIN chosen : /\ plan[n].amount = chosen[n].amount
                                      /\ plan[n]["entry"] = e.ref
                                      /\ plan[n]["journal"] = chosen[n].ref
                                      /\ chosen[n] \in Journals
      BY <1>1, <2>2, GivenTyped DEF Reconciled, Allocation
    <2> HIDE DEF plan
    <2>4. Allocated("entry", e.ref) = e.amount
      <3>1. {n \in DOMAIN plan : plan[n]["entry"] = e.ref} = DOMAIN plan
        BY <2>3
      <3>2. Allocated("entry", e.ref) = Sum(DOMAIN plan, LAMBDA n : plan[n].amount)
        BY <3>1 DEF Allocated, plan
      <3>3. Total(chosen) = e.amount
        BY <2>1 DEF SplitFits
      <3>4. Sum(DOMAIN plan, LAMBDA n : plan[n].amount)
              = SumOver([n \in DOMAIN plan |-> plan[n].amount], DOMAIN plan)
        BY <2>3, AmountsAdd
      <3>5. QED BY <2>3, <3>2, <3>3, <3>4, PlanAdds
    <2>5. ASSUME NEW j \in Range(chosen)
          PROVE  Allocated("journal", j.ref) = Mentions(chosen, j) * j.amount
      <3> DEFINE M == {n \in DOMAIN chosen : chosen[n] = j}
      <3>1. j \in Journals /\ j.amount \in Int
        BY <2>3, JournalsAssumption DEF Range
      <3>2. {n \in DOMAIN plan : plan[n]["journal"] = j.ref} = M
        BY <2>3, <3>1, JournalsAssumption
      <3>3. Allocated("journal", j.ref) = Sum(M, LAMBDA n : plan[n].amount)
        BY <3>2 DEF Allocated, plan
      <3>4. Sum(M, LAMBDA n : plan[n].amount) = SumOver([n \in M |-> plan[n].amount], M)
        BY <2>3, FS_Subset, AmountsAdd
      <3>5. SumOver([n \in M |-> plan[n].amount], M) = Mentions(chosen, j) * j.amount
        BY <2>3, <3>1, MentionsAdd
      <3>6. QED BY <3>3, <3>4, <3>5
    <2>6. e.amount \in Int
      BY StatementAssumption
    <2>7. QED BY <2>2, <2>4, <2>5, <2>6, OneMention
  <1>2. ASSUME Reconciled, answer.kind = "aggregate"
        PROVE  Conserved
    <2>1. PICK items \in Given(Statement), j \in population :
             AggregateFits(items, j) /\ answer = AggregateAnswer(items, j)
      BY <1>2 DEF Reconciled, Computed, NoAnswer, Refused, SplitAnswer, Review
    <2> DEFINE plan == answer.plan
    <2>2. /\ answer.entries = items /\ answer.journals = <<j>>
          /\ plan = [n \in DOMAIN items |-> Allocation(items[n].ref, j.ref, items[n].amount)]
      BY <2>1 DEF AggregateAnswer, Aggregate
    <2>3. /\ IsFiniteSet(DOMAIN items) /\ DOMAIN plan = DOMAIN items
          /\ \A n \in DOMAIN items : /\ plan[n].amount = items[n].amount
                                     /\ plan[n]["entry"] = items[n].ref
                                     /\ plan[n]["journal"] = j.ref
                                     /\ items[n] \in Statement
      BY <2>2, GivenTyped DEF Allocation
    <2> HIDE DEF plan
    <2>4. Allocated("journal", j.ref) = j.amount
      <3>1. {n \in DOMAIN plan : plan[n]["journal"] = j.ref} = DOMAIN plan
        BY <2>3
      <3>2. Allocated("journal", j.ref) = Sum(DOMAIN plan, LAMBDA n : plan[n].amount)
        BY <3>1 DEF Allocated, plan
      <3>3. Total(items) = j.amount
        BY <2>1 DEF AggregateFits
      <3>4. Sum(DOMAIN plan, LAMBDA n : plan[n].amount)
              = SumOver([n \in DOMAIN plan |-> plan[n].amount], DOMAIN plan)
        BY <2>3, AmountsAdd
      <3>5. QED BY <2>3, <3>2, <3>3, <3>4, PlanAdds
    <2>5. ASSUME NEW e \in Range(items)
          PROVE  Allocated("entry", e.ref) = Mentions(items, e) * e.amount
      <3> DEFINE M == {n \in DOMAIN items : items[n] = e}
      <3>1. e \in Statement /\ e.amount \in Int
        BY <2>3, StatementAssumption DEF Range
      <3>2. {n \in DOMAIN plan : plan[n]["entry"] = e.ref} = M
        BY <2>3, <3>1, StatementAssumption
      <3>3. Allocated("entry", e.ref) = Sum(M, LAMBDA n : plan[n].amount)
        BY <3>2 DEF Allocated, plan
      <3>4. Sum(M, LAMBDA n : plan[n].amount) = SumOver([n \in M |-> plan[n].amount], M)
        BY <2>3, FS_Subset, AmountsAdd
      <3>5. SumOver([n \in M |-> plan[n].amount], M) = Mentions(items, e) * e.amount
        BY <2>3, <3>1, MentionsAdd
      <3>6. QED BY <3>3, <3>4, <3>5
    <2>6. j.amount \in Int
      BY <1>2, JournalsAssumption DEF Reconciled
    <2>7. QED BY <2>2, <2>4, <2>5, <2>6, OneMention
  <1>3. Reconciled => AllocationsConserve
    BY <1>1, <1>2 DEF AllocationsConserve
  <1>4. QED BY <1>3, ReconciledAlways, PTL

\* build_reconciliation_close_review: a review is suitable for a close only if
\* every expected entry is matched once and all balances tie in one scope.
THEOREM SuitableReviewIsCompleteHolds == Spec => []SuitableReviewIsComplete
  <1>1. ASSUME Reconciled, answer.kind = "review", answer.suitable
        PROVE  LET b == answer.bridge
               IN  /\ \A d \in answer.given : d.entry \in answer.expected
                   /\ \A x \in answer.expected :
                         \E d \in answer.given : d.entry = x /\ d.code = "match"
                   /\ b.bank_opening + b.bank_moved = b.bank_closing
                   /\ b.book_opening + b.book_moved = b.book_closing
                   /\ b.reconciled + b.outstanding_book = b.bank_closing + b.outstanding_bank
                   /\ b.scope = answer.scope
    <2>1. PICK given \in SUBSET decisions, expected \in Populations, scope \in Scopes,
               bridge \in Bridges, preceding \in Preceding :
             /\ Covers(given, expected) /\ ScopesAgree(scope, bridge, preceding)
             /\ answer = Review(given, expected, scope, bridge, preceding)
      BY <1>1 DEF Reconciled, Computed, NoAnswer, Refused, SplitAnswer, AggregateAnswer
    <2>2. /\ answer.given = given /\ answer.expected = expected /\ answer.scope = scope
          /\ answer.bridge = bridge /\ bridge.scope = scope
          /\ BridgeStatus(bridge) = "reconciled" /\ Exceptions(given) = {}
      BY <1>1, <2>1 DEF Review, ScopesAgree
    <2>3. /\ \A d \in given : d.entry \in expected
          /\ \A x \in expected : \E d \in given : d.entry = x /\ d.code = "match"
      BY <2>1, <2>2 DEF Covers, Exceptions
    <2>4. /\ bridge.bank_opening + bridge.bank_moved = bridge.bank_closing
          /\ bridge.book_opening + bridge.book_moved = bridge.book_closing
          /\ bridge.reconciled + bridge.outstanding_book - bridge.outstanding_bank
               = bridge.bank_closing
      BY <2>2 DEF BridgeStatus, BridgeBalance
    <2>5. bridge.reconciled + bridge.outstanding_book
            = bridge.bank_closing + bridge.outstanding_bank
      <3>1. /\ bridge.reconciled \in Int /\ bridge.outstanding_book \in Int
            /\ bridge.outstanding_bank \in Int /\ bridge.bank_closing \in Int
        BY BridgesAssumption
      <3>2. QED BY <2>4, <3>1
    <2>6. QED BY <2>2, <2>3, <2>4, <2>5
  <1>2. Reconciled => SuitableReviewIsComplete
    BY <1>1 DEF SuitableReviewIsComplete
  <1>3. QED BY <1>2, ReconciledAlways, PTL
=============================================================================
