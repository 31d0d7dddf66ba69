---------------------------- MODULE Intake_proofs ----------------------------
(***************************************************************************)
(* The in-memory ledger and the callers around it, for any proposals,      *)
(* pages, commands and policies.  First PostingLedger alone: its           *)
(* dictionaries agree and reversals cancel their originals.  The lemmas    *)
(* about one post and one reversal hold for any policy, and are used again *)
(* for Intake: a journal has exactly one event, and what HTTP clients were *)
(* answered agrees with the journals, whatever fails between the two       *)
(* transactions of accept_journal_proposal.  Then the pages and lists of a *)
(* pull.                                                                   *)
(***************************************************************************)
EXTENDS Intake, Sums_proofs

\* A reference says what a journal is: a reversal's is made from the reference
\* of its original, which is a posted journal's.  It lets the dictionary of
\* reversals stand for the journals that an occupied reference refers to.
RefsTellReversals ==
    \A j \in journals :
        /\ j.reverses = NoRef => j.ref = <<"journal", j.ref[2]>>
        /\ j.reverses # NoRef => /\ j.reverses = <<"journal", j.reverses[2]>>
                                 /\ j.ref = <<"reversal", j.reverses[2]>>
Consistent == RefsTellReversals /\ CachesMatchJournals

-----------------------------------------------------------------------------

\* _journals, _receipts_by_idempotency and _reversal_receipts start empty.
LEMMA InitConsistent == Init => Consistent
BY DEF Init, Consistent, RefsTellReversals, CachesMatchJournals

\* PostingLedger.post writes one journal and one receipt under a reference and
\* a key that are not yet in use.
LEMMA PostConsistent ==
    ASSUME NEW p, NEW policy, Consistent, Post(p, policy)
    PROVE  Consistent'
<1> DEFINE j0 == [tenant |-> p.tenant, ref |-> <<"journal", p.id>>, book |-> p.book,
                  date |-> p.date, lines |-> p.lines, reverses |-> NoRef]
           c0 == [tenant |-> p.tenant, key |-> p.key, hash |-> p.hash,
                  ref |-> <<"journal", p.id>>]
<1>1. /\ journals' = journals \cup {j0}
      /\ receipts' = receipts \cup {c0}
      /\ reversals' = reversals
  BY DEF Post
<1>2. /\ j0.tenant = p.tenant /\ j0.ref = <<"journal", p.id>> /\ j0.reverses = NoRef
      /\ c0.tenant = p.tenant /\ c0.key = p.key /\ c0.ref = <<"journal", p.id>>
  OBVIOUS
<1>3. /\ \A j \in journals : ~(j.tenant = p.tenant /\ j.ref = <<"journal", p.id>>)
      /\ \A c \in receipts : ~(c.tenant = p.tenant /\ c.key = p.key)
  BY DEF Post, CanPost, Journals, Cached
<1> HIDE DEF j0, c0
<1>4. RefsTellReversals'
  <2>1. j0.ref[2] = p.id
    BY <1>2
  <2> QED  BY <1>1, <1>2, <2>1 DEF Consistent, RefsTellReversals
<1>5. /\ \A j1, j2 \in journals' : j1.tenant = j2.tenant /\ j1.ref = j2.ref => j1 = j2
      /\ \A c1, c2 \in receipts' : c1.tenant = c2.tenant /\ c1.key = c2.key => c1 = c2
  BY <1>1, <1>2, <1>3 DEF Consistent, CachesMatchJournals
<1>6. {<<c.tenant, c.ref>> : c \in receipts'}
        = {<<j.tenant, j.ref>> : j \in {k \in journals' : k.reverses = NoRef}}
  <2>1. {<<c.tenant, c.ref>> : c \in receipts'}
          = {<<c.tenant, c.ref>> : c \in receipts} \cup {<<p.tenant, <<"journal", p.id>>>>}
    BY <1>1, <1>2
  <2>2. {k \in journals' : k.reverses = NoRef} = {k \in journals : k.reverses = NoRef} \cup {j0}
    BY <1>1, <1>2
  <2>3. {<<j.tenant, j.ref>> : j \in {k \in journals' : k.reverses = NoRef}}
          = {<<j.tenant, j.ref>> : j \in {k \in journals : k.reverses = NoRef}}
                \cup {<<p.tenant, <<"journal", p.id>>>>}
    BY <2>2, <1>2
  <2> QED  BY <2>1, <2>3 DEF Consistent, CachesMatchJournals
<1>7. {k \in journals' : k.reverses # NoRef} = {k \in journals : k.reverses # NoRef}
  BY <1>1, <1>2
<1> QED
  BY <1>1, <1>4, <1>5, <1>6, <1>7 DEF Consistent, CachesMatchJournals

\* PostingLedger.reverse writes one journal and its evidence.  That no evidence
\* for the original is on record follows from the reversal's reference, which
\* is the one thing it looks up.
LEMMA ReverseConsistent ==
    ASSUME NEW c \in ReversalCommands, NEW policy, Consistent, Reverse(c, policy)
    PROVE  Consistent'
<1>1. PICK o \in journals :
        /\ Reversible(o, c, policy)
        /\ journals' = journals \cup
             {[tenant |-> o.tenant, ref |-> <<"reversal", c.original[2]>>, book |-> o.book,
               date |-> c.date, lines |-> Swapped(o.lines), reverses |-> o.ref]}
  BY DEF Reverse
<1> DEFINE j0 == [tenant |-> o.tenant, ref |-> <<"reversal", c.original[2]>>, book |-> o.book,
                  date |-> c.date, lines |-> Swapped(o.lines), reverses |-> o.ref]
           e0 == [tenant |-> policy.tenant, original |-> c.original, key |-> c.key,
                  date |-> c.date]
<1>2. /\ journals' = journals \cup {j0}
      /\ reversals' = reversals \cup {e0}
      /\ receipts' = receipts
  BY <1>1 DEF Reverse
<1>3. /\ o.tenant = policy.tenant /\ o.ref = c.original /\ o.reverses = NoRef
      /\ o.ref # NoRef
  BY <1>1, RefAssumption, CommandsAssumption DEF Reversible
<1>4. /\ j0.tenant = policy.tenant /\ j0.ref = <<"reversal", c.original[2]>>
      /\ j0.reverses = c.original /\ j0.reverses # NoRef /\ j0.date = c.date
      /\ e0.tenant = policy.tenant /\ e0.original = c.original /\ e0.date = c.date
  BY <1>3
<1>5. c.original = <<"journal", c.original[2]>>
  BY <1>1, <1>3 DEF Consistent, RefsTellReversals
<1>6. \A j \in journals : ~(j.tenant = policy.tenant /\ j.ref = <<"reversal", c.original[2]>>)
  BY DEF Reverse, NotYetReversed, Journals
<1> HIDE DEF j0, e0
<1>7. RefsTellReversals'
  BY <1>2, <1>4, <1>5 DEF Consistent, RefsTellReversals
<1>8. \A j1, j2 \in journals' : j1.tenant = j2.tenant /\ j1.ref = j2.ref => j1 = j2
  BY <1>2, <1>4, <1>6 DEF Consistent, CachesMatchJournals
<1>9. \A e \in reversals : ~(e.tenant = policy.tenant /\ e.original = c.original)
  <2> SUFFICES ASSUME NEW e \in reversals, e.tenant = policy.tenant, e.original = c.original
               PROVE  FALSE
    OBVIOUS
  <2>1. <<e.tenant, e.original, e.date>>
          \in {<<j.tenant, j.reverses, j.date>> : j \in {k \in journals : k.reverses # NoRef}}
    BY DEF Consistent, CachesMatchJournals
  <2>2. PICK j \in journals : j.reverses # NoRef /\ j.tenant = e.tenant /\ j.reverses = e.original
    BY <2>1
  <2>3. j.ref = <<"reversal", c.original[2]>>
    BY <2>2 DEF Consistent, RefsTellReversals
  <2> QED  BY <2>2, <2>3, <1>6
<1>10. \A e1, e2 \in reversals' :
          e1.tenant = e2.tenant /\ e1.original = e2.original => e1 = e2
  BY <1>2, <1>4, <1>9 DEF Consistent, CachesMatchJournals
<1>11. {k \in journals' : k.reverses = NoRef} = {k \in journals : k.reverses = NoRef}
  BY <1>2, <1>4
<1>12. {<<e.tenant, e.original, e.date>> : e \in reversals'}
         = {<<j.tenant, j.reverses, j.date>> : j \in {k \in journals' : k.reverses # NoRef}}
  <2>1. {<<e.tenant, e.original, e.date>> : e \in reversals'}
          = {<<e.tenant, e.original, e.date>> : e \in reversals}
                \cup {<<policy.tenant, c.original, c.date>>}
    BY <1>2, <1>4
  <2>2. {k \in journals' : k.reverses # NoRef} = {k \in journals : k.reverses # NoRef} \cup {j0}
    BY <1>2, <1>4
  <2>3. {<<j.tenant, j.reverses, j.date>> : j \in {k \in journals' : k.reverses # NoRef}}
          = {<<j.tenant, j.reverses, j.date>> : j \in {k \in journals : k.reverses # NoRef}}
                \cup {<<policy.tenant, c.original, c.date>>}
    BY <2>2, <1>4
  <2> QED  BY <2>1, <2>3 DEF Consistent, CachesMatchJournals
<1> QED
  BY <1>2, <1>7, <1>8, <1>10, <1>11, <1>12 DEF Consistent, CachesMatchJournals

\* A step that leaves the dictionaries alone.
LEMMA StutterConsistent ==
    ASSUME Consistent, UNCHANGED ledger
    PROVE  Consistent'
BY DEF ledger, Consistent, RefsTellReversals, CachesMatchJournals

-----------------------------------------------------------------------------

LEMMA StaysConsistent == Spec => []Consistent
<1>1. Init => Consistent
  BY InitConsistent
<1>2. Consistent /\ [Next]_ledger => Consistent'
  <2> SUFFICES ASSUME Consistent, [Next]_ledger
               PROVE  Consistent'
    OBVIOUS
  <2>1. ASSUME NEW policy \in Policies, NEW p \in Proposals, Post(p, policy)
        PROVE  Consistent'
    BY <2>1, PostConsistent
  <2>2. ASSUME NEW policy \in Policies, NEW c \in ReversalCommands, Reverse(c, policy)
        PROVE  Consistent'
    BY <2>2, ReverseConsistent
  <2>3. CASE UNCHANGED ledger
    BY <2>3, StutterConsistent
  <2> QED  BY <2>1, <2>2, <2>3 DEF Next
<1> QED  BY <1>1, <1>2, PTL DEF Spec

\* CachesMatchJournals: after any sequence of posts and reversals every journal
\* has its one receipt or its one reversal evidence, and no key names two.
THEOREM CachesMatchJournalsHolds == Spec => []CachesMatchJournals
<1>1. Consistent => CachesMatchJournals
  BY DEF Consistent
<1> QED  BY <1>1, StaysConsistent, PTL

-----------------------------------------------------------------------------
(* What a reversal books: its original's lines, with the sides exchanged *)

Mirrors(k, o) ==
    /\ o.tenant = k.tenant /\ o.ref = k.reverses /\ o.reverses = NoRef
    /\ o.book = k.book /\ o.date <= k.date
    /\ k.lines = Swapped(o.lines)
Booked(j) ==
    /\ j.date \in Int /\ j.lines \in Lines
    /\ j.ref \in Ref
    /\ j.reverses # NoRef => \E o \in journals : Mirrors(j, o)
BooksMirrored == IsFiniteSet(journals) /\ \A j \in journals : Booked(j)

LEMMA LinesTyped ==
    ASSUME NEW lines \in Lines, NEW r \in Roles
    PROVE  DOMAIN lines = Roles /\ lines[r].debit \in Int /\ lines[r].credit \in Int
  <1>1. DOMAIN lines = Roles /\ lines[r] \in [debit : Amounts, credit : Amounts]
    BY DEF Lines
  <1>2. lines[r].debit \in Amounts /\ lines[r].credit \in Amounts
    BY <1>1
  <1>3. \A a \in Amounts : a \in Int
    BY DatesAssumption
  <1>4. QED BY <1>1, <1>2, <1>3

LEMMA PostMirrored ==
    ASSUME NEW p, NEW policy, WellFormed(p), BooksMirrored, Post(p, policy)
    PROVE  BooksMirrored'
  <1> DEFINE j0 == [tenant |-> p.tenant, ref |-> <<"journal", p.id>>, book |-> p.book,
                    date |-> p.date, lines |-> p.lines, reverses |-> NoRef]
  <1>1. journals' = journals \cup {j0}
    BY DEF Post
  <1>2. Booked(j0)
    <2>1. /\ p.date \in Int /\ <<"journal", p.id>> \in Ref
          /\ p.lines \in Lines
      BY DatesAssumption DEF WellFormed, Ref
    <2>2. j0.date = p.date /\ j0.ref = <<"journal", p.id>> /\ j0.lines = p.lines /\ j0.reverses = NoRef
      OBVIOUS
    <2> HIDE DEF j0
    <2>3. QED BY <2>1, <2>2 DEF Booked
  <1> HIDE DEF j0
  <1>3. IsFiniteSet(journals')
    BY <1>1, FS_AddElement DEF BooksMirrored
  <1>4. QED BY <1>1, <1>2, <1>3 DEF BooksMirrored, Booked

LEMMA ReverseMirrored ==
    ASSUME NEW c \in ReversalCommands, NEW policy, BooksMirrored, Reverse(c, policy)
    PROVE  BooksMirrored'
  <1>1. PICK o \in journals :
          /\ Reversible(o, c, policy)
          /\ journals' = journals \cup
               {[tenant |-> o.tenant, ref |-> <<"reversal", c.original[2]>>, book |-> o.book,
                 date |-> c.date, lines |-> Swapped(o.lines), reverses |-> o.ref]}
    BY DEF Reverse
  <1> DEFINE j0 == [tenant |-> o.tenant, ref |-> <<"reversal", c.original[2]>>, book |-> o.book,
                    date |-> c.date, lines |-> Swapped(o.lines), reverses |-> o.ref]
  <1>2. journals' = journals \cup {j0}
    BY <1>1
  <1>3. Mirrors(j0, o)
    BY <1>1 DEF Reversible, Mirrors
  <1>4. j0.date \in Int /\ j0.ref \in Ref
    BY CommandsAssumption, DatesAssumption DEF Ref
  <1>5. j0.lines \in Lines
    <2>1. o.lines \in Lines
      BY DEF BooksMirrored, Booked
    <2>2. Swapped(o.lines) \in Lines
      BY <2>1 DEF Swapped, Lines
    <2>3. QED BY <2>2
  <1> HIDE DEF j0
  <1>6. IsFiniteSet(journals')
    BY <1>2, FS_AddElement DEF BooksMirrored
  <1>7. QED BY <1>2, <1>3, <1>4, <1>5, <1>6 DEF BooksMirrored, Booked

LEMMA SameMirrored ==
    ASSUME BooksMirrored, journals' = journals
    PROVE  BooksMirrored'
  BY DEF BooksMirrored, Booked

\* TrialBalance sums sides, ReversedJournalsCancel differences: both are sums
\* of weights.
LEMMA SidesAdd ==
    ASSUME NEW S, IsFiniteSet(S), NEW r, NEW side
    PROVE  MapThenSumSet(LAMBDA j : j.lines[r][side], S)
             = SumOver([j \in S |-> j.lines[r][side]], S)
  <1> DEFINE w == [x \in S |-> x.lines[r][side]]
             Folds(g) == g = [s \in SUBSET S |->
                IF s = {} THEN 0 ELSE First(s).lines[r][side] + g[s \ {First(s)}]]
             fold == CHOOSE g : Folds(g)
  <1>1. MapThenSumSet(LAMBDA j : j.lines[r][side], S) = fold[S]
    BY DEF MapThenSumSet, MapThenFoldSet, First
  <1>2. \A s \in SUBSET S : s # {} => w[First(s)] = First(s).lines[r][side]
    BY FirstIsMember
  <1>3. ASSUME NEW g
        PROVE  Folds(g) <=> Sums(g, w, S)
    <2>1. [s \in SUBSET S |->
             IF s = {} THEN 0 ELSE First(s).lines[r][side] + g[s \ {First(s)}]]
            = [s \in SUBSET S |-> IF s = {} THEN 0 ELSE w[First(s)] + g[s \ {First(s)}]]
      BY <1>2
    <2> HIDE DEF w
    <2>2. QED BY <2>1 DEF Sums
  <1>4. \E g : Folds(g)
    BY <1>3, SumsExist
  <1> HIDE DEF Folds
  <1>5. Folds(fold)
    BY <1>4
  <1> HIDE DEF fold, w
  <1>6. Sums(fold, w, S)
    BY <1>3, <1>5
  <1>7. QED BY <1>1, <1>6, SumsGive DEF w
LEMMA DifferencesAdd ==
    ASSUME NEW S, IsFiniteSet(S), NEW r
    PROVE  MapThenSumSet(LAMBDA j : j.lines[r].debit - j.lines[r].credit, S)
             = SumOver([j \in S |-> j.lines[r].debit - j.lines[r].credit], S)
  <1> DEFINE w == [x \in S |-> x.lines[r].debit - x.lines[r].credit]
             Folds(g) == g = [s \in SUBSET S |->
                IF s = {} THEN 0 ELSE (First(s).lines[r].debit - First(s).lines[r].credit)
                                        + g[s \ {First(s)}]]
             fold == CHOOSE g : Folds(g)
  <1>1. MapThenSumSet(LAMBDA j : j.lines[r].debit - j.lines[r].credit, S) = fold[S]
    BY DEF MapThenSumSet, MapThenFoldSet, First
  <1>2. \A s \in SUBSET S : s # {} =>
           w[First(s)] = First(s).lines[r].debit - First(s).lines[r].credit
    BY FirstIsMember
  <1>3. ASSUME NEW g
        PROVE  Folds(g) <=> Sums(g, w, S)
    <2>1. [s \in SUBSET S |->
             IF s = {} THEN 0 ELSE (First(s).lines[r].debit - First(s).lines[r].credit)
                                     + g[s \ {First(s)}]]
            = [s \in SUBSET S |-> IF s = {} THEN 0 ELSE w[First(s)] + g[s \ {First(s)}]]
      BY <1>2
    <2> HIDE DEF w
    <2>2. QED BY <2>1 DEF Sums
  <1>4. \E g : Folds(g)
    BY <1>3, SumsExist
  <1> HIDE DEF Folds
  <1>5. Folds(fold)
    BY <1>4
  <1> HIDE DEF fold, w
  <1>6. Sums(fold, w, S)
    BY <1>3, <1>5
  <1>7. SumOver(w, S) = fold[S]
    BY <1>6, SumsGive
  <1>8. MapThenSumSet(LAMBDA j : j.lines[r].debit - j.lines[r].credit, S) = SumOver(w, S)
    BY <1>1, <1>7
  <1>9. QED BY <1>8 DEF w

\* What is in a trial balance, apart from the journals that stand, is originals
\* and the reversal of each: reading an account of the originals on one side is
\* reading it of the reversals on the other.
LEMMA ReversalsExchangeSides ==
    ASSUME Consistent, BooksMirrored,
           NEW tenant, NEW book, NEW date \in Int, NEW r \in Roles
    PROVE  LET in == InBalance(tenant, book, date)
               undoing == {k \in in : k.reverses # NoRef}
               originals == {o \in in : o.reverses = NoRef /\ \E k \in in : k.reverses = o.ref}
               Side(S, side) == SumOver([j \in in |-> j.lines[r][side]], S)
           IN  /\ Side(undoing, "debit") = Side(originals, "credit")
               /\ Side(undoing, "credit") = Side(originals, "debit")
  <1> DEFINE in == InBalance(tenant, book, date)
             undoing == {k \in in : k.reverses # NoRef}
             originals == {o \in in : o.reverses = NoRef /\ \E k \in in : k.reverses = o.ref}
             of == [o \in originals |-> CHOOSE k \in undoing : k.reverses = o.ref]
             w(side) == [j \in in |-> j.lines[r][side]]
  <1>1. /\ \A j, k \in in : j.ref = k.ref => j = k
        /\ \A j \in in : j \in journals /\ j.ref # NoRef
    BY RefAssumption DEF InBalance, Consistent, CachesMatchJournals, BooksMirrored, Booked
  <1>2. \A j, k \in in : j \in undoing /\ k \in undoing /\ j.reverses = k.reverses => j = k
    BY <1>1 DEF Consistent, RefsTellReversals
  <1>3. \A k \in undoing : \E o \in originals : Mirrors(k, o)
    <2> SUFFICES ASSUME NEW k \in undoing
                 PROVE  \E o \in originals : Mirrors(k, o)
      OBVIOUS
    <2>1. PICK o \in journals : Mirrors(k, o)
      BY <1>1 DEF BooksMirrored, Booked
    <2>2. o \in in
      <3>1. o.date \in Int /\ k.date \in Int
        BY <1>1 DEF BooksMirrored, Booked
      <3>2. k.tenant = tenant /\ k.book = book /\ k.date <= date
        BY DEF InBalance
      <3>3. o.date <= date /\ o.tenant = tenant /\ o.book = book
        BY <2>1, <3>1, <3>2 DEF Mirrors
      <3>4. QED BY <3>3 DEF InBalance
    <2>3. QED BY <2>1, <2>2 DEF Mirrors
  <1>4. ASSUME NEW o \in originals
        PROVE  of[o] \in undoing /\ of[o].reverses = o.ref /\ Mirrors(of[o], o)
    <2>1. \E k \in undoing : k.reverses = o.ref
      BY <1>1
    <2>2. of[o] \in undoing /\ of[o].reverses = o.ref
      BY <2>1
    <2>3. PICK q \in originals : Mirrors(of[o], q)
      BY <1>3, <2>2
    <2>4. q = o
      BY <1>1, <2>2, <2>3 DEF Mirrors
    <2>5. QED BY <2>2, <2>3, <2>4
  <1>5. undoing = {of[o] : o \in originals}
    <2>1. ASSUME NEW k \in undoing
          PROVE  \E o \in originals : k = of[o]
      BY <1>2, <1>3, <1>4 DEF Mirrors
    <2> HIDE DEF of
    <2>2. QED BY <1>4, <2>1
  <1>6. \A o, q \in originals : of[o] = of[q] => o = q
    BY <1>1, <1>4
  <1>7. ASSUME NEW side, NEW other,
               <<side, other>> \in {<<"debit", "credit">>, <<"credit", "debit">>}
        PROVE  SumOver(w(side), undoing) = SumOver(w(other), originals)
    <2>1. IsFiniteSet(originals)
      <3>1. originals \subseteq journals
        BY <1>1
      <3>2. QED BY <3>1, FS_Subset DEF BooksMirrored
    <2>2. \A o \in originals : w(other)[o] \in Int /\ w(side)[of[o]] = w(other)[o]
      <3> SUFFICES ASSUME NEW o \in originals
                   PROVE  w(other)[o] \in Int /\ w(side)[of[o]] = w(other)[o]
        OBVIOUS
      <3>1. of[o] \in in /\ of[o].lines = Swapped(o.lines)
        BY <1>4 DEF Mirrors
      <3>2. /\ DOMAIN o.lines = Roles
            /\ o.lines[r].debit \in Int /\ o.lines[r].credit \in Int
        BY <1>1, LinesTyped DEF BooksMirrored, Booked
      <3>3. Swapped(o.lines)[r] = [debit |-> o.lines[r].credit, credit |-> o.lines[r].debit]
        BY <3>2 DEF Swapped
      <3>4. /\ w(side)[of[o]] = of[o].lines[r][side]
            /\ w(other)[o] = o.lines[r][other]
        BY <3>1
      <3>5. CASE side = "debit" /\ other = "credit"
        BY <3>1, <3>2, <3>3, <3>4, <3>5
      <3>6. CASE side = "credit" /\ other = "debit"
        BY <3>1, <3>2, <3>3, <3>4, <3>6
      <3>7. QED BY <1>7, <3>5, <3>6
    <2> HIDE DEF originals, undoing, of, w, in
    <2>3. SumOver(w(side), {of[o] : o \in originals}) = SumOver(w(other), originals)
      BY <1>6, <2>1, <2>2, SumRenamed
    <2>4. QED BY <1>5, <2>3
  <1>8. /\ SumOver(w("debit"), undoing) = SumOver(w("credit"), originals)
        /\ SumOver(w("credit"), undoing) = SumOver(w("debit"), originals)
    <2> HIDE DEF undoing, originals, w
    <2>1. QED BY <1>7
  <1>9. QED BY <1>8

\* ReversedJournalsCancel: reversals cancel their originals in every account,
\* so that a trial balance shows the originals that stand on its date.
LEMMA MirroredCancel == Consistent /\ BooksMirrored => ReversedJournalsCancel
  <1> SUFFICES ASSUME Consistent, BooksMirrored,
                      NEW tenant \in Tenants, NEW book \in Books, NEW date \in Dates,
                      NEW r \in Roles
               PROVE  LET in == InBalance(tenant, book, date)
                          standing == {j \in in : /\ j.reverses = NoRef
                                                  /\ ~\E k \in in : k.reverses = j.ref}
                          balance == TrialBalance(tenant, book, date)
                      IN  balance[r].debit - balance[r].credit
                            = MapThenSumSet(LAMBDA j : j.lines[r].debit - j.lines[r].credit,
                                            standing)
    BY DEF ReversedJournalsCancel
  <1> DEFINE in == InBalance(tenant, book, date)
             undoing == {k \in in : k.reverses # NoRef}
             originals == {o \in in : o.reverses = NoRef /\ \E k \in in : k.reverses = o.ref}
             standing == {j \in in : j.reverses = NoRef /\ ~\E k \in in : k.reverses = j.ref}
             d == [j \in in |-> j.lines[r]["debit"]]
             c == [j \in in |-> j.lines[r]["credit"]]
             net == [j \in standing |-> j.lines[r].debit - j.lines[r].credit]
  <1>1. date \in Int
    BY DatesAssumption
  <1>2. /\ SumOver(d, undoing) = SumOver(c, originals)
        /\ SumOver(c, undoing) = SumOver(d, originals)
    BY <1>1, ReversalsExchangeSides
  <1>3. in \subseteq journals /\ IsFiniteSet(in)
    BY FS_Subset DEF InBalance, BooksMirrored
  <1>4. \A j \in in : d[j] \in Int /\ c[j] \in Int
    BY <1>3, LinesTyped DEF BooksMirrored, Booked
  <1>5. /\ TrialBalance(tenant, book, date)[r].debit = SumOver(d, in)
        /\ TrialBalance(tenant, book, date)[r].credit = SumOver(c, in)
    BY <1>3, SidesAdd DEF TrialBalance
  <1>6. /\ in = (standing \cup originals) \cup undoing
        /\ standing \cap originals = {} /\ (standing \cup originals) \cap undoing = {}
        /\ standing \subseteq in /\ originals \subseteq in /\ undoing \subseteq in
        /\ standing \cup originals \subseteq in
    OBVIOUS
  <1>7. \A j \in standing : net[j] = d[j] - c[j]
    BY <1>6
  <1>8. MapThenSumSet(LAMBDA j : j.lines[r].debit - j.lines[r].credit, standing)
          = SumOver(net, standing)
    <2>1. IsFiniteSet(standing)
      BY <1>3, <1>6, FS_Subset
    <2>2. QED BY <2>1, DifferencesAdd
  <1> HIDE DEF in, undoing, originals, standing, d, c, net
  <1>9. /\ IsFiniteSet(standing) /\ IsFiniteSet(originals) /\ IsFiniteSet(undoing)
        /\ IsFiniteSet(standing \cup originals)
    BY <1>3, <1>6, FS_Subset
  <1>10. ASSUME NEW w, \A j \in in : w[j] \in Int
         PROVE  /\ SumOver(w, in) = SumOver(w, standing) + SumOver(w, originals)
                                      + SumOver(w, undoing)
                /\ SumOver(w, standing) \in Int /\ SumOver(w, originals) \in Int
                /\ SumOver(w, undoing) \in Int
    <2>1. /\ \A j \in standing : w[j] \in Int
          /\ \A j \in originals : w[j] \in Int
          /\ \A j \in undoing : w[j] \in Int
          /\ \A j \in standing \cup originals : w[j] \in Int
          /\ \A j \in (standing \cup originals) \cup undoing : w[j] \in Int
      BY <1>6, <1>10
    <2>2. SumOver(w, (standing \cup originals) \cup undoing)
            = SumOver(w, standing \cup originals) + SumOver(w, undoing)
      BY <1>6, <1>9, <2>1, SumUnion
    <2>3. SumOver(w, standing \cup originals) = SumOver(w, standing) + SumOver(w, originals)
      BY <1>6, <1>9, <2>1, SumUnion
    <2>4. /\ SumOver(w, standing) \in Int /\ SumOver(w, originals) \in Int
          /\ SumOver(w, undoing) \in Int
      BY <1>9, <2>1, SumInt
    <2>5. QED BY <1>6, <2>2, <2>3, <2>4
  <1>11. SumOver(net, standing) = SumOver(d, standing) - SumOver(c, standing)
    BY <1>4, <1>6, <1>7, <1>9, SumMinus
  <1>12. SumOver(d, in) - SumOver(c, in) = SumOver(net, standing)
    BY <1>2, <1>4, <1>10, <1>11
  <1>13. TrialBalance(tenant, book, date)[r].debit - TrialBalance(tenant, book, date)[r].credit
           = MapThenSumSet(LAMBDA j : j.lines[r].debit - j.lines[r].credit, standing)
    BY <1>5, <1>8, <1>12
  <1>14. QED BY <1>13 DEF in, standing

\* ReversedJournalsCancel: after any sequence of posts and reversals a trial
\* balance through any date shows the originals not reversed by that date.
THEOREM ReversedJournalsCancelHolds == Spec => []ReversedJournalsCancel
<1>1. Init => BooksMirrored
  BY FS_EmptySet DEF Init, BooksMirrored
<1>2. BooksMirrored /\ [Next]_ledger => BooksMirrored'
  <2> SUFFICES ASSUME BooksMirrored, [Next]_ledger
               PROVE  BooksMirrored'
    OBVIOUS
  <2>1. ASSUME NEW policy \in Policies, NEW p \in Proposals, Post(p, policy)
        PROVE  BooksMirrored'
    BY <2>1, CommandsAssumption, PostMirrored
  <2>2. ASSUME NEW policy \in Policies, NEW c \in ReversalCommands, Reverse(c, policy)
        PROVE  BooksMirrored'
    BY <2>2, ReverseMirrored
  <2>3. CASE UNCHANGED ledger
    BY <2>3, SameMirrored DEF ledger
  <2> QED  BY <2>1, <2>2, <2>3 DEF Next
<1> QED  BY <1>1, <1>2, MirroredCancel, StaysConsistent, PTL DEF Spec

-----------------------------------------------------------------------------
(* The callers of accept_journal_proposal *)

\* A writer that goes on to read its receipt has one to read: the journal of
\* its key and hash is committed, by itself or by the delivery it replays.
Backed(w) == At(w, "receipt") =>
                \E c \in Cached(posting[w].item) : c.hash = posting[w].item.hash
Announced == {Event(j.tenant, j.ref) : j \in journals}
IntakeConsistent ==
    /\ Consistent
    /\ events \in Seq(Announced)
    /\ OneEventPerJournal
    /\ DOMAIN posting = Writers
    /\ \A w \in Writers : Backed(w)
    /\ AnswersAgree

-----------------------------------------------------------------------------
(* What a step may do to the answers and to the events *)

\* The ledger is append-only: an answer that agreed with it still does.
LEMMA AnswersStayRight ==
    ASSUME AnswersAgree, journals \subseteq journals', receipts \subseteq receipts',
           answers' = answers
    PROVE  AnswersAgree'
BY DEF AnswersAgree, Cached, Journals

\* A writer that keeps its place stays backed, as receipts are only added.
LEMMA WritersStayBacked ==
    ASSUME NEW w \in Writers, Backed(w), receipts \subseteq receipts',
           posting'[w] = posting[w]
    PROVE  Backed(w)'
BY DEF Backed, At, Cached

\* One more journal and its event in the same COMMIT.
LEMMA OneMoreEvent ==
    ASSUME NEW j0, events \in Seq(Announced), OneEventPerJournal,
           \A j \in journals : ~(j.tenant = j0.tenant /\ j.ref = j0.ref),
           journals' = journals \cup {j0},
           events' = Append(events, Event(j0.tenant, j0.ref))
    PROVE  events' \in Seq(Announced') /\ OneEventPerJournal'
<1> DEFINE e0 == Event(j0.tenant, j0.ref)
<1>1. Announced' = Announced \cup {e0}
  BY DEF Announced
<1>2. e0 \notin Announced
  BY DEF Announced, Event
<1>3. e0 \in Announced' /\ events \in Seq(Announced')
  <2>1. \A n \in 1..Len(events) : events[n] \in Announced'
    BY <1>1
  <2> QED  BY <1>1, <2>1
<1> HIDE DEF e0
<1>4. events' = Append(events, e0)
  BY DEF e0
<1>5. events' \in Seq(Announced')
  BY <1>3, <1>4
<1>6. /\ Len(events) \in Nat /\ Len(events') = Len(events) + 1
      /\ \A n \in 1..Len(events) : events'[n] = events[n] /\ events[n] \in Announced
      /\ events'[Len(events) + 1] = e0
  BY <1>4, <1>3
<1>7. {events'[n] : n \in 1..Len(events')} = {events[n] : n \in 1..Len(events)} \cup {e0}
  <2>1. 1..Len(events') = (1..Len(events)) \cup {Len(events) + 1}
    BY <1>6
  <2> QED  BY <2>1, <1>6
<1>8. {events'[n] : n \in 1..Len(events')} = Announced'
  BY <1>1, <1>7 DEF OneEventPerJournal, Announced
<1>9. \A m, n \in 1..Len(events') : events'[m] = events'[n] => m = n
  <2> SUFFICES ASSUME NEW m \in 1..Len(events'), NEW n \in 1..Len(events'),
                      events'[m] = events'[n]
               PROVE  m = n
    OBVIOUS
  <2>1. CASE m \in 1..Len(events) /\ n \in 1..Len(events)
    BY <2>1, <1>6 DEF OneEventPerJournal
  <2>2. CASE m = Len(events) + 1 /\ n \in 1..Len(events)
    BY <2>2, <1>2, <1>6 DEF e0
  <2>3. CASE n = Len(events) + 1 /\ m \in 1..Len(events)
    BY <2>3, <1>2, <1>6 DEF e0
  <2>4. CASE m = Len(events) + 1 /\ n = Len(events) + 1
    BY <2>4
  <2> QED  BY <2>1, <2>2, <2>3, <2>4, <1>6
<1> QED  BY <1>5, <1>8, <1>9 DEF OneEventPerJournal, Announced

\* Steps that write no journal: what is left is that each writer is backed and
\* that the answers agree.
LEMMA NoJournalWritten ==
    ASSUME IntakeConsistent, UNCHANGED <<ledger, events>>,
           DOMAIN posting' = Writers, \A v \in Writers : Backed(v)', AnswersAgree'
    PROVE  IntakeConsistent'
<1>1. Consistent'
  BY StutterConsistent DEF IntakeConsistent
<1>2. events' \in Seq(Announced') /\ OneEventPerJournal'
  BY DEF IntakeConsistent, Announced, OneEventPerJournal, ledger
<1> QED  BY <1>1, <1>2 DEF IntakeConsistent

\* A writer that enters any stage but "receipt", or none, needs no receipt.
LEMMA NothingAnswered ==
    ASSUME IntakeConsistent, UNCHANGED <<ledger, events, answers>>,
           NEW w \in Writers, NEW next, posting' = [posting EXCEPT ![w] = next],
           next = NoProposal \/ next.stage # "receipt"
    PROVE  IntakeConsistent'
<1>1. DOMAIN posting' = Writers /\ posting'[w] = next
  BY DEF IntakeConsistent
<1>2. receipts' = receipts /\ journals' = journals
  BY DEF ledger
<1>3. \A v \in Writers : Backed(v)'
  <2> SUFFICES ASSUME NEW v \in Writers
               PROVE  Backed(v)'
    OBVIOUS
  <2>1. CASE v = w
    BY <2>1, <1>1 DEF Backed, At
  <2>2. CASE v # w
    BY <2>2, <1>2, WritersStayBacked DEF IntakeConsistent
  <2> QED  BY <2>1, <2>2
<1>4. AnswersAgree'
  BY <1>2, AnswersStayRight DEF IntakeConsistent
<1> QED  BY <1>1, <1>3, <1>4, NoJournalWritten

\* An HTTP answer that agrees with the ledger; a pull's answer is its list.
LEMMA OutcomeConsistent ==
    ASSUME IntakeConsistent, NEW w \in Writers, NEW code, NEW ref, Outcome(w, code, ref),
           code = "posted" => \E c \in Cached(posting[w].item) :
                                 c.ref = ref /\ c.hash = posting[w].item.hash,
           code = "idempotency_conflict" => Conflicts(posting[w].item)
    PROVE  IntakeConsistent'
<1>1. /\ posting' = [posting EXCEPT ![w] = NoProposal]
      /\ UNCHANGED <<ledger, events>>
  BY DEF Outcome, Done
<1>2. receipts' = receipts /\ journals' = journals
  BY <1>1 DEF ledger
<1>3. CASE answers' = answers
  BY <1>1, <1>3, NothingAnswered
<1>4. CASE answers' = answers \cup {[item |-> posting[w].item, code |-> code, ref |-> ref]}
  <2> DEFINE a0 == [item |-> posting[w].item, code |-> code, ref |-> ref]
  <2>1. a0.item = posting[w].item /\ a0.code = code /\ a0.ref = ref
    OBVIOUS
  <2> HIDE DEF a0
  <2>2. answers' = answers \cup {a0}
    BY <1>4 DEF a0
  <2>3. code = "posted" => /\ \E c \in Cached(a0.item) : c.ref = a0.ref /\ c.hash = a0.item.hash
                           /\ Journals(a0.item.tenant, a0.ref) # {}
    <3> SUFFICES ASSUME code = "posted"
                 PROVE  /\ \E c \in Cached(a0.item) : c.ref = a0.ref /\ c.hash = a0.item.hash
                        /\ Journals(a0.item.tenant, a0.ref) # {}
      OBVIOUS
    <3>1. PICK c \in Cached(a0.item) : c.ref = a0.ref /\ c.hash = a0.item.hash
      BY <2>1
    <3>2. c \in receipts /\ c.tenant = a0.item.tenant
      BY DEF Cached
    <3>3. <<c.tenant, c.ref>>
            \in {<<j.tenant, j.ref>> : j \in {k \in journals : k.reverses = NoRef}}
      BY <3>2 DEF IntakeConsistent, Consistent, CachesMatchJournals
    <3>4. PICK j \in journals : j.tenant = c.tenant /\ j.ref = c.ref
      BY <3>3
    <3> QED  BY <3>1, <3>2, <3>4 DEF Journals
  <2>4. code = "idempotency_conflict" => \E c \in Cached(a0.item) : c.hash # a0.item.hash
    BY <2>1 DEF Conflicts
  <2>5. AnswersAgree'
    BY <1>2, <2>1, <2>2, <2>3, <2>4
       DEF IntakeConsistent, AnswersAgree, Cached, Journals
  <2>6. DOMAIN posting' = Writers
    BY <1>1 DEF IntakeConsistent
  <2>7. \A v \in Writers : Backed(v)'
    <3> SUFFICES ASSUME NEW v \in Writers
                 PROVE  Backed(v)'
      OBVIOUS
    <3>1. CASE v = w
      BY <3>1, <1>1 DEF Backed, At, IntakeConsistent
    <3>2. CASE v # w
      BY <3>2, <1>1, <1>2, WritersStayBacked DEF IntakeConsistent
    <3> QED  BY <3>1, <3>2
  <2> QED  BY <1>1, <2>5, <2>6, <2>7, NoJournalWritten
<1> QED  BY <1>3, <1>4 DEF Outcome

-----------------------------------------------------------------------------
(* accept_journal_proposal, one transaction after the other *)

\* post_proposal up to its COMMIT, and a replay: the store does not change.
LEMMA InsertConsistent ==
    ASSUME IntakeConsistent, NEW w \in Writers, InsertPosting(w)
    PROVE  IntakeConsistent'
<1> DEFINE next == [item |-> posting[w].item, stage |-> "commit", policy |-> catalog]
<1>1. posting' = [posting EXCEPT ![w] = next] /\ next.stage # "receipt"
  BY DEF InsertPosting, Inserted
<1>2. UNCHANGED <<ledger, events, answers>>
  BY DEF InsertPosting
<1> HIDE DEF next
<1> QED  BY <1>1, <1>2, NothingAnswered

LEMMA ReplayConsistent ==
    ASSUME IntakeConsistent, NEW w \in Writers, ReplayPosting(w)
    PROVE  IntakeConsistent'
<1>1. /\ posting' = [posting EXCEPT ![w] = [item |-> posting[w].item, stage |-> "receipt"]]
      /\ UNCHANGED <<ledger, events, answers>>
      /\ receipts' = receipts /\ journals' = journals
  BY DEF ReplayPosting, Fetching, ledger
<1>2. DOMAIN posting' = Writers
  BY <1>1 DEF IntakeConsistent
<1>3. \A v \in Writers : Backed(v)'
  <2> SUFFICES ASSUME NEW v \in Writers
               PROVE  Backed(v)'
    OBVIOUS
  <2>1. CASE v = w
    <3>1. posting'[w].item = posting[w].item
      BY <1>1 DEF IntakeConsistent
    <3>2. \E c \in Cached(posting[w].item) : c.hash = posting[w].item.hash
      BY DEF ReplayPosting, Replays
    <3> QED  BY <2>1, <3>1, <3>2, <1>1 DEF Backed, Cached
  <2>2. CASE v # w
    BY <2>2, <1>1, WritersStayBacked DEF IntakeConsistent
  <2> QED  BY <2>1, <2>2
<1>4. AnswersAgree'
  BY <1>1, AnswersStayRight DEF IntakeConsistent
<1> QED  BY <1>1, <1>2, <1>3, <1>4, NoJournalWritten

\* COMMIT: the journal, its receipt and its event appear together, and the
\* writer's receipt with them.
LEMMA CommitConsistent ==
    ASSUME IntakeConsistent, NEW w \in Writers, CommitPosting(w)
    PROVE  IntakeConsistent'
<1> DEFINE p == posting[w].item
           j0 == [tenant |-> p.tenant, ref |-> <<"journal", p.id>>, book |-> p.book,
                  date |-> p.date, lines |-> p.lines, reverses |-> NoRef]
           c0 == [tenant |-> p.tenant, key |-> p.key, hash |-> p.hash,
                  ref |-> <<"journal", p.id>>]
<1>1. /\ Post(p, posting[w].policy)
      /\ events' = Append(events, Event(p.tenant, <<"journal", p.id>>))
      /\ posting' = [posting EXCEPT ![w] = [item |-> p, stage |-> "receipt"]]
      /\ answers' = answers
  BY DEF CommitPosting, EventOf, Fetching
<1>2. Consistent'
  BY <1>1, PostConsistent DEF IntakeConsistent
<1>3. /\ journals' = journals \cup {j0} /\ receipts' = receipts \cup {c0}
      /\ \A j \in journals : ~(j.tenant = j0.tenant /\ j.ref = j0.ref)
  BY <1>1 DEF Post, CanPost, Journals
<1>4. events' \in Seq(Announced') /\ OneEventPerJournal'
  <2>1. events' = Append(events, Event(j0.tenant, j0.ref))
    BY <1>1
  <2> HIDE DEF j0
  <2> QED  BY <1>3, <2>1, OneMoreEvent DEF IntakeConsistent
<1>5. DOMAIN posting' = Writers
  BY <1>1 DEF IntakeConsistent
<1>6. \A v \in Writers : Backed(v)'
  <2> SUFFICES ASSUME NEW v \in Writers
               PROVE  Backed(v)'
    OBVIOUS
  <2>1. CASE v = w
    <3>1. posting'[w].item = p
      BY <1>1 DEF IntakeConsistent
    <3>2. c0 \in receipts' /\ c0.tenant = p.tenant /\ c0.key = p.key /\ c0.hash = p.hash
      BY <1>3
    <3> HIDE DEF p, c0
    <3> QED  BY <2>1, <3>1, <3>2 DEF Backed, Cached
  <2>2. CASE v # w
    <3>1. posting'[v] = posting[v]
      BY <2>2, <1>1 DEF IntakeConsistent
    <3> QED  BY <3>1, <1>3, WritersStayBacked DEF IntakeConsistent
  <2> QED  BY <2>1, <2>2
<1>7. AnswersAgree'
  BY <1>1, <1>3, AnswersStayRight DEF IntakeConsistent
<1> QED  BY <1>2, <1>4, <1>5, <1>6, <1>7 DEF IntakeConsistent

\* A refusal: a conflict is told from a replay by the recorded hash.
LEMMA RefuseConsistent ==
    ASSUME IntakeConsistent, NEW w \in Writers, RefusePosting(w)
    PROVE  IntakeConsistent'
<1> DEFINE code == Refusal(posting[w].item)
<1>1. Outcome(w, code, NoRef)
  BY DEF RefusePosting
<1>2. code # "posted" /\ (code = "idempotency_conflict" => Conflicts(posting[w].item))
  BY DEF Refusal
<1> HIDE DEF code
<1> QED  BY <1>1, <1>2, OutcomeConsistent

\* The receipt that load_published_receipt finds under the key is the one of the
\* key's hash, for a key has one receipt.
LEMMA ReceiveConsistent ==
    ASSUME IntakeConsistent, NEW w \in Writers, ReceivePosting(w)
    PROVE  IntakeConsistent'
<1>1. PICK ref \in Published(posting[w].item) : Outcome(w, "posted", ref)
  BY DEF ReceivePosting
<1>2. PICK c \in Cached(posting[w].item) : c.ref = ref
  BY <1>1 DEF Published
<1>3. PICK d \in Cached(posting[w].item) : d.hash = posting[w].item.hash
  BY DEF ReceivePosting, IntakeConsistent, Backed
<1>4. c = d
  BY DEF Cached, IntakeConsistent, Consistent, CachesMatchJournals
<1> QED  BY <1>1, <1>2, <1>3, <1>4, OutcomeConsistent

LEMMA DisconnectedConsistent ==
    ASSUME IntakeConsistent, NEW w \in Writers, Disconnected(w)
    PROVE  IntakeConsistent'
<1>1. Outcome(w, "proposal_validation_failed", NoRef)
  BY DEF Disconnected
<1> QED  BY <1>1, OutcomeConsistent

\* A rollback, with or without a unique violation.
LEMMA DiesConsistent ==
    ASSUME IntakeConsistent, NEW w \in Writers, Dies(w)
    PROVE  IntakeConsistent'
BY NothingAnswered DEF Dies, Done

LEMMA AcceptConsistent ==
    ASSUME IntakeConsistent, NEW w \in Writers, Accept(w)
    PROVE  IntakeConsistent'
BY InsertConsistent, CommitConsistent, ReplayConsistent, RefuseConsistent,
   ReceiveConsistent, DiesConsistent DEF Accept, IdCollides

-----------------------------------------------------------------------------
(* The other actors *)

\* A writer takes a proposal: of its page, or of an HTTP request.
LEMMA TakesConsistent ==
    ASSUME IntakeConsistent, NEW w \in Writers, NEW p, Accepting(w, p), StoreUnchanged
    PROVE  IntakeConsistent'
<1> DEFINE next == [item |-> p, stage |-> "accept"]
<1>1. posting' = [posting EXCEPT ![w] = next] /\ next.stage # "receipt"
  BY DEF Accepting
<1> HIDE DEF next
<1> QED  BY <1>1, NothingAnswered DEF StoreUnchanged

\* A reversal commits with its event.
LEMMA ReversalConsistent ==
    ASSUME IntakeConsistent, Reversal
    PROVE  IntakeConsistent'
<1>1. PICK c \in ReversalCommands :
        /\ Reverse(c, catalog)
        /\ events' = Append(events, Event(catalog.tenant, <<"reversal", c.original[2]>>))
  BY DEF Reversal
<1>2. Consistent'
  BY <1>1, ReverseConsistent DEF IntakeConsistent
<1>3. PICK o \in journals :
        /\ Reversible(o, c, catalog)
        /\ journals' = journals \cup
             {[tenant |-> o.tenant, ref |-> <<"reversal", c.original[2]>>, book |-> o.book,
               date |-> c.date, lines |-> Swapped(o.lines), reverses |-> o.ref]}
  BY <1>1 DEF Reverse
<1> DEFINE j0 == [tenant |-> o.tenant, ref |-> <<"reversal", c.original[2]>>, book |-> o.book,
                  date |-> c.date, lines |-> Swapped(o.lines), reverses |-> o.ref]
<1>4. /\ j0.tenant = catalog.tenant /\ j0.ref = <<"reversal", c.original[2]>>
      /\ journals' = journals \cup {j0}
      /\ \A j \in journals : ~(j.tenant = j0.tenant /\ j.ref = j0.ref)
  BY <1>1, <1>3 DEF Reversible, Reverse, NotYetReversed, Journals
<1>5. events' = Append(events, Event(j0.tenant, j0.ref))
  BY <1>1, <1>4
<1>6. receipts' = receipts /\ posting' = posting /\ answers' = answers
  BY <1>1 DEF Reverse, Reversal
<1> HIDE DEF j0
<1>7. events' \in Seq(Announced') /\ OneEventPerJournal'
  BY <1>4, <1>5, OneMoreEvent DEF IntakeConsistent
<1>8. \A v \in Writers : Backed(v)'
  BY <1>6, WritersStayBacked DEF IntakeConsistent
<1>9. AnswersAgree'
  BY <1>4, <1>6, AnswersStayRight DEF IntakeConsistent
<1> QED  BY <1>2, <1>6, <1>7, <1>8, <1>9 DEF IntakeConsistent

\* Paging, a command, a period's close: nothing written, nobody answered.
LEMMA AsideConsistent ==
    ASSUME IntakeConsistent, UNCHANGED <<ledger, events, answers, posting>>
    PROVE  IntakeConsistent'
<1>1. receipts' = receipts /\ journals' = journals
  BY DEF ledger
<1>2. \A v \in Writers : Backed(v)'
  BY <1>1, WritersStayBacked DEF IntakeConsistent
<1>3. AnswersAgree'
  BY <1>1, AnswersStayRight DEF IntakeConsistent
<1> QED  BY <1>2, <1>3, NoJournalWritten DEF IntakeConsistent

-----------------------------------------------------------------------------

LEMMA InitIntakeConsistent == IntakeInit => IntakeConsistent
<1> SUFFICES ASSUME IntakeInit
             PROVE  IntakeConsistent
  OBVIOUS
<1>1. Consistent
  BY InitConsistent DEF IntakeInit
<1>2. events \in Seq(Announced) /\ OneEventPerJournal
  BY DEF IntakeInit, Init, OneEventPerJournal, Announced
<1>3. DOMAIN posting = Writers /\ \A w \in Writers : Backed(w)
  BY DEF IntakeInit, Backed, At
<1>4. AnswersAgree
  BY DEF IntakeInit, AnswersAgree
<1> QED  BY <1>1, <1>2, <1>3, <1>4 DEF IntakeConsistent

LEMMA NextIntakeConsistent == IntakeConsistent /\ [IntakeNext]_intakeVars => IntakeConsistent'
<1> SUFFICES ASSUME IntakeConsistent, [IntakeNext]_intakeVars
             PROVE  IntakeConsistent'
  OBVIOUS
<1>1. CASE BeginPull /\ UNCHANGED posting /\ StoreUnchanged
  BY <1>1, AsideConsistent DEF StoreUnchanged
<1>2. CASE Pull
  <2>1. CASE PullPages
    BY <2>1, AsideConsistent DEF PullPages, StoreUnchanged
  <2>2. CASE PullTakesItem
    <3>1. "pull" \in Writers
      BY DEF Writers
    <3> QED  BY <2>2, <3>1, TakesConsistent DEF PullTakesItem
  <2>3. CASE Accept("pull")
    BY <2>3, AcceptConsistent DEF Writers
  <2> QED  BY <1>2, <2>1, <2>2, <2>3 DEF Pull
<1>3. CASE HttpReceives
  <2>1. "http" \in Writers
    BY DEF Writers
  <2>2. PICK p \in Proposals : Accepting("http", p) /\ StoreUnchanged
    BY <1>3 DEF HttpReceives
  <2> QED  BY <2>1, <2>2, TakesConsistent
<1>4. CASE Accept("http")
  BY <1>4, AcceptConsistent DEF Writers
<1>5. CASE \E w \in Writers : Disconnected(w) \/ Dies(w)
  BY <1>5, DisconnectedConsistent, DiesConsistent
<1>6. CASE Reversal
  BY <1>6, ReversalConsistent
<1>7. CASE ClosePeriod
  BY <1>7, AsideConsistent DEF ClosePeriod
<1>8. CASE UNCHANGED intakeVars
  BY <1>8, AsideConsistent DEF intakeVars
<1> QED  BY <1>1, <1>2, <1>3, <1>4, <1>5, <1>6, <1>7, <1>8 DEF IntakeNext

LEMMA IntakeStaysConsistent == IntakeSpec => []IntakeConsistent
BY InitIntakeConsistent, NextIntakeConsistent, PTL DEF IntakeSpec

\* OneEventPerJournal: the outbox row is written in the COMMIT of its journal.
THEOREM OneEventPerJournalHolds == IntakeSpec => []OneEventPerJournal
<1>1. IntakeConsistent => OneEventPerJournal
  BY DEF IntakeConsistent
<1> QED  BY <1>1, IntakeStaysConsistent, PTL

\* AnswersAgree: what accept_journal_proposal answers over HTTP names the one
\* journal of the key, although it commits and reads in two transactions.
THEOREM AnswersAgreeHolds == IntakeSpec => []AnswersAgree
<1>1. IntakeConsistent => AnswersAgree
  BY DEF IntakeConsistent
<1> QED  BY <1>1, IntakeStaysConsistent, PTL

\* CachesMatchJournals: the callers of accept_journal_proposal, in any
\* interleaving and with any failures, keep the ledger as its own Spec does.
THEOREM CachesMatchInIntake == IntakeSpec => []CachesMatchJournals
<1>1. IntakeConsistent => CachesMatchJournals
  BY DEF IntakeConsistent, Consistent
<1> QED  BY <1>1, IntakeStaysConsistent, PTL

-----------------------------------------------------------------------------
(* The Billing pull: whatever pages Billing answers, and whatever others   *)
(* post meanwhile, a pull asks for no page twice and accounts for every    *)
(* item it fetched.                                                        *)


Cursors == {page.next : page \in Pages} \cup {NoCursor}
Items == UNION {{page.items[n] : n \in DOMAIN page.items} : page \in Pages}
Fetches == [cursor : Cursors, page : Pages]
FetchedCursors == {pull.fetched[n].cursor : n \in 1..Len(pull.fetched)}
ItemsLeft == {pull.page.items[n] : n \in 1..Len(pull.page.items)}

PullTyped ==
    /\ DOMAIN pull = {"stage", "cursor", "page", "seen", "fetched", "receipts", "rejected"}
    /\ DOMAIN pull.page = {"items", "next"}
    /\ pull.stage \in {"idle", "fetch", "page", "item", "done"}
    /\ pull.cursor \in Cursors /\ pull.page.next \in Cursors
    /\ pull.page.items \in Seq(Items)
    /\ pull.fetched \in Seq(Fetches)
\* The cursors seen are those fetched, but for the one the pull is at.
Known == FetchedCursors \ {NewCursor}
PageOrder ==
    /\ NoPageTwice
    /\ pull.stage = "fetch" => pull.cursor \notin Known /\ Known \ {NoCursor} \subseteq pull.seen
    /\ pull.stage \in {"page", "item"} => Known \ {NoCursor} \subseteq SeenCursors
\* What was asked for is answered or still on the page.
PageItems ==
    /\ pull.stage \in {"fetch", "done"} => pull.page.items = <<>>
    /\ pull.stage = "item" => pull.page.items # <<>>
    /\ Asked = Answered \cup ItemsLeft
\* What is being accepted for the pull is the item it is at.
Coupled == posting["pull"] # NoProposal => pull.stage = "item" /\ posting["pull"].item = Item
ReceiptRight(r) ==
    /\ Journals(r.item.tenant, r.ref) # {}
    /\ \E c \in Cached(r.item) : c.hash = r.item.hash /\ c.ref = r.ref
Looped == PullTyped /\ PageOrder /\ PageItems
PullConsistent == Looped /\ Coupled /\ \A r \in pull.receipts : ReceiptRight(r)
\* What a step lists as rejected was refused by that step's posting attempt, or
\* the connection was.
Raises(w, r) == RefusePosting(w) /\ r.item = posting[w].item /\ r.code = Refusal(r.item)
ListsItsRefusal == \A r \in pull'.rejected \ pull.rejected :
                      r.code = "proposal_validation_failed" \/ Raises("pull", r)

-----------------------------------------------------------------------------
(* Sequences *)

LEMMA AppendRange ==
    ASSUME NEW S, NEW s \in Seq(S), NEW x \in S
    PROVE  /\ Append(s, x) \in Seq(S) /\ Len(Append(s, x)) = Len(s) + 1
           /\ \A n \in 1..Len(s) : Append(s, x)[n] = s[n]
           /\ Append(s, x)[Len(s) + 1] = x
           /\ 1..Len(Append(s, x)) = (1..Len(s)) \cup {Len(s) + 1}
OBVIOUS

LEMMA TailRange ==
    ASSUME NEW S, NEW s \in Seq(S), s # <<>>
    PROVE  /\ Tail(s) \in Seq(S) /\ Head(s) \in S
           /\ {s[n] : n \in 1..Len(s)}
                 = {Tail(s)[n] : n \in 1..Len(Tail(s))} \cup {Head(s)}
<1>1. Tail(s) \in Seq(S) /\ Head(s) = s[1] /\ Len(s) \in Nat /\ Len(s) >= 1
      /\ Len(Tail(s)) = Len(s) - 1
      /\ \A n \in 1..Len(Tail(s)) : Tail(s)[n] = s[n + 1]
  OBVIOUS
<1>2. ASSUME NEW n \in 1..Len(s), n # 1
      PROVE  n - 1 \in 1..Len(Tail(s)) /\ Tail(s)[n - 1] = s[n]
  BY <1>1, <1>2
<1>3. \A n \in 1..Len(Tail(s)) : n + 1 \in 1..Len(s)
  BY <1>1
<1>4. 1 \in 1..Len(s)
  BY <1>1
<1> DEFINE t == Tail(s)
<1>5. \A n \in 1..Len(s) : n = 1 \/ \E m \in 1..Len(t) : t[m] = s[n]
  BY <1>2
<1>6. \A m \in 1..Len(t) : \E n \in 1..Len(s) : s[n] = t[m]
  BY <1>1, <1>3
<1>7. {s[n] : n \in 1..Len(s)} = {t[n] : n \in 1..Len(t)} \cup {Head(s)}
  <2> HIDE DEF t
  <2> QED  BY <1>1, <1>4, <1>5, <1>6
<1> QED  BY <1>1, <1>7

\* What Billing answers is a page of items.
LEMMA PagesTyped ==
    \A page \in Pages : /\ DOMAIN page = {"items", "next"}
                        /\ page.items \in Seq(Items) /\ page.next \in Cursors
<1> SUFFICES ASSUME NEW page \in Pages
             PROVE  /\ DOMAIN page = {"items", "next"}
                    /\ page.items \in Seq(Items) /\ page.next \in Cursors
  OBVIOUS
<1> DEFINE own == {page.items[n] : n \in DOMAIN page.items}
<1>1. page.items \in Seq(own) /\ DOMAIN page = {"items", "next"}
  BY PagesAssumption
<1>2. own \subseteq Items
  BY DEF Items
<1>3. page.next \in Cursors
  BY DEF Cursors
<1> HIDE DEF own
<1> QED  BY <1>1, <1>2, <1>3

-----------------------------------------------------------------------------
(* The page loop *)

\* A pull with nothing fetched.
LEMMA FreshLooped ==
    ASSUME pull'.stage \in {"idle", "fetch"}, pull'.cursor \in Cursors,
           DOMAIN pull' = DOMAIN Fresh, pull'.seen = Fresh.seen,
           pull'.page = Fresh.page, pull'.fetched = Fresh.fetched,
           pull'.receipts = Fresh.receipts, pull'.rejected = Fresh.rejected
    PROVE  Looped' /\ pull'.receipts = {} /\ pull'.rejected = {}
<1>1. /\ pull'.seen = {} /\ pull'.receipts = {} /\ pull'.rejected = {}
      /\ pull'.page = [items |-> <<>>, next |-> NoCursor] /\ pull'.fetched = <<>>
      /\ DOMAIN pull' = {"stage", "cursor", "page", "seen", "fetched", "receipts", "rejected"}
  BY DEF Fresh
<1>2. /\ DOMAIN pull'.page = {"items", "next"}
      /\ pull'.page.next = NoCursor /\ pull'.page.items = <<>>
  BY <1>1
<1>3. <<>> \in Seq(Items) /\ <<>> \in Seq(Fetches) /\ NoCursor \in Cursors
  BY DEF Cursors
<1>4. PullTyped'
  BY <1>1, <1>2, <1>3 DEF PullTyped
<1>5. FetchedCursors' = {} /\ ItemsLeft' = {}
  BY <1>1, <1>2 DEF FetchedCursors, ItemsLeft
<1>6. Asked' = {} /\ Answered' = {}
  BY <1>1 DEF Asked, Answered
<1>7. PageOrder'
  BY <1>1, <1>5 DEF PageOrder, NoPageTwice, Known
<1>8. PageItems'
  BY <1>2, <1>5, <1>6 DEF PageItems
<1> QED  BY <1>1, <1>4, <1>7, <1>8 DEF Looped

\* A command begins at any cursor, and an error forgets everything.
LEMMA BeginLooped ==
    ASSUME BeginPull
    PROVE  /\ Looped' /\ pull'.receipts = {} /\ pull'.rejected = {}
           /\ pull.stage = "idle" /\ pull'.stage = "fetch"
<1>1. PICK cursor \in Cursors : pull' = [Fresh EXCEPT !.stage = "fetch", !.cursor = cursor]
  BY DEF BeginPull, Cursors
<1>2. pull'.stage = "fetch" /\ pull'.cursor = cursor
  BY <1>1 DEF Fresh
<1>3. /\ DOMAIN pull' = DOMAIN Fresh /\ pull'.seen = Fresh.seen
      /\ pull'.page = Fresh.page /\ pull'.fetched = Fresh.fetched
      /\ pull'.receipts = Fresh.receipts /\ pull'.rejected = Fresh.rejected
  BY <1>1 DEF Fresh
<1> QED  BY <1>2, <1>3, FreshLooped DEF BeginPull

LEMMA FailLooped ==
    ASSUME Fail
    PROVE  /\ Looped' /\ pull'.receipts = {} /\ pull'.rejected = {}
           /\ pull'.stage = "idle"
<1>1. pull'.stage = "idle" /\ pull'.cursor \in Cursors
  BY DEF Fail, Fresh, Cursors
<1> QED  BY <1>1, FreshLooped DEF Fail

LEMMA FetchLooped ==
    ASSUME Looped, FetchPage
    PROVE  Looped' /\ pull'.receipts = pull.receipts /\ pull'.rejected = pull.rejected
<1>1. PICK page \in Pages :
        pull' = [pull EXCEPT !.stage = "page", !.page = page,
                             !.fetched = Append(@, [cursor |-> pull.cursor, page |-> page])]
  BY DEF FetchPage
<1> DEFINE f0 == [cursor |-> pull.cursor, page |-> page]
<1>2. /\ pull'.stage = "page" /\ pull'.page = page /\ pull'.cursor = pull.cursor
      /\ pull'.seen = pull.seen /\ pull'.fetched = Append(pull.fetched, f0)
      /\ pull'.receipts = pull.receipts /\ pull'.rejected = pull.rejected
      /\ DOMAIN pull' = DOMAIN pull
  BY <1>1 DEF Looped, PullTyped
<1>3. f0 \in Fetches /\ f0.cursor = pull.cursor /\ f0.page = page
      /\ pull.fetched \in Seq(Fetches)
  BY DEF Fetches, Looped, PullTyped
<1>4. pull.stage = "fetch"
  BY DEF FetchPage, MayFetch
<1> HIDE DEF f0
<1>5. PullTyped'
  BY <1>2, <1>3, PagesTyped, AppendRange DEF Looped, PullTyped
<1>6. FetchedCursors' = FetchedCursors \cup {pull.cursor}
  BY <1>2, <1>3, AppendRange DEF FetchedCursors
<1>7. NoPageTwice'
  <2> SUFFICES ASSUME NEW m \in 1..Len(pull'.fetched), NEW n \in 1..Len(pull'.fetched),
                      pull'.fetched[m].cursor # NewCursor,
                      pull'.fetched[m].cursor = pull'.fetched[n].cursor
               PROVE  m = n
    BY DEF NoPageTwice
  <2> DEFINE k == Len(pull.fetched)
  <2>1. /\ m \in 1..k \/ m = k + 1
        /\ n \in 1..k \/ n = k + 1
        /\ \A i \in 1..k : pull'.fetched[i] = pull.fetched[i]
        /\ pull'.fetched[k + 1].cursor = pull.cursor
    BY <1>2, <1>3, AppendRange
  <2>2. \A i \in 1..k : pull.fetched[i].cursor # NewCursor => pull.fetched[i].cursor # pull.cursor
    BY <1>4 DEF Looped, PageOrder, FetchedCursors, Known
  <2>3. \A i, j \in 1..k : /\ pull.fetched[i].cursor # NewCursor
                            /\ pull.fetched[i].cursor = pull.fetched[j].cursor
                            => i = j
    BY DEF Looped, PageOrder, NoPageTwice
  <2> HIDE DEF k
  <2> QED  BY <2>1, <2>2, <2>3
<1>8. PageOrder'
  BY <1>2, <1>4, <1>6, <1>7 DEF Looped, PageOrder, SeenCursors, Known
<1>9. Asked' = Asked \cup ItemsLeft'
  <2> DEFINE itemsOf(f) == {f.page.items[n] : n \in 1..Len(f.page.items)}
             before == {pull.fetched[n] : n \in 1..Len(pull.fetched)}
             after == {pull'.fetched[n] : n \in 1..Len(pull'.fetched)}
  <2>1. after = before \cup {f0}
    BY <1>2, <1>3, AppendRange
  <2>2. itemsOf(f0) = ItemsLeft'
    BY <1>2, <1>3 DEF ItemsLeft
  <2>3. Asked = UNION {itemsOf(f) : f \in before} /\ Asked' = UNION {itemsOf(f) : f \in after}
    BY DEF Asked
  <2> HIDE DEF itemsOf, before, after
  <2>4. UNION {itemsOf(f) : f \in before \cup {f0}}
          = (UNION {itemsOf(f) : f \in before}) \cup itemsOf(f0)
    OBVIOUS
  <2> QED  BY <2>1, <2>2, <2>3, <2>4
<1>10. PageItems'
  <2>1. Asked = Answered
    BY <1>4 DEF Looped, PageItems, ItemsLeft
  <2>2. Answered' = Answered
    BY <1>2 DEF Answered
  <2> QED  BY <1>2, <1>9, <2>1, <2>2 DEF PageItems
<1> QED  BY <1>2, <1>5, <1>8, <1>10 DEF Looped

\* Steps within a page fetch nothing.
LEMMA SamePages ==
    ASSUME pull'.fetched = pull.fetched
    PROVE  FetchedCursors' = FetchedCursors /\ Asked' = Asked /\ (NoPageTwice => NoPageTwice')
BY DEF FetchedCursors, Asked, NoPageTwice

LEMMA TakeLooped ==
    ASSUME Looped, TakeItem
    PROVE  /\ Looped' /\ pull'.receipts = pull.receipts /\ pull'.rejected = pull.rejected
           /\ pull.stage = "page" /\ pull'.stage = "item" /\ pull'.page = pull.page
<1>1. pull' = [pull EXCEPT !.stage = "item"] /\ pull.stage = "page" /\ pull.page.items # <<>>
  BY DEF TakeItem, Continue
<1>2. /\ pull'.stage = "item" /\ pull'.page = pull.page /\ pull'.cursor = pull.cursor
      /\ pull'.seen = pull.seen /\ pull'.fetched = pull.fetched /\ DOMAIN pull' = DOMAIN pull
      /\ pull'.receipts = pull.receipts /\ pull'.rejected = pull.rejected
  BY <1>1 DEF Looped, PullTyped
<1>3. PullTyped'
  BY <1>2 DEF Looped, PullTyped
<1>4. PageOrder'
  BY <1>1, <1>2, SamePages DEF Looped, PageOrder, SeenCursors, Known
<1>5. ItemsLeft' = ItemsLeft /\ Answered' = Answered
  BY <1>2 DEF ItemsLeft, Answered
<1>6. PageItems'
  BY <1>1, <1>2, <1>5, SamePages DEF Looped, PageItems
<1> QED  BY <1>1, <1>2, <1>3, <1>4, <1>6 DEF Looped

LEMMA NextPageLooped ==
    ASSUME Looped, NextPage
    PROVE  /\ Looped' /\ pull'.receipts = pull.receipts /\ pull'.rejected = pull.rejected
           /\ pull.stage = "page"
<1>1. /\ pull' = [pull EXCEPT !.stage = "fetch", !.cursor = pull.page.next, !.seen = SeenCursors]
      /\ pull.stage = "page" /\ pull.page.items = <<>>
      /\ pull.page.next # NoCursor /\ pull.page.next \notin SeenCursors
  BY DEF NextPage, PageDone
<1>2. /\ pull'.stage = "fetch" /\ pull'.page = pull.page /\ pull'.cursor = pull.page.next
      /\ pull'.seen = SeenCursors /\ pull'.fetched = pull.fetched /\ DOMAIN pull' = DOMAIN pull
      /\ pull'.receipts = pull.receipts /\ pull'.rejected = pull.rejected
  BY <1>1 DEF Looped, PullTyped
<1>3. PullTyped'
  BY <1>2 DEF Looped, PullTyped
<1>4. PageOrder'
  BY <1>1, <1>2, SamePages DEF Looped, PageOrder, Known
<1>5. ItemsLeft' = ItemsLeft /\ Answered' = Answered
  BY <1>2 DEF ItemsLeft, Answered
<1>6. PageItems'
  BY <1>1, <1>2, <1>5, SamePages DEF Looped, PageItems
<1> QED  BY <1>1, <1>2, <1>3, <1>4, <1>6 DEF Looped

LEMMA CompleteLooped ==
    ASSUME Looped, Complete
    PROVE  /\ Looped' /\ pull'.receipts = pull.receipts /\ pull'.rejected = pull.rejected
           /\ pull.stage = "page"
<1>1. /\ pull' = [pull EXCEPT !.stage = "done"]
      /\ pull.stage = "page" /\ pull.page.items = <<>>
  BY DEF Complete, PageDone, Continue
<1>2. /\ pull'.stage = "done" /\ pull'.page = pull.page /\ pull'.cursor = pull.cursor
      /\ pull'.seen = pull.seen /\ pull'.fetched = pull.fetched /\ DOMAIN pull' = DOMAIN pull
      /\ pull'.receipts = pull.receipts /\ pull'.rejected = pull.rejected
  BY <1>1 DEF Looped, PullTyped
<1>3. PullTyped'
  BY <1>2 DEF Looped, PullTyped
<1>4. PageOrder'
  BY <1>1, <1>2, SamePages DEF Looped, PageOrder, Known
<1>5. ItemsLeft' = ItemsLeft /\ Answered' = Answered
  BY <1>2 DEF ItemsLeft, Answered
<1>6. PageItems'
  BY <1>1, <1>2, <1>5, SamePages DEF Looped, PageItems
<1> QED  BY <1>1, <1>2, <1>3, <1>4, <1>6 DEF Looped

\* The outcome of an item takes it off the page.
LEMMA ConsumedLooped ==
    ASSUME Looped, pull.stage = "item", pull'.stage = "page",
           DOMAIN pull' = DOMAIN pull, DOMAIN pull'.page = DOMAIN pull.page,
           pull'.page.items = Tail(pull.page.items), pull'.page.next = pull.page.next,
           pull'.cursor = pull.cursor, pull'.seen = pull.seen, pull'.fetched = pull.fetched,
           Answered' = Answered \cup {Item}
    PROVE  Looped'
<1>1. pull.page.items \in Seq(Items) /\ pull.page.items # <<>>
  BY DEF Looped, PullTyped, PageItems
<1>2. Tail(pull.page.items) \in Seq(Items) /\ ItemsLeft = ItemsLeft' \cup {Item}
  BY <1>1, TailRange DEF ItemsLeft, Item
<1>3. PullTyped'
  BY <1>2 DEF Looped, PullTyped
<1>4. PageOrder'
  BY SamePages DEF Looped, PageOrder, SeenCursors, Known
<1>5. PageItems'
  BY <1>2, SamePages DEF Looped, PageItems
<1> QED  BY <1>3, <1>4, <1>5 DEF Looped

LEMMA ReceivedLooped ==
    ASSUME Looped, pull.stage = "item", NEW ref, Received(ref)
    PROVE  /\ Looped' /\ pull'.rejected = pull.rejected
           /\ pull'.receipts = pull.receipts \cup {[item |-> Item, ref |-> ref]}
<1>1. pull' = [Consumed EXCEPT !.receipts = @ \cup {[item |-> Item, ref |-> ref]}]
  BY DEF Received
<1>2. /\ pull'.stage = "page" /\ DOMAIN pull' = DOMAIN pull /\ DOMAIN pull'.page = DOMAIN pull.page
      /\ pull'.page.items = Tail(pull.page.items) /\ pull'.page.next = pull.page.next
      /\ pull'.cursor = pull.cursor /\ pull'.seen = pull.seen /\ pull'.fetched = pull.fetched
      /\ pull'.receipts = pull.receipts \cup {[item |-> Item, ref |-> ref]}
      /\ pull'.rejected = pull.rejected
  BY <1>1 DEF Consumed, Looped, PullTyped
<1>3. Answered' = Answered \cup {Item}
  <2> DEFINE r0 == [item |-> Item, ref |-> ref]
  <2>1. pull'.receipts = pull.receipts \cup {r0} /\ r0.item = Item
    BY <1>2
  <2> HIDE DEF r0
  <2> QED  BY <1>2, <2>1 DEF Answered
<1> QED  BY <1>2, <1>3, ConsumedLooped

LEMMA RefusedLooped ==
    ASSUME Looped, pull.stage = "item", NEW code, Refused(code)
    PROVE  /\ Looped' /\ pull'.receipts = pull.receipts
           /\ pull'.rejected = pull.rejected \cup {[item |-> Item, code |-> code]}
<1>1. pull' = [Consumed EXCEPT !.rejected = @ \cup {[item |-> Item, code |-> code]}]
  BY DEF Refused
<1>2. /\ pull'.stage = "page" /\ DOMAIN pull' = DOMAIN pull /\ DOMAIN pull'.page = DOMAIN pull.page
      /\ pull'.page.items = Tail(pull.page.items) /\ pull'.page.next = pull.page.next
      /\ pull'.cursor = pull.cursor /\ pull'.seen = pull.seen /\ pull'.fetched = pull.fetched
      /\ pull'.rejected = pull.rejected \cup {[item |-> Item, code |-> code]}
      /\ pull'.receipts = pull.receipts
  BY <1>1 DEF Consumed, Looped, PullTyped
<1>3. Answered' = Answered \cup {Item}
  <2> DEFINE r0 == [item |-> Item, code |-> code]
  <2>1. pull'.rejected = pull.rejected \cup {r0} /\ r0.item = Item
    BY <1>2
  <2> HIDE DEF r0
  <2> QED  BY <1>2, <2>1 DEF Answered
<1> QED  BY <1>2, <1>3, ConsumedLooped

-----------------------------------------------------------------------------
(* The pull among the other writers *)

\* The ledger is append-only: a receipt that named a journal still does.
LEMMA ReceiptsStayRight ==
    ASSUME NEW r, ReceiptRight(r), journals \subseteq journals', receipts \subseteq receipts'
    PROVE  ReceiptRight(r)'
BY DEF ReceiptRight, Journals, Cached

LEMMA LedgerSteps ==
    ASSUME [IntakeNext]_intakeVars
    PROVE  UNCHANGED ledger \/ (\E w \in Writers : CommitPosting(w)) \/ Reversal
<1>1. ASSUME NEW w \in Writers, Accept(w)
      PROVE  UNCHANGED ledger \/ CommitPosting(w)
  BY <1>1 DEF Accept, InsertPosting, ReplayPosting, RefusePosting, ReceivePosting, IdCollides,
              Outcome, Dies
<1> QED  BY <1>1 DEF IntakeNext, Pull, PullPages, PullTakesItem, HttpReceives, Disconnected, Dies,
              Outcome, ClosePeriod, StoreUnchanged, intakeVars, Writers

LEMMA LedgerGrows ==
    ASSUME [IntakeNext]_intakeVars
    PROVE  journals \subseteq journals' /\ receipts \subseteq receipts'
<1>1. CASE UNCHANGED ledger
  BY <1>1 DEF ledger
<1>2. CASE \E w \in Writers : CommitPosting(w)
  BY <1>2 DEF CommitPosting, Post
<1>3. CASE Reversal
  BY <1>3 DEF Reversal, Reverse
<1> QED  BY <1>1, <1>2, <1>3, LedgerSteps

\* Steps of others, and steps of the pull that only move its place.
LEMMA NothingPulled ==
    ASSUME PullConsistent, [IntakeNext]_intakeVars, pull' = pull,
           posting'["pull"] # NoProposal =>
               posting["pull"] # NoProposal /\ posting'["pull"].item = posting["pull"].item
    PROVE  PullConsistent' /\ ListsItsRefusal
<1>1. Looped'
  <2>1. Looped
    BY DEF PullConsistent
  <2>2. PullTyped'
    BY <2>1 DEF Looped, PullTyped
  <2>3. PageOrder'
    BY <2>1, SamePages DEF Looped, PageOrder, SeenCursors, Known
  <2>4. Answered' = Answered /\ ItemsLeft' = ItemsLeft
    BY DEF Answered, ItemsLeft
  <2>5. PageItems'
    BY <2>1, <2>4, SamePages DEF Looped, PageItems
  <2> QED  BY <2>2, <2>3, <2>5 DEF Looped
<1>2. Coupled'
  BY DEF PullConsistent, Coupled, Item
<1>3. \A r \in pull'.receipts : ReceiptRight(r)'
  BY LedgerGrows, ReceiptsStayRight DEF PullConsistent
<1> QED  BY <1>1, <1>2, <1>3 DEF PullConsistent, ListsItsRefusal

\* Steps of the page loop, while nothing is being accepted for the pull.
LEMMA PullMoves ==
    ASSUME PullConsistent, [IntakeNext]_intakeVars, Looped',
           pull'.receipts \in {pull.receipts, {}}, pull'.rejected \in {pull.rejected, {}},
           posting'["pull"] = NoProposal
    PROVE  PullConsistent' /\ ListsItsRefusal
<1>1. \A r \in pull'.receipts : ReceiptRight(r)'
  BY LedgerGrows, ReceiptsStayRight DEF PullConsistent
<1> QED  BY <1>1 DEF PullConsistent, Coupled, ListsItsRefusal

\* The outcome of an item: its receipt, a refused connection or its refusal.
LEMMA OutcomePulled ==
    ASSUME IntakeConsistent, PullConsistent, [IntakeNext]_intakeVars,
           NEW w \in Writers, NEW code, NEW ref, Outcome(w, code, ref), posting[w] # NoProposal,
           code = "posted" => \E c \in Cached(posting[w].item) :
                                 c.ref = ref /\ c.hash = posting[w].item.hash,
           \/ code \in {"posted", "proposal_validation_failed"}
           \/ RefusePosting(w) /\ code = Refusal(posting[w].item)
    PROVE  PullConsistent' /\ ListsItsRefusal
<1>1. posting' = [posting EXCEPT ![w] = NoProposal] /\ DOMAIN posting = Writers
  BY DEF Outcome, Done, IntakeConsistent
<1>2. CASE w # "pull"
  <2>1. pull' = pull /\ posting'["pull"] = posting["pull"]
    BY <1>1, <1>2 DEF Outcome, pullVars
  <2> QED  BY <2>1, NothingPulled
<1>3. CASE w = "pull"
  <2>1. pull.stage = "item" /\ posting["pull"].item = Item /\ posting'["pull"] = NoProposal
    BY <1>1, <1>3 DEF PullConsistent, Coupled
  <2>2. Looped
    BY DEF PullConsistent
  <2>3. CASE code = "posted"
    <3> DEFINE r0 == [item |-> Item, ref |-> ref]
    <3>1. Received(ref)
      BY <1>3, <2>3 DEF Outcome
    <3>2. Looped' /\ pull'.rejected = pull.rejected /\ pull'.receipts = pull.receipts \cup {r0}
      BY <2>1, <2>2, <3>1, ReceivedLooped
    <3>3. r0.item = Item /\ r0.ref = ref
      OBVIOUS
    <3> HIDE DEF r0
    <3>4. ReceiptRight(r0)
      <4>1. PICK c \in Cached(Item) : c.ref = ref /\ c.hash = Item.hash
        BY <1>3, <2>1, <2>3
      <4>2. c \in receipts /\ c.tenant = Item.tenant
        BY DEF Cached
      <4>3. <<c.tenant, c.ref>>
              \in {<<j.tenant, j.ref>> : j \in {k \in journals : k.reverses = NoRef}}
        BY <4>2 DEF IntakeConsistent, Consistent, CachesMatchJournals
      <4>4. PICK j \in journals : j.tenant = c.tenant /\ j.ref = c.ref
        BY <4>3
      <4> QED  BY <3>3, <4>1, <4>2, <4>4 DEF ReceiptRight, Journals
    <3>5. \A r \in pull'.receipts : ReceiptRight(r)'
      BY <3>2, <3>4, LedgerGrows, ReceiptsStayRight DEF PullConsistent
    <3> QED  BY <2>1, <3>2, <3>5 DEF PullConsistent, Coupled, ListsItsRefusal
  <2>4. CASE code # "posted"
    <3> DEFINE r0 == [item |-> Item, code |-> code]
    <3>1. Refused(code)
      BY <1>3, <2>4 DEF Outcome
    <3>2. Looped' /\ pull'.receipts = pull.receipts /\ pull'.rejected = pull.rejected \cup {r0}
      BY <2>1, <2>2, <3>1, RefusedLooped
    <3>3. r0.item = posting[w].item /\ r0.code = code
      BY <1>3, <2>1
    <3> HIDE DEF r0
    <3>4. ListsItsRefusal
      BY <1>3, <2>4, <3>2, <3>3 DEF ListsItsRefusal, Raises
    <3>5. \A r \in pull'.receipts : ReceiptRight(r)'
      BY <3>2, LedgerGrows, ReceiptsStayRight DEF PullConsistent
    <3> QED  BY <2>1, <3>2, <3>4, <3>5 DEF PullConsistent, Coupled
  <2> QED  BY <2>3, <2>4
<1> QED  BY <1>2, <1>3

\* accept_journal_proposal, for the pull or for an HTTP request.
LEMMA AcceptPulled ==
    ASSUME IntakeConsistent, PullConsistent, [IntakeNext]_intakeVars,
           NEW w \in Writers, Accept(w) \/ Disconnected(w) \/ Dies(w)
    PROVE  PullConsistent' /\ ListsItsRefusal
<1> USE DEF IntakeConsistent
<1>1. CASE InsertPosting(w) \/ CommitPosting(w) \/ ReplayPosting(w)
  <2>1. pull' = pull
    BY <1>1 DEF InsertPosting, CommitPosting, ReplayPosting, pullVars
  <2>2. PICK next : posting' = [posting EXCEPT ![w] = next] /\ next.item = posting[w].item
    BY <1>1 DEF InsertPosting, CommitPosting, ReplayPosting, Inserted, Fetching
  <2>3. posting[w] # NoProposal
    BY <1>1 DEF InsertPosting, CommitPosting, ReplayPosting, Entering, At
  <2>4. CASE w = "pull"
    BY <2>1, <2>2, <2>3, <2>4, NothingPulled
  <2>5. CASE w # "pull"
    <3>1. posting'["pull"] = posting["pull"]
      BY <2>2, <2>5
    <3> QED  BY <2>1, <3>1, NothingPulled
  <2> QED  BY <2>4, <2>5
<1>2. CASE RefusePosting(w)
  <2> DEFINE code == Refusal(posting[w].item)
  <2>1. Outcome(w, code, NoRef) /\ posting[w] # NoProposal /\ code # "none"
    BY <1>2 DEF RefusePosting, Entering, At
  <2>2. code # "posted"
    BY DEF Refusal
  <2>3. RefusePosting(w) /\ code = Refusal(posting[w].item)
    BY <1>2
  <2> HIDE DEF code
  <2> QED  BY <2>1, <2>2, <2>3, OutcomePulled
<1>3. CASE ReceivePosting(w)
  <2>1. PICK ref \in Published(posting[w].item) : Outcome(w, "posted", ref)
    BY <1>3 DEF ReceivePosting
  <2>2. PICK c \in Cached(posting[w].item) : c.ref = ref
    BY <2>1 DEF Published
  <2>3. PICK d \in Cached(posting[w].item) : d.hash = posting[w].item.hash
    BY <1>3 DEF ReceivePosting, Backed
  <2>4. c = d
    BY DEF Cached, Consistent, CachesMatchJournals
  <2>5. posting[w] # NoProposal
    BY <1>3 DEF ReceivePosting, At
  <2> QED  BY <2>1, <2>2, <2>3, <2>4, <2>5, OutcomePulled
<1>4. CASE Disconnected(w)
  <2>1. Outcome(w, "proposal_validation_failed", NoRef) /\ posting[w] # NoProposal
    BY <1>4 DEF Disconnected, At
  <2> QED  BY <2>1, OutcomePulled
<1>5. CASE Dies(w)
  <2>1. posting' = [posting EXCEPT ![w] = NoProposal]
    BY <1>5 DEF Dies, Done
  <2>2. CASE w = "pull"
    <3>1. Looped' /\ pull'.receipts = {} /\ pull'.rejected = {}
      BY <1>5, <2>2, FailLooped DEF Dies
    <3>2. posting'["pull"] = NoProposal
      BY <2>1, <2>2
    <3> QED  BY <3>1, <3>2, PullMoves
  <2>3. CASE w # "pull"
    <3>1. pull' = pull /\ posting'["pull"] = posting["pull"]
      BY <1>5, <2>1, <2>3 DEF Dies, pullVars
    <3> QED  BY <3>1, NothingPulled
  <2> QED  BY <2>2, <2>3
<1> QED  BY <1>1, <1>2, <1>3, <1>4, <1>5 DEF Accept, IdCollides

LEMMA PagesPulled ==
    ASSUME PullConsistent, [IntakeNext]_intakeVars, PullPages
    PROVE  PullConsistent' /\ ListsItsRefusal
<1>1. Looped /\ posting' = posting
  BY DEF PullConsistent, PullPages
<1>2. CASE Fail /\ pull.stage # "item"
  <2>1. posting["pull"] = NoProposal
    BY <1>2 DEF PullConsistent, Coupled
  <2> QED  BY <1>1, <1>2, <2>1, FailLooped, PullMoves
<1>3. CASE FetchPage
  <2>1. posting["pull"] = NoProposal
    BY <1>3 DEF PullConsistent, Coupled, FetchPage, MayFetch
  <2> QED  BY <1>1, <1>3, <2>1, FetchLooped, PullMoves
<1>4. CASE NextPage
  <2>1. posting["pull"] = NoProposal
    BY <1>4 DEF PullConsistent, Coupled, NextPage, PageDone
  <2> QED  BY <1>1, <1>4, <2>1, NextPageLooped, PullMoves
<1>5. CASE Complete
  <2>1. posting["pull"] = NoProposal
    BY <1>5 DEF PullConsistent, Coupled, Complete, PageDone
  <2> QED  BY <1>1, <1>5, <2>1, CompleteLooped, PullMoves
<1> QED  BY <1>2, <1>3, <1>4, <1>5
         DEF PullPages, Paging, FetchFails, TooManyPages, CursorDidNotAdvance, Deliver,
             MayFetch, PageDone

LEMMA TakesPulled ==
    ASSUME IntakeConsistent, PullConsistent, [IntakeNext]_intakeVars, PullTakesItem
    PROVE  PullConsistent' /\ ListsItsRefusal
<1>1. TakeItem /\ Looped /\ DOMAIN posting = Writers
  BY DEF PullTakesItem, PullConsistent, IntakeConsistent
<1>2. Looped' /\ pull'.receipts = pull.receipts /\ pull'.rejected = pull.rejected
      /\ pull'.stage = "item" /\ Item' = Item
  BY <1>1, TakeLooped DEF Item
<1>3. posting'["pull"].item = Item
  BY <1>1 DEF PullTakesItem, Accepting, Writers
<1>4. \A r \in pull'.receipts : ReceiptRight(r)'
  BY <1>2, LedgerGrows, ReceiptsStayRight DEF PullConsistent
<1> QED  BY <1>2, <1>3, <1>4 DEF PullConsistent, Coupled, ListsItsRefusal

-----------------------------------------------------------------------------

LEMMA InitPullConsistent == IntakeInit => PullConsistent
<1> SUFFICES ASSUME IntakeInit
             PROVE  PullConsistent
  OBVIOUS
<1>1. /\ pull.stage = "idle" /\ pull.cursor = NoCursor /\ pull.seen = {}
      /\ pull.page = [items |-> <<>>, next |-> NoCursor]
      /\ pull.fetched = <<>> /\ pull.receipts = {} /\ pull.rejected = {}
      /\ DOMAIN pull = {"stage", "cursor", "page", "seen", "fetched", "receipts", "rejected"}
  BY DEF IntakeInit, PullInit, Fresh
<1>2. /\ DOMAIN pull.page = {"items", "next"}
      /\ pull.page.next = NoCursor /\ pull.page.items = <<>>
  BY <1>1
<1>3. PullTyped
  BY <1>1, <1>2 DEF PullTyped, Cursors
<1>4. FetchedCursors = {} /\ ItemsLeft = {} /\ Asked = {} /\ Answered = {}
  BY <1>1, <1>2 DEF FetchedCursors, ItemsLeft, Asked, Answered
<1>5. PageOrder /\ PageItems
  BY <1>1, <1>2, <1>4 DEF PageOrder, PageItems, NoPageTwice, Known
<1>6. posting["pull"] = NoProposal
  BY DEF IntakeInit, Writers
<1> QED  BY <1>1, <1>3, <1>5, <1>6 DEF PullConsistent, Looped, Coupled

LEMMA NextPullConsistent ==
    IntakeConsistent /\ PullConsistent /\ [IntakeNext]_intakeVars
        => PullConsistent' /\ ListsItsRefusal
<1> SUFFICES ASSUME IntakeConsistent, PullConsistent, [IntakeNext]_intakeVars
             PROVE  PullConsistent' /\ ListsItsRefusal
  OBVIOUS
<1>1. CASE BeginPull /\ UNCHANGED posting
  <2>1. /\ Looped' /\ pull'.receipts = {} /\ pull'.rejected = {} /\ pull.stage = "idle"
    BY <1>1, BeginLooped
  <2>2. posting'["pull"] = NoProposal
    BY <1>1, <2>1 DEF PullConsistent, Coupled
  <2> QED  BY <2>1, <2>2, PullMoves
<1>2. CASE PullPages
  BY <1>2, PagesPulled
<1>3. CASE PullTakesItem
  BY <1>3, TakesPulled
<1>4. CASE HttpReceives
  <2>1. pull' = pull /\ posting'["pull"] = posting["pull"]
    BY <1>4 DEF HttpReceives, Accepting, IntakeConsistent, Writers
  <2> QED  BY <2>1, NothingPulled
<1>5. ASSUME NEW w \in Writers, Accept(w) \/ Disconnected(w) \/ Dies(w)
      PROVE  PullConsistent' /\ ListsItsRefusal
  BY <1>5, AcceptPulled
<1>6. CASE pull' = pull /\ posting' = posting
  BY <1>6, NothingPulled
<1> QED  BY <1>1, <1>2, <1>3, <1>4, <1>5, <1>6
         DEF IntakeNext, Pull, Reversal, ClosePeriod, intakeVars, pullVars, Writers

LEMMA PullStaysConsistent == IntakeSpec => [](IntakeConsistent /\ PullConsistent)
<1>1. IntakeConsistent /\ PullConsistent /\ [IntakeNext]_intakeVars => PullConsistent'
  BY NextPullConsistent
<1> QED  BY <1>1, InitPullConsistent, IntakeStaysConsistent, PTL DEF IntakeSpec

\* NoPageTwice: accept_pulled_proposals stops at any cursor it has asked for,
\* whatever pages Billing may answer.
THEOREM NoPageTwiceHolds == IntakeSpec => []NoPageTwice
<1>1. PullConsistent => NoPageTwice
  BY DEF PullConsistent, Looped, PageOrder
<1> QED  BY <1>1, PullStaysConsistent, PTL

\* PullAccountsForEveryItem: the lists a completed pull returns cover every
\* item of its pages, and its receipts are those of journals on record.
THEOREM PullAccountsForEveryItemHolds == IntakeSpec => []PullAccountsForEveryItem
<1>1. PullConsistent => PullAccountsForEveryItem
  <2> SUFFICES ASSUME PullConsistent, pull.stage = "done"
               PROVE  /\ Answered = Asked
                      /\ \A r \in pull.receipts : ReceiptRight(r)
    BY DEF PullAccountsForEveryItem, ReceiptRight
  <2>1. ItemsLeft = {}
    BY DEF PullConsistent, Looped, PageItems, ItemsLeft
  <2> QED  BY <2>1 DEF PullConsistent, Looped, PageItems
<1> QED  BY <1>1, PullStaysConsistent, PTL

-----------------------------------------------------------------------------
(* Refusals are final: a proposal that was refused for its period or for   *)
(* its key is not booked by a delivery of it that was underway.            *)

\* Of a closed period, nobody has inserted under the key and for the date, and
\* nobody will; of a conflict, the key is another proposal's.
ClosedToIt(p) ==
    /\ p.date \notin catalog.open
    /\ ~OnRecord(p)
    /\ \A w \in Writers : At(w, "commit") => posting[w].item.key # p.key
                                             \/ posting[w].item.date # p.date
FinalRefusal(r) == /\ r.code = "closed_period" => ClosedToIt(r.item)
                   /\ r.code = "idempotency_conflict" => Conflicts(r.item)
Refusals == pull.rejected \cup answers
FinalRefusals == \A r \in Refusals : FinalRefusal(r)

\* An HTTP answer too is a receipt, a refused connection or its refusal.
LEMMA AnswersAreRaised ==
    ASSUME [IntakeNext]_intakeVars
    PROVE  \A a \in answers' \ answers :
             a.code \in {"posted", "proposal_validation_failed"} \/ Raises("http", a)
<1>1. ASSUME NEW w \in Writers, NEW code, NEW ref, Outcome(w, code, ref),
             \/ code \in {"posted", "proposal_validation_failed"}
             \/ RefusePosting(w) /\ code = Refusal(posting[w].item)
      PROVE  \A a \in answers' \ answers :
               a.code \in {"posted", "proposal_validation_failed"} \/ Raises("http", a)
  <2>1. CASE w = "pull"
    BY <1>1, <2>1 DEF Outcome
  <2>2. CASE w = "http"
    <3> DEFINE a0 == [item |-> posting[w].item, code |-> code, ref |-> ref]
    <3>1. answers' = answers \cup {a0}
      BY <1>1, <2>2 DEF Outcome
    <3>2. a0.item = posting[w].item /\ a0.code = code
      OBVIOUS
    <3> HIDE DEF a0
    <3> QED  BY <1>1, <2>2, <3>1, <3>2 DEF Raises
  <2> QED  BY <2>1, <2>2 DEF Writers
<1>2. ASSUME NEW w \in Writers, Accept(w) \/ Disconnected(w) \/ Dies(w)
      PROVE  \A a \in answers' \ answers :
               a.code \in {"posted", "proposal_validation_failed"} \/ Raises("http", a)
  <2>1. CASE RefusePosting(w)
    <3>1. Outcome(w, Refusal(posting[w].item), NoRef)
      BY <2>1 DEF RefusePosting
    <3> QED  BY <1>1, <2>1, <3>1
  <2>2. CASE ReceivePosting(w)
    <3>1. PICK ref \in Published(posting[w].item) : Outcome(w, "posted", ref)
      BY <2>2 DEF ReceivePosting
    <3> QED  BY <1>1, <3>1
  <2>3. CASE Disconnected(w)
    <3>1. Outcome(w, "proposal_validation_failed", NoRef)
      BY <2>3 DEF Disconnected
    <3> QED  BY <1>1, <3>1
  <2>4. CASE answers' = answers
    BY <2>4
  <2> QED  BY <1>2, <2>1, <2>2, <2>3, <2>4
           DEF Accept, InsertPosting, CommitPosting, ReplayPosting, IdCollides, Dies
<1>3. CASE answers' = answers
  BY <1>3
<1> QED  BY <1>2, <1>3
         DEF IntakeNext, Pull, PullPages, PullTakesItem, HttpReceives, Reversal, ClosePeriod,
             StoreUnchanged, intakeVars, Writers

\* Only an INSERT brings a writer to its COMMIT, and only an open period lets it.
LEMMA CommitsAfterInsert ==
    ASSUME IntakeConsistent, [IntakeNext]_intakeVars
    PROVE  \A v \in Writers : At(v, "commit")' =>
              /\ At(v, "commit") \/ posting[v].item.date \in catalog.open
              /\ posting'[v].item = posting[v].item
<1> SUFFICES ASSUME NEW v \in Writers, At(v, "commit")'
             PROVE  /\ At(v, "commit") \/ posting[v].item.date \in catalog.open
                    /\ posting'[v].item = posting[v].item
  OBVIOUS
<1>1. CASE posting'[v] = posting[v]
  BY <1>1 DEF At
<1>2. ASSUME NEW w \in Writers, NEW next, posting' = [posting EXCEPT ![w] = next],
             next = NoProposal \/ next.stage # "commit"
      PROVE  posting'[v] = posting[v]
  <2>1. DOMAIN posting = Writers
    BY DEF IntakeConsistent
  <2>2. CASE v = w
    BY <1>2, <2>1, <2>2 DEF At
  <2> QED  BY <1>2, <2>1, <2>2
<1>3. ASSUME NEW w \in Writers, Accept(w) \/ Disconnected(w) \/ Dies(w)
      PROVE  /\ At(v, "commit") \/ posting[v].item.date \in catalog.open
             /\ posting'[v].item = posting[v].item
  <2>1. CASE InsertPosting(w)
    <3>1. posting[w].item.date \in catalog.open
      BY <2>1 DEF InsertPosting, CanPost, InScope
    <3>2. posting' = [posting EXCEPT ![w] = [item |-> posting[w].item, stage |-> "commit",
                                             policy |-> catalog]]
      BY <2>1 DEF InsertPosting, Inserted
    <3>3. DOMAIN posting = Writers
      BY DEF IntakeConsistent
    <3>4. CASE v = w
      BY <3>1, <3>2, <3>3, <3>4
    <3>5. CASE v # w
      BY <1>1, <3>2, <3>3, <3>5
    <3> QED  BY <3>4, <3>5
  <2>2. CASE CommitPosting(w) \/ ReplayPosting(w)
    <3> DEFINE next == [item |-> posting[w].item, stage |-> "receipt"]
    <3>1. posting' = [posting EXCEPT ![w] = next] /\ next.stage # "commit"
      BY <2>2 DEF CommitPosting, ReplayPosting, Fetching
    <3> HIDE DEF next
    <3> QED  BY <1>1, <1>2, <3>1
  <2>3. CASE posting' = [posting EXCEPT ![w] = NoProposal]
    BY <1>1, <1>2, <2>3
  <2> QED  BY <1>3, <2>1, <2>2, <2>3
           DEF Accept, RefusePosting, ReceivePosting, IdCollides, Disconnected, Dies, Outcome, Done
<1>4. CASE PullTakesItem \/ HttpReceives
  <2>0. PICK w \in Writers : \E p : Accepting(w, p)
    BY <1>4 DEF PullTakesItem, HttpReceives, Writers
  <2>1. PICK p : Accepting(w, p)
    BY <2>0
  <2> DEFINE next == [item |-> p, stage |-> "accept"]
  <2>2. posting' = [posting EXCEPT ![w] = next] /\ next.stage # "commit"
    BY <2>1 DEF Accepting
  <2> HIDE DEF next
  <2> QED  BY <1>1, <1>2, <2>2
<1>5. CASE posting' = posting
  BY <1>1, <1>5
<1> QED  BY <1>3, <1>4, <1>5
         DEF IntakeNext, Pull, PullPages, Reversal, ClosePeriod, intakeVars, Writers

\* Periods close and do not open again.
LEMMA PeriodsStayClosed ==
    ASSUME [IntakeNext]_intakeVars
    PROVE  \A date : date \notin catalog.open => date \notin catalog'.open
<1>1. CASE ClosePeriod
  <2>1. PICK date \in catalog.open : catalog' = [catalog EXCEPT !.open = @ \ {date}]
    BY <1>1 DEF ClosePeriod
  <2>2. CASE "open" \in DOMAIN catalog
    BY <2>1, <2>2
  <2>3. CASE "open" \notin DOMAIN catalog
    BY <2>1, <2>3
  <2> QED  BY <2>2, <2>3
<1>2. CASE catalog' = catalog
  BY <1>2
<1>3. ASSUME NEW w \in Writers, Accept(w) \/ Disconnected(w) \/ Dies(w)
      PROVE  catalog' = catalog
  BY <1>3 DEF Accept, InsertPosting, CommitPosting, ReplayPosting, RefusePosting,
              ReceivePosting, IdCollides, Disconnected, Dies, Outcome
<1> QED  BY <1>1, <1>2, <1>3
         DEF IntakeNext, Pull, PullPages, PullTakesItem, HttpReceives, Reversal,
             StoreUnchanged, intakeVars, Writers

\* A receipt's journal is on record before anything else is written.
LEMMA ReceiptHasJournal ==
    ASSUME Consistent, NEW c \in receipts
    PROVE  \E j \in journals : j.tenant = c.tenant /\ j.ref = c.ref
<1>1. <<c.tenant, c.ref>>
        \in {<<j.tenant, j.ref>> : j \in {k \in journals : k.reverses = NoRef}}
  BY DEF Consistent, CachesMatchJournals
<1> QED  BY <1>1

\* What a COMMIT writes puts on record only what its writer inserted.
LEMMA CommitRecords ==
    ASSUME IntakeConsistent, NEW w \in Writers, CommitPosting(w), NEW p, OnRecord(p)'
    PROVE  OnRecord(p) \/ (posting[w].item.key = p.key /\ posting[w].item.date = p.date)
<1> DEFINE q == posting[w].item
           j0 == [tenant |-> q.tenant, ref |-> <<"journal", q.id>>, book |-> q.book,
                  date |-> q.date, lines |-> q.lines, reverses |-> NoRef]
           c0 == [tenant |-> q.tenant, key |-> q.key, hash |-> q.hash,
                  ref |-> <<"journal", q.id>>]
<1>1. journals' = journals \cup {j0} /\ receipts' = receipts \cup {c0}
  BY DEF CommitPosting, Post
<1>2. \A j \in journals : ~(j.tenant = q.tenant /\ j.ref = <<"journal", q.id>>)
  BY DEF CommitPosting, Post, CanPost, Journals
<1>3. /\ j0.tenant = q.tenant /\ j0.ref = <<"journal", q.id>> /\ j0.date = q.date
      /\ c0.tenant = q.tenant /\ c0.ref = <<"journal", q.id>> /\ c0.key = q.key
  OBVIOUS
<1> HIDE DEF j0, c0, q
<1>4. PICK c \in receipts', j \in journals' :
        /\ c.tenant = p.tenant /\ c.key = p.key /\ c.hash = p.hash
        /\ j.tenant = p.tenant /\ j.ref = c.ref /\ j.date = p.date
  BY DEF OnRecord, Cached, Journals
<1>5. CASE c = c0
  BY <1>1, <1>2, <1>3, <1>4, <1>5 DEF q
<1>6. CASE c \in receipts /\ j \in journals
  BY <1>4, <1>6 DEF OnRecord, Cached, Journals
<1>7. CASE c \in receipts /\ j = j0
  BY <1>2, <1>3, <1>4, <1>7, ReceiptHasJournal DEF IntakeConsistent
<1> QED  BY <1>1, <1>4, <1>5, <1>6, <1>7

\* A reversal puts nothing on record: no receipt names it.
LEMMA ReversalRecords ==
    ASSUME IntakeConsistent, Reversal, NEW p, OnRecord(p)'
    PROVE  OnRecord(p)
<1>1. PICK command \in ReversalCommands : Reverse(command, catalog)
  BY DEF Reversal
<1>2. PICK o \in journals :
        /\ Reversible(o, command, catalog)
        /\ journals' = journals \cup
             {[tenant |-> o.tenant, ref |-> <<"reversal", command.original[2]>>, book |-> o.book,
               date |-> command.date, lines |-> Swapped(o.lines), reverses |-> o.ref]}
  BY <1>1 DEF Reverse
<1> DEFINE j0 == [tenant |-> o.tenant, ref |-> <<"reversal", command.original[2]>>,
                  book |-> o.book, date |-> command.date, lines |-> Swapped(o.lines),
                  reverses |-> o.ref]
<1>3. journals' = journals \cup {j0} /\ receipts' = receipts
  BY <1>1, <1>2 DEF Reverse
<1>4. j0.tenant = catalog.tenant /\ j0.ref = <<"reversal", command.original[2]>>
  BY <1>2 DEF Reversible
<1> HIDE DEF j0
<1>5. \A j \in journals : ~(j.tenant = j0.tenant /\ j.ref = j0.ref)
  BY <1>1, <1>4 DEF Reverse, NotYetReversed, Journals
<1>6. PICK c \in receipts', j \in journals' :
        /\ c.tenant = p.tenant /\ c.key = p.key /\ c.hash = p.hash
        /\ j.tenant = p.tenant /\ j.ref = c.ref /\ j.date = p.date
  BY DEF OnRecord, Cached, Journals
<1>7. j \in journals
  BY <1>3, <1>5, <1>6, ReceiptHasJournal DEF IntakeConsistent
<1> QED  BY <1>3, <1>6, <1>7 DEF OnRecord, Cached, Journals

\* A refusal that was final is: the delivery that might book the proposal yet
\* would hold the key's lock, and the period lets no other in.
LEMMA RefusalStaysFinal ==
    ASSUME IntakeConsistent, [IntakeNext]_intakeVars, NEW r, FinalRefusal(r)
    PROVE  FinalRefusal(r)'
<1>1. r.code = "idempotency_conflict" => Conflicts(r.item)'
  BY LedgerGrows DEF FinalRefusal, Conflicts, Cached
<1>2. ASSUME r.code = "closed_period"
      PROVE  ClosedToIt(r.item)'
  <2>1. ClosedToIt(r.item)
    BY <1>2 DEF FinalRefusal
  <2>2. r.item.date \notin catalog'.open
    BY <2>1, PeriodsStayClosed DEF ClosedToIt
  <2>3. ~OnRecord(r.item)'
    <3> SUFFICES ASSUME OnRecord(r.item)'
                 PROVE  FALSE
      OBVIOUS
    <3>1. CASE UNCHANGED ledger
      BY <2>1, <3>1 DEF ClosedToIt, OnRecord, Cached, Journals, ledger
    <3>2. ASSUME NEW w \in Writers, CommitPosting(w)
          PROVE  FALSE
      BY <2>1, <3>2, CommitRecords DEF ClosedToIt, CommitPosting
    <3>3. CASE Reversal
      BY <2>1, <3>3, ReversalRecords DEF ClosedToIt
    <3> QED  BY <3>1, <3>2, <3>3, LedgerSteps
  <2>4. \A w \in Writers : At(w, "commit")' => posting'[w].item.key # r.item.key
                                               \/ posting'[w].item.date # r.item.date
    BY <2>1, CommitsAfterInsert DEF ClosedToIt
  <2> QED  BY <2>2, <2>3, <2>4 DEF ClosedToIt
<1> QED  BY <1>1, <1>2 DEF FinalRefusal

\* A refusal is final from the start: who refuses holds the key's lock.
LEMMA RaisedIsFinal ==
    ASSUME IntakeConsistent, NEW w \in Writers, NEW r, Raises(w, r)
    PROVE  FinalRefusal(r)'
<1>1. /\ UNCHANGED <<ledger, catalog>> /\ posting' = [posting EXCEPT ![w] = NoProposal]
      /\ ~KeyLocked(w, r.item) /\ DOMAIN posting = Writers
  BY DEF Raises, RefusePosting, Outcome, Done, Entering, IntakeConsistent
<1>2. r.code = Refusal(r.item)
  BY DEF Raises
<1>3. r.code = "idempotency_conflict" => Conflicts(r.item)'
  BY <1>1, <1>2 DEF Refusal, Conflicts, Cached, ledger
<1>4. ASSUME r.code = "closed_period"
      PROVE  ClosedToIt(r.item)'
  <2>1. ~Replays(r.item) /\ r.item.date \notin catalog.open
    BY <1>2, <1>4 DEF Refusal
  <2>2. ~OnRecord(r.item)'
    BY <1>1, <2>1 DEF OnRecord, Replays, Cached, ledger
  <2>3. \A v \in Writers : At(v, "commit")' => posting'[v].item.key # r.item.key
    BY <1>1 DEF KeyLocked, At
  <2> QED  BY <1>1, <2>1, <2>2, <2>3 DEF ClosedToIt
<1> QED  BY <1>3, <1>4 DEF FinalRefusal

LEMMA NextFinalRefusals ==
    IntakeConsistent /\ PullConsistent /\ FinalRefusals /\ [IntakeNext]_intakeVars
        => FinalRefusals'
<1> SUFFICES ASSUME IntakeConsistent, PullConsistent, FinalRefusals, [IntakeNext]_intakeVars,
                    NEW r \in Refusals'
             PROVE  FinalRefusal(r)'
  BY DEF FinalRefusals
<1>1. CASE r \in Refusals
  BY <1>1, RefusalStaysFinal DEF FinalRefusals
<1>2. CASE r.code \in {"posted", "proposal_validation_failed"}
  BY <1>2 DEF FinalRefusal
<1>3. CASE Raises("pull", r) \/ Raises("http", r)
  BY <1>3, RaisedIsFinal DEF Writers
<1> QED  BY <1>1, <1>2, <1>3, NextPullConsistent, AnswersAreRaised
         DEF Refusals, ListsItsRefusal

\* RefusalsAreFinal: _persist_proposal looks for the key and at the period with
\* the key's command lock held, so a proposal refused for its period or its key
\* is not on record then or later, whoever delivers it and whatever is underway.
THEOREM RefusalsAreFinalHolds == IntakeSpec => []RefusalsAreFinal
<1>1. IntakeInit => FinalRefusals
  BY DEF IntakeInit, PullInit, Fresh, FinalRefusals, Refusals
<1>2. IntakeConsistent /\ FinalRefusals => RefusalsAreFinal
  <2> SUFFICES ASSUME IntakeConsistent, FinalRefusals, NEW r \in Refusals,
                      r.code \in {"closed_period", "idempotency_conflict"}, OnRecord(r.item)
               PROVE  FALSE
    BY DEF RefusalsAreFinal, Refusals
  <2>1. FinalRefusal(r)
    BY DEF FinalRefusals
  <2>2. CASE r.code = "closed_period"
    BY <2>1, <2>2 DEF FinalRefusal, ClosedToIt
  <2>3. CASE r.code = "idempotency_conflict"
    <3>1. PICK c \in Cached(r.item), d \in Cached(r.item) : c.hash # r.item.hash /\ d.hash = r.item.hash
      BY <2>1, <2>3 DEF FinalRefusal, Conflicts, OnRecord
    <3>2. c = d
      BY DEF Cached, IntakeConsistent, Consistent, CachesMatchJournals
    <3> QED  BY <3>1, <3>2
  <2> QED  BY <2>2, <2>3
<1> QED  BY <1>1, <1>2, NextFinalRefusals, PullStaysConsistent, PTL DEF IntakeSpec

-----------------------------------------------------------------------------
(* Balances: whatever way a proposal came, it was a JournalProposal *)

HttpItem == posting["http"] # NoProposal => posting["http"].item \in Proposals
CallersMirrored == BooksMirrored /\ HttpItem

\* What a writer is accepting is one of its inputs.
LEMMA AcceptedItem ==
    ASSUME PullConsistent, HttpItem, NEW w \in Writers, posting[w] # NoProposal
    PROVE  WellFormed(posting[w].item)
<1>1. CASE w = "http"
  BY <1>1, CommandsAssumption DEF HttpItem
<1>2. CASE w = "pull"
  <2>1. posting[w].item = Item /\ pull.page.items # <<>> /\ pull.page.items \in Seq(Items)
    BY <1>2 DEF PullConsistent, Looped, Coupled, PageItems, PullTyped
  <2>2. Item \in Items
    BY <2>1, TailRange DEF Item
  <2> QED  BY <2>1, <2>2, ItemsAssumption DEF Items
<1> QED  BY <1>1, <1>2 DEF Writers

LEMMA AcceptMirrored ==
    ASSUME IntakeConsistent, PullConsistent, CallersMirrored, NEW w \in Writers,
           Accept(w) \/ Disconnected(w) \/ Dies(w)
    PROVE  CallersMirrored'
<1>1. HttpItem'
  <2>1. \/ posting' = [posting EXCEPT ![w] = NoProposal]
        \/ /\ posting[w] # NoProposal
           /\ posting'[w].item = posting[w].item
           /\ \A v \in Writers \ {w} : posting'[v] = posting[v]
    BY DEF Accept, Disconnected, Dies, IdCollides, InsertPosting, CommitPosting, ReplayPosting,
           RefusePosting, ReceivePosting, Outcome, Done, Inserted, Fetching, Entering, At,
           IntakeConsistent
  <2>2. \/ posting'["http"] = NoProposal
        \/ posting["http"] # NoProposal /\ posting'["http"].item = posting["http"].item
    <3>1. DOMAIN posting = {"pull", "http"}
      BY DEF IntakeConsistent, Writers
    <3>2. CASE w = "http"
      <4>1. CASE posting' = [posting EXCEPT !["http"] = NoProposal]
        BY <3>1, <4>1
      <4> QED  BY <2>1, <3>2, <4>1
    <3>3. CASE w = "pull"
      <4>1. posting'["http"] = posting["http"]
        BY <2>1, <3>1, <3>3 DEF Writers
      <4> QED  BY <4>1
    <3> QED  BY <3>2, <3>3 DEF Writers
  <2> QED  BY <2>2 DEF CallersMirrored, HttpItem
<1>2. CASE CommitPosting(w)
  <2>1. Post(posting[w].item, posting[w].policy) /\ posting[w] # NoProposal
    BY <1>2 DEF CommitPosting, At
  <2>2. BooksMirrored'
    BY <2>1, AcceptedItem, PostMirrored DEF CallersMirrored
  <2> QED  BY <1>1, <2>2 DEF CallersMirrored
<1>3. CASE ~CommitPosting(w)
  <2>1. journals' = journals
    BY <1>3 DEF Accept, Disconnected, Dies, IdCollides, InsertPosting, ReplayPosting,
                RefusePosting, ReceivePosting, Outcome, ledger
  <2> QED  BY <1>1, <2>1, SameMirrored DEF CallersMirrored
<1> QED  BY <1>2, <1>3

LEMMA NextMirrored ==
    IntakeConsistent /\ PullConsistent /\ CallersMirrored /\ [IntakeNext]_intakeVars
        => CallersMirrored'
<1> SUFFICES ASSUME IntakeConsistent, PullConsistent, CallersMirrored,
                    [IntakeNext]_intakeVars
             PROVE  CallersMirrored'
  OBVIOUS
<1>1. ASSUME NEW w \in Writers, Accept(w) \/ Disconnected(w) \/ Dies(w)
      PROVE  CallersMirrored'
  BY <1>1, AcceptMirrored
<1>2. CASE HttpReceives
  <2>1. posting'["http"].item \in Proposals /\ journals' = journals
    BY <1>2 DEF HttpReceives, Accepting, StoreUnchanged, ledger, IntakeConsistent, Writers
  <2> QED  BY <2>1, SameMirrored DEF CallersMirrored, HttpItem
<1>3. CASE Reversal
  <2>1. PICK c \in ReversalCommands : Reverse(c, catalog)
    BY <1>3 DEF Reversal
  <2>2. BooksMirrored'
    BY <2>1, ReverseMirrored DEF CallersMirrored
  <2> QED  BY <1>3, <2>2 DEF Reversal, CallersMirrored, HttpItem
<1>4. CASE PullTakesItem
  <2>1. posting'["http"] = posting["http"] /\ journals' = journals
    BY <1>4 DEF PullTakesItem, Accepting, StoreUnchanged, ledger, IntakeConsistent, Writers
  <2> QED  BY <2>1, SameMirrored DEF CallersMirrored, HttpItem
<1>5. CASE journals' = journals /\ posting' = posting
  BY <1>5, SameMirrored DEF CallersMirrored, HttpItem
<1> QED  BY <1>1, <1>2, <1>3, <1>4, <1>5
         DEF IntakeNext, Pull, PullPages, StoreUnchanged, ClosePeriod, intakeVars, ledger, Writers

\* ReversedJournalsCancel: and so it is for the journals that a pull and HTTP
\* clients post and controllers reverse, in any interleaving and with failures.
THEOREM ReversedJournalsCancelInIntake == IntakeSpec => []ReversedJournalsCancel
<1>1. IntakeInit => CallersMirrored
  BY FS_EmptySet DEF IntakeInit, Init, CallersMirrored, BooksMirrored, HttpItem, Writers
<1>2. IntakeConsistent /\ CallersMirrored => ReversedJournalsCancel
  BY MirroredCancel DEF IntakeConsistent, CallersMirrored
<1> QED  BY <1>1, <1>2, NextMirrored, PullStaysConsistent, PTL DEF IntakeSpec
=============================================================================
