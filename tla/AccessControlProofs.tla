------------------------ MODULE AccessControlProofs ------------------------
(***************************************************************************)
(* Decisions follow the configuration.  Which row and which family decide  *)
(* is a maximum in the code (max of the candidates' tuples, the last of    *)
(* the sorted entries that matches): finite tables have such maxima, the   *)
(* orders being strict, and they are what RFC 3415's narrowing leaves.     *)
(* The invariant: a copy the model keeps is the table as it is, tables are *)
(* finite with indices and views of the users' own, and the rows of the    *)
(* calls in force are there.                                               *)
(***************************************************************************)
EXTENDS AccessControl, FiniteSetTheorems, SequenceTheorems, WellFoundedInduction, TLAPS

-----------------------------------------------------------------------------
(* Orders.                                                                 *)

\* A finite set has an element nothing comes after in a strict partial order: the one
\* with the least set of those after it.
LEMMA LastExists ==
    ASSUME NEW S, IsFiniteSet(S), S # {}, NEW R,
           \A x \in S : <<x, x>> \notin R,
           \A x, y, z \in S : <<x, y>> \in R /\ <<y, z>> \in R => <<x, z>> \in R
    PROVE  \E x \in S : \A y \in S : <<x, y>> \notin R
<1> DEFINE Later(x) == {y \in S : <<x, y>> \in R}
           T == {Later(x) : x \in S}
<1>1. T \subseteq FiniteSubsetsOf(S)
  <2>1. \A x \in S : Later(x) \in SUBSET S
    OBVIOUS
  <2>2. T \subseteq SUBSET S
    <3> HIDE DEF Later
    <3> QED
      BY <2>1
  <2> QED
    BY <2>2, FS_FiniteSubsetsOfFinite, Zenon
<1>2. T # {}
  <2>1. PICK x \in S : TRUE
    OBVIOUS
  <2>2. Later(x) \in T
    OBVIOUS
  <2> QED
    BY <2>2
<1>3. IsWellFoundedOn(StrictSubsetOrdering(S), FiniteSubsetsOf(S))
  BY FS_StrictSubsetOrderingWellFounded
<1>4. PICK U \in T : \A V \in T : ~ (<<V, U>> \in StrictSubsetOrdering(S))
  <2> HIDE DEF T
  <2> QED
    BY <1>1, <1>2, <1>3, WFMin
<1>5. PICK x \in S : U = Later(x)
  OBVIOUS
<1>6. ASSUME NEW y \in S, <<x, y>> \in R PROVE FALSE
  <2>1. Later(y) \subseteq Later(x) /\ Later(y) # Later(x)
    BY <1>6
  <2>2. <<Later(y), Later(x)>> \in StrictSubsetOrdering(S)
    BY <2>1 DEF StrictSubsetOrdering
  <2> QED
    BY <2>2, <1>4, <1>5
<1> QED
  BY <1>6

\* Prefixes, element by element.
LEMMA PrefixByElements ==
    ASSUME NEW S, NEW a \in Seq(S), NEW b \in Seq(S)
    PROVE  IsPrefix(a, b) <=> Len(a) <= Len(b) /\ \A i \in 1 .. Len(a) : a[i] = b[i]
<1>1. Len(a) \in Nat /\ Len(b) \in Nat
  OBVIOUS
<1>2. CASE Len(a) <= Len(b)
  <2>1. /\ SubSeq(a, 1, Len(a)) \in Seq(S) /\ Len(SubSeq(a, 1, Len(a))) = Len(a)
        /\ \A i \in 1 .. Len(a) : SubSeq(a, 1, Len(a))[i] = a[i]
    BY <1>1, SubSeqProperties
  <2>2. /\ SubSeq(b, 1, Len(a)) \in Seq(S) /\ Len(SubSeq(b, 1, Len(a))) = Len(a)
        /\ \A i \in 1 .. Len(a) : SubSeq(b, 1, Len(a))[i] = b[i]
    BY <1>1, <1>2, SubSeqProperties
  <2>3. SubSeq(a, 1, Len(a)) = SubSeq(b, 1, Len(a)) <=> \A i \in 1 .. Len(a) : a[i] = b[i]
    <3>1. ASSUME \A i \in 1 .. Len(a) : a[i] = b[i] PROVE SubSeq(a, 1, Len(a)) = SubSeq(b, 1, Len(a))
      <4>1. \A i \in 1 .. Len(SubSeq(a, 1, Len(a))) : SubSeq(a, 1, Len(a))[i] = SubSeq(b, 1, Len(a))[i]
        BY <2>1, <2>2, <3>1
      <4> QED
        BY <2>1, <2>2, <4>1, SeqEqual, Zenon
    <3> QED
      BY <2>1, <2>2, <3>1
  <2> QED
    BY <1>2, <2>3 DEF IsPrefix
<1> QED
  BY <1>1, <1>2 DEF IsPrefix

\* Of tuples of one length, none is a prefix of another.
LEMMA PrecedesByElements ==
    ASSUME NEW a \in Seq(Nat), NEW b \in Seq(Nat), Len(a) = Len(b)
    PROVE  Precedes(a, b) <=> \E i \in 1 .. Len(a) : a[i] < b[i] /\ \A j \in 1 .. i - 1 : a[j] = b[j]
<1>1. DOMAIN a = 1 .. Len(a) /\ DOMAIN b = 1 .. Len(a)
  OBVIOUS
<1>2. Len(a) \in Nat /\ ~(Len(a) < Len(b))
  OBVIOUS
<1> QED
  BY <1>1, <1>2 DEF Precedes

\* The order of tuples of one length is a strict one.
LEMMA PrecedesIsStrict ==
    ASSUME NEW a \in Seq(Nat), NEW b \in Seq(Nat), NEW c \in Seq(Nat),
           Len(a) = Len(b), Len(b) = Len(c)
    PROVE  ~Precedes(a, a) /\ (Precedes(a, b) /\ Precedes(b, c) => Precedes(a, c))
<1>1. \A s \in Seq(Nat) : Len(s) \in Nat /\ \A i \in 1 .. Len(s) : s[i] \in Nat
  OBVIOUS
<1>2. ~Precedes(a, a)
  <2>1. \A i \in 1 .. Len(a) : ~(a[i] < a[i])
    BY <1>1
  <2>2. Precedes(a, a) => \E i \in 1 .. Len(a) : a[i] < a[i]
    BY PrecedesByElements, Zenon
  <2> QED
    BY <2>1, <2>2
<1>3. ASSUME Precedes(a, b), Precedes(b, c) PROVE Precedes(a, c)
  <2>1. PICK i \in 1 .. Len(a) : a[i] < b[i] /\ \A k \in 1 .. i - 1 : a[k] = b[k]
    BY <1>3, PrecedesByElements
  <2>2. PICK j \in 1 .. Len(a) : b[j] < c[j] /\ \A k \in 1 .. j - 1 : b[k] = c[k]
    BY <1>3, PrecedesByElements
  <2>3. Len(a) \in Nat /\ i \in Nat /\ j \in Nat
    OBVIOUS
  <2>4. CASE i <= j
    <3>1. a[i] < c[i]
      <4>1. a[i] \in Nat /\ b[i] \in Nat /\ c[i] \in Nat
        BY <1>1
      <4>2. i # j => b[i] = c[i]
        BY <2>2, <2>3, <2>4
      <4> QED
        BY <2>1, <2>2, <4>1, <4>2
    <3>2. \A k \in 1 .. i - 1 : a[k] = c[k]
      BY <2>1, <2>2, <2>3, <2>4
    <3> QED
      BY <3>1, <3>2, PrecedesByElements
  <2>5. CASE j < i
    <3>1. a[j] < c[j]
      BY <1>1, <2>1, <2>2, <2>3, <2>5
    <3>2. \A k \in 1 .. j - 1 : a[k] = c[k]
      BY <2>1, <2>2, <2>3, <2>5
    <3> QED
      BY <3>1, <3>2, PrecedesByElements
  <2> QED
    BY <2>3, <2>4, <2>5
<1> QED
  BY <1>2, <1>3

\* The ranks of candidates.
LEMMA PrecedesOfFour ==
    ASSUME NEW a \in Seq(Nat), NEW b \in Seq(Nat), Len(a) = 4, Len(b) = 4
    PROVE  Precedes(a, b) <=>
              \/ a[1] < b[1]
              \/ a[1] = b[1] /\ a[2] < b[2]
              \/ a[1] = b[1] /\ a[2] = b[2] /\ a[3] < b[3]
              \/ a[1] = b[1] /\ a[2] = b[2] /\ a[3] = b[3] /\ a[4] < b[4]
<1>1. Precedes(a, b) <=> \E i \in 1 .. 4 : a[i] < b[i] /\ \A j \in 1 .. i - 1 : a[j] = b[j]
  BY PrecedesByElements
<1>2. (\E i \in 1 .. 4 : a[i] < b[i] /\ \A j \in 1 .. i - 1 : a[j] = b[j]) <=>
            \/ a[1] < b[1] /\ \A j \in 1 .. 0 : a[j] = b[j]
            \/ a[2] < b[2] /\ \A j \in 1 .. 1 : a[j] = b[j]
            \/ a[3] < b[3] /\ \A j \in 1 .. 2 : a[j] = b[j]
            \/ a[4] < b[4] /\ \A j \in 1 .. 3 : a[j] = b[j]
  OBVIOUS
<1>3. /\ \A j \in 1 .. 0 : a[j] = b[j]
      /\ (\A j \in 1 .. 1 : a[j] = b[j]) <=> a[1] = b[1]
      /\ (\A j \in 1 .. 2 : a[j] = b[j]) <=> a[1] = b[1] /\ a[2] = b[2]
      /\ (\A j \in 1 .. 3 : a[j] = b[j]) <=> a[1] = b[1] /\ a[2] = b[2] /\ a[3] = b[3]
  OBVIOUS
<1> QED
  BY <1>1, <1>2, <1>3

-----------------------------------------------------------------------------
(* The tables.                                                             *)

Kinds == {"read", "write", "notify"}
ViewNames == {ViewOf(kind, u.model, u.name) : kind \in Kinds, u \in Users}

\* An index of the access table.
AccessKey(k) ==
    \E u \in Users, ctx \in ContextNames, model \in Nat, level \in Levels :
        k = <<GroupOf(u.model, u.name), ctx, model, level>>

AccessRows(access) ==
    /\ IsFiniteSet(DOMAIN access)
    /\ \A k \in DOMAIN access :
          AccessKey(k) /\ access[k].read \in ViewNames /\ access[k].write \in ViewNames

ViewRows(view) ==
    /\ IsFiniteSet(DOMAIN view)
    /\ \A k \in DOMAIN view : /\ k \in ViewNames \X Subtrees
                             /\ view[k].mask \in Seq(Nat) /\ view[k].included \in BOOLEAN

-----------------------------------------------------------------------------
(* The row that decides.                                                   *)

\* A row that applies to a request: its context begins the request's.
LEMMA CandidateFits ==
    ASSUME AccessRows(t.access), NEW group, NEW ctx \in Seq(Nat), NEW model \in Nat, NEW level \in Nat,
           NEW k \in Candidates(t, group, ctx, model, level)
    PROVE  /\ k = <<group, k[2], k[3], k[4]>> /\ k \in DOMAIN t.access
           /\ k[2] \in Seq(Nat) /\ Len(k[2]) \in Nat /\ Len(k[2]) <= Len(ctx)
           /\ \A i \in 1 .. Len(k[2]) : k[2][i] = ctx[i]
           /\ k[3] \in {model, AnyModel} /\ k[3] \in Nat /\ k[4] \in Nat
<1>1. k \in DOMAIN t.access /\ k[1] = group /\ k[3] \in {model, AnyModel}
      /\ (k[2] = ctx \/ IsPrefix(k[2], ctx))
  BY DEF Candidates
<1>2. PICK u \in Users, c \in ContextNames, mod \in Nat, lev \in Levels :
            k = <<GroupOf(u.model, u.name), c, mod, lev>>
  BY <1>1 DEF AccessRows, AccessKey
<1>3. k[2] \in Seq(Nat) /\ k[4] \in Nat /\ k[3] \in Nat
  BY <1>2, AccessControlAssumption
<1>4. Len(k[2]) \in Nat /\ Len(ctx) \in Nat
  BY <1>3
<1>5. Len(k[2]) <= Len(ctx) /\ \A i \in 1 .. Len(k[2]) : k[2][i] = ctx[i]
  BY <1>1, <1>3, <1>4, PrefixByElements
<1>6. k = <<k[1], k[2], k[3], k[4]>>
  BY <1>2
<1> QED
  BY <1>1, <1>3, <1>4, <1>5, <1>6

\* The code compares candidates by one tuple.
LEMMA BestExists ==
    ASSUME AccessRows(t.access), NEW group, NEW ctx \in Seq(Nat), NEW model \in Nat, NEW level \in Nat,
           Candidates(t, group, ctx, model, level) # {}
    PROVE  LET C == Candidates(t, group, ctx, model, level)
               b == BestCandidate(t, group, ctx, model, level)
           IN  b \in C /\ \A o \in C : ~Precedes(Rank(b, ctx, model), Rank(o, ctx, model))
<1> DEFINE C == Candidates(t, group, ctx, model, level)
           R == {p \in C \X C : Precedes(Rank(p[1], ctx, model), Rank(p[2], ctx, model))}
<1>1. IsFiniteSet(C)
  <2>1. C \in SUBSET DOMAIN t.access
    BY DEF Candidates
  <2> QED
    BY <2>1, FS_Subset DEF AccessRows
<1>2. \A k \in C : Rank(k, ctx, model) \in Seq(Nat) /\ Len(Rank(k, ctx, model)) = 4
  <2> SUFFICES ASSUME NEW k \in C
               PROVE  Rank(k, ctx, model) \in Seq(Nat) /\ Len(Rank(k, ctx, model)) = 4
    OBVIOUS
  <2>1. Len(k[2]) \in Nat /\ k[4] \in Nat
    BY CandidateFits
  <2>2. Bit(k[3] = model) \in Nat /\ Bit(k[2] = ctx) \in Nat
    BY DEF Bit
  <2> QED
    BY <2>1, <2>2 DEF Rank
<1>3. \A x, y \in C : <<x, y>> \in R <=> Precedes(Rank(x, ctx, model), Rank(y, ctx, model))
  OBVIOUS
<1> HIDE DEF C, R
<1>4. \A x \in C : <<x, x>> \notin R
  BY <1>2, <1>3, PrecedesIsStrict
<1>5. \A x, y, z \in C : <<x, y>> \in R /\ <<y, z>> \in R => <<x, z>> \in R
  BY <1>2, <1>3, PrecedesIsStrict
<1>6. C # {}
  BY DEF C
<1>7. PICK x \in C : \A y \in C : <<x, y>> \notin R
  BY <1>1, <1>4, <1>5, <1>6, LastExists
<1>8. \E k \in C : \A other \in C : ~Precedes(Rank(k, ctx, model), Rank(other, ctx, model))
  BY <1>3, <1>7
<1> QED
  BY <1>8 DEF BestCandidate, C

\* The best candidate by that tuple is what narrowing the candidates in turn leaves.
LEMMA BestIsSelected ==
    ASSUME AccessRows(t.access), NEW group, NEW ctx \in Seq(Nat), NEW model \in Nat, NEW level \in Nat
    PROVE  SelectedRow(group, ctx, model, level) =
              IF Candidates(t, group, ctx, model, level) = {} THEN {}
              ELSE {BestCandidate(t, group, ctx, model, level)}
<1> DEFINE C == Candidates(t, group, ctx, model, level)
           b == BestCandidate(t, group, ctx, model, level)
           S1 == Narrow(C, {k \in C : k[3] = model})
           S2 == Narrow(S1, {k \in C : k[2] = ctx})
           S3 == {k \in S2 : \A o \in S2 : Len(o[2]) <= Len(k[2])}
           S4 == {k \in S3 : \A o \in S3 : o[4] <= k[4]}
<1>1. SelectedRow(group, ctx, model, level) = S4
  BY DEF SelectedRow
<1>2. CASE C = {}
  <2>1. S4 = {}
    BY <1>2 DEF Narrow
  <2> QED
    BY <1>1, <1>2, <2>1
<1>3. CASE C # {}
  <2>1. b \in C /\ \A o \in C : ~Precedes(Rank(b, ctx, model), Rank(o, ctx, model))
    BY <1>3, BestExists
  <2>2. \A k \in C : /\ k = <<group, k[2], k[3], k[4]>>
                     /\ k[2] \in Seq(Nat) /\ Len(k[2]) \in Nat
                     /\ \A i \in 1 .. Len(k[2]) : k[2][i] = ctx[i]
                     /\ k[3] \in {model, AnyModel} /\ k[4] \in Nat
    BY CandidateFits
  <2>3. \A p \in BOOLEAN : Bit(p) \in Nat /\ (p => Bit(p) = 1) /\ (~p => Bit(p) = 0)
    BY DEF Bit
  <2> HIDE DEF C, b
  <2>4. ASSUME NEW o \in C
        PROVE  /\ b[3] # model => o[3] # model
               /\ (b[3] = model <=> o[3] = model) => (b[2] # ctx => o[2] # ctx)
               /\ (b[3] = model <=> o[3] = model) /\ (b[2] = ctx <=> o[2] = ctx) =>
                     /\ Len(o[2]) <= Len(b[2])
                     /\ Len(o[2]) = Len(b[2]) => o[4] <= b[4]
    <3> DEFINE M(k) == Bit(k[3] = model)
               X(k) == Bit(k[2] = ctx)
    <3>1. \A k \in C : M(k) \in Nat /\ X(k) \in Nat /\ Len(k[2]) \in Nat /\ k[4] \in Nat
      BY <2>2, <2>3
    <3>2. \A k \in C : Rank(k, ctx, model) = <<M(k), X(k), Len(k[2]), k[4]>>
      BY DEF Rank
    <3>3. /\ M(b) = IF b[3] = model THEN 1 ELSE 0
          /\ M(o) = IF o[3] = model THEN 1 ELSE 0
          /\ X(b) = IF b[2] = ctx THEN 1 ELSE 0
          /\ X(o) = IF o[2] = ctx THEN 1 ELSE 0
      BY DEF Bit
    <3> HIDE DEF M, X
    <3>4. /\ ~ (M(b) < M(o))
          /\ ~ (M(b) = M(o) /\ X(b) < X(o))
          /\ ~ (M(b) = M(o) /\ X(b) = X(o) /\ Len(b[2]) < Len(o[2]))
          /\ ~ (M(b) = M(o) /\ X(b) = X(o) /\ Len(b[2]) = Len(o[2]) /\ b[4] < o[4])
      <4>1. ASSUME NEW k \in C
            PROVE  /\ Rank(k, ctx, model) \in Seq(Nat) /\ Len(Rank(k, ctx, model)) = 4
                   /\ Rank(k, ctx, model)[1] = M(k) /\ Rank(k, ctx, model)[2] = X(k)
                   /\ Rank(k, ctx, model)[3] = Len(k[2]) /\ Rank(k, ctx, model)[4] = k[4]
        <5> DEFINE r == Rank(k, ctx, model)
        <5>1. /\ M(k) \in Nat /\ X(k) \in Nat /\ Len(k[2]) \in Nat /\ k[4] \in Nat
          BY <3>1
        <5>2. r = <<M(k), X(k), Len(k[2]), k[4]>>
          BY <3>2
        <5> HIDE DEF r
        <5>3. r[1] = M(k) /\ r[2] = X(k) /\ r[3] = Len(k[2]) /\ r[4] = k[4]
          BY <5>2
        <5>4. r \in Seq(Nat) /\ Len(r) = 4
          BY <5>1, <5>2
        <5> QED
          BY <5>3, <5>4 DEF r
      <4>2. ~Precedes(Rank(b, ctx, model), Rank(o, ctx, model))
        BY <2>1
      <4> QED
        BY <2>1, <4>1, <4>2, PrecedesOfFour
    <3>5. Len(b[2]) \in Nat /\ b[4] \in Nat /\ Len(o[2]) \in Nat /\ o[4] \in Nat
      BY <2>1, <3>1
    <3> QED
      BY <3>3, <3>4, <3>5
  <2>5. S1 = {k \in C : k[3] = model <=> b[3] = model}
    BY <2>1, <2>4 DEF Narrow
  <2>6. S2 = {k \in C : (k[3] = model <=> b[3] = model) /\ (k[2] = ctx <=> b[2] = ctx)}
    <3> HIDE DEF S1
    <3> QED
      BY <2>1, <2>4, <2>5 DEF Narrow
  <2>7. S3 = {k \in S2 : Len(k[2]) = Len(b[2])}
    <3> HIDE DEF S2
    <3>1. b \in S2 /\ \A o \in S2 : Len(o[2]) <= Len(b[2]) /\ Len(o[2]) \in Nat
      BY <2>1, <2>2, <2>4, <2>6
    <3> QED
      BY <3>1
  <2>8. S4 = {k \in S3 : k[4] = b[4]}
    <3> HIDE DEF S3, S2
    <3>1. b \in S3 /\ \A o \in S3 : o[4] <= b[4] /\ o[4] \in Nat
      BY <2>1, <2>2, <2>4, <2>6, <2>7
    <3> QED
      BY <3>1
  <2>9. b \in S4
    <3> HIDE DEF S4, S3, S2
    <3> QED
      BY <2>1, <2>6, <2>7, <2>8
  <2>10. ASSUME NEW k \in S4 PROVE k = b
    <3>1. k \in C /\ (k[3] = model <=> b[3] = model) /\ Len(k[2]) = Len(b[2]) /\ k[4] = b[4]
      <4> HIDE DEF S4, S3, S2
      <4> QED
        BY <2>6, <2>7, <2>8
    <3>2. k[3] = b[3]
      BY <2>1, <2>2, <3>1
    <3>3. k[2] = b[2]
      <4>1. k[2] \in Seq(Nat) /\ b[2] \in Seq(Nat)
        BY <2>1, <2>2, <3>1
      <4>2. \A i \in 1 .. Len(k[2]) : k[2][i] = b[2][i]
        BY <2>1, <2>2, <3>1
      <4> QED
        BY <3>1, <4>1, <4>2, SeqEqual, Zenon
    <3>4. k = <<group, k[2], k[3], k[4]>> /\ b = <<group, b[2], b[3], b[4]>>
      BY <2>1, <2>2, <3>1
    <3> QED
      BY <3>1, <3>2, <3>3, <3>4, Zenon
  <2>11. S4 = {b}
    <3> HIDE DEF S4
    <3> QED
      BY <2>9, <2>10
  <2> QED
    BY <1>1, <1>3, <2>11 DEF C, b
<1> QED
  BY <1>2, <1>3

-----------------------------------------------------------------------------
(* The family that decides.                                                *)

\* A family as the model keeps it.
Family(view, k) ==
    [row |-> k[2],
     subtree |-> Blank(k[2], Ignored(k[2], view[k].mask)),
     ignored |-> Ignored(k[2], view[k].mask),
     included |-> view[k].included]

\* The families of a view that match a name, by their index.
Hits(view, name, oid) == {k \in DOMAIN view : k[1] = name /\ Matches(Family(view, k), oid)}

\* A name with 0 at some positions.
LEMMA Blanked ==
    ASSUME NEW s \in Seq(Nat), NEW P
    PROVE  /\ Blank(s, P) \in Seq(Nat) /\ Len(Blank(s, P)) = Len(s)
           /\ \A i \in 1 .. Len(s) : Blank(s, P)[i] = IF i \in P THEN 0 ELSE s[i]
<1>1. Len(s) \in Nat /\ \A i \in 1 .. Len(s) : s[i] \in Nat
  OBVIOUS
<1>2. /\ Blank(s, P) = [i \in 1 .. Len(s) |-> IF i \in P THEN 0 ELSE s[i]]
      /\ \A i \in 1 .. Len(s) : (IF i \in P THEN 0 ELSE s[i]) \in Nat
  BY <1>1 DEF Blank
<1>3. Blank(s, P) \in [1 .. Len(s) -> Nat]
  BY <1>2
<1>4. Blank(s, P) \in Seq(Nat)
  BY <1>1, <1>3, SeqDef
<1>5. DOMAIN Blank(s, P) = 1 .. Len(s) /\ DOMAIN Blank(s, P) = 1 .. Len(Blank(s, P))
      /\ Len(Blank(s, P)) \in Nat
  BY <1>3, <1>4
<1>6. Len(Blank(s, P)) = Len(s)
  BY <1>1, <1>5
<1> QED
  BY <1>2, <1>4, <1>6

\* The families as they are kept.
LEMMA FamilyFits ==
    ASSUME ViewRows(t.view), NEW k \in DOMAIN t.view
    PROVE  LET f == Family(t.view, k) IN
           /\ k = <<k[1], k[2]>> /\ k[1] \in ViewNames
           /\ f.row = k[2] /\ f.included = t.view[k].included
           /\ k[2] \in Seq(Nat) /\ f.subtree \in Seq(Nat) /\ Len(f.subtree) = Len(k[2])
           /\ f.ignored = Ignored(k[2], t.view[k].mask)
           /\ \A i \in 1 .. Len(k[2]) : f.subtree[i] = IF i \in f.ignored THEN 0 ELSE k[2][i]
<1>1. k = <<k[1], k[2]>> /\ k[1] \in ViewNames /\ k[2] \in Subtrees
  BY DEF ViewRows
<1>2. k[2] \in Seq(Nat)
  BY <1>1, AccessControlAssumption
<1> QED
  BY <1>1, <1>2, Blanked DEF Family

\* Blanking a name where the mask says so, and comparing, is agreeing with the subtree
\* everywhere else.
LEMMA MatchesWhatItCovers ==
    ASSUME ViewRows(t.view), NEW k \in DOMAIN t.view, NEW oid \in Seq(Nat)
    PROVE  Matches(Family(t.view, k), oid) <=> Covers(k, oid)
<1> DEFINE f == Family(t.view, k)
           m == t.view[k].mask
<1>1. /\ k[2] \in Seq(Nat) /\ f.subtree \in Seq(Nat) /\ Len(f.subtree) = Len(k[2])
      /\ f.ignored = Ignored(k[2], m)
      /\ \A i \in 1 .. Len(k[2]) : f.subtree[i] = IF i \in f.ignored THEN 0 ELSE k[2][i]
  BY FamilyFits
<1>2. m \in Seq(Nat) /\ Len(m) \in Nat /\ Len(oid) \in Nat /\ Len(k[2]) \in Nat
  BY <1>1 DEF ViewRows
<1>3. /\ Blank(oid, f.ignored) \in Seq(Nat) /\ Len(Blank(oid, f.ignored)) = Len(oid)
      /\ \A i \in 1 .. Len(oid) : Blank(oid, f.ignored)[i] = IF i \in f.ignored THEN 0 ELSE oid[i]
  BY Blanked
<1>4. Matches(f, oid) <=>
        Len(k[2]) <= Len(oid) /\ \A i \in 1 .. Len(k[2]) : f.subtree[i] = Blank(oid, f.ignored)[i]
  <2>1. Matches(f, oid) <=> IsPrefix(f.subtree, Blank(oid, f.ignored))
    BY DEF Matches
  <2> HIDE DEF f
  <2>2. IsPrefix(f.subtree, Blank(oid, f.ignored)) <=>
           /\ Len(f.subtree) <= Len(Blank(oid, f.ignored))
           /\ \A i \in 1 .. Len(f.subtree) : f.subtree[i] = Blank(oid, f.ignored)[i]
    <3>1. \A a, b \in Seq(Nat) :
            IsPrefix(a, b) <=> Len(a) <= Len(b) /\ \A i \in 1 .. Len(a) : a[i] = b[i]
      BY PrefixByElements
    <3>2. f.subtree \in Seq(Nat) /\ Blank(oid, f.ignored) \in Seq(Nat)
      BY <1>1, <1>3
    <3> QED
      BY <3>1, <3>2, Zenon
  <2> QED
    BY <2>1, <2>2, <1>1, <1>3
<1>5. \A i \in 1 .. Len(k[2]) : i \in f.ignored <=> i <= Len(m) /\ m[i] = 0
  BY <1>1, <1>2 DEF Ignored
<1> HIDE DEF f, m
<1>6. Len(k[2]) <= Len(oid) =>
        \A i \in 1 .. Len(k[2]) :
            f.subtree[i] = Blank(oid, f.ignored)[i] <=> (i <= Len(m) /\ m[i] = 0) \/ oid[i] = k[2][i]
  <2> SUFFICES ASSUME Len(k[2]) <= Len(oid), NEW i \in 1 .. Len(k[2])
               PROVE  f.subtree[i] = Blank(oid, f.ignored)[i] <=> (i <= Len(m) /\ m[i] = 0) \/ oid[i] = k[2][i]
    OBVIOUS
  <2>1. i \in 1 .. Len(oid)
    BY <1>2
  <2>2. /\ f.subtree[i] = IF i \in f.ignored THEN 0 ELSE k[2][i]
        /\ Blank(oid, f.ignored)[i] = IF i \in f.ignored THEN 0 ELSE oid[i]
    BY <2>1, <1>1, <1>3
  <2>3. i \in f.ignored <=> i <= Len(m) /\ m[i] = 0
    BY <1>5
  <2> QED
    BY <2>2, <2>3
<1> QED
  BY <1>4, <1>6 DEF Covers, f, m

\* The order of families is a strict one, and puts longer ones behind.
LEMMA BeforeIsStrict ==
    ASSUME ViewRows(t.view), NEW x \in DOMAIN t.view, NEW y \in DOMAIN t.view, NEW z \in DOMAIN t.view
    PROVE  /\ ~Before(Family(t.view, x), Family(t.view, x))
           /\ Before(Family(t.view, x), Family(t.view, y)) /\ Before(Family(t.view, y), Family(t.view, z))
                => Before(Family(t.view, x), Family(t.view, z))
           /\ ~Before(Family(t.view, x), Family(t.view, y)) => Len(y[2]) <= Len(x[2])
<1> DEFINE F(k) == Family(t.view, k)
           Both(k) == F(k).subtree \o F(k).row
<1>1. \A k \in DOMAIN t.view : /\ Both(k) \in Seq(Nat) /\ Len(Both(k)) = Len(k[2]) + Len(k[2])
                              /\ Len(F(k).subtree) = Len(k[2]) /\ Len(k[2]) \in Nat
  <2> SUFFICES ASSUME NEW k \in DOMAIN t.view
               PROVE  /\ Both(k) \in Seq(Nat) /\ Len(Both(k)) = Len(k[2]) + Len(k[2])
                      /\ Len(F(k).subtree) = Len(k[2]) /\ Len(k[2]) \in Nat
    OBVIOUS
  <2>1. /\ F(k).row = k[2] /\ k[2] \in Seq(Nat) /\ F(k).subtree \in Seq(Nat)
        /\ Len(F(k).subtree) = Len(k[2])
    BY FamilyFits
  <2>2. \A a, b \in Seq(Nat) : a \o b \in Seq(Nat) /\ Len(a \o b) = Len(a) + Len(b)
    BY ConcatProperties
  <2> HIDE DEF F
  <2>3. Both(k) \in Seq(Nat) /\ Len(Both(k)) = Len(F(k).subtree) + Len(F(k).row)
    BY <2>1, <2>2
  <2>4. Len(k[2]) \in Nat
    BY <2>1
  <2> HIDE DEF Both
  <2> QED
    BY <2>1, <2>3, <2>4
<1>2. \A k, o \in DOMAIN t.view :
        Before(F(k), F(o)) <=> \/ Len(k[2]) < Len(o[2])
                               \/ Len(k[2]) = Len(o[2]) /\ Precedes(Both(k), Both(o))
  BY <1>1 DEF Before
<1>3. ~Precedes(Both(x), Both(x))
  BY <1>1, PrecedesIsStrict
<1>4. Len(x[2]) = Len(y[2]) /\ Len(y[2]) = Len(z[2]) /\ Precedes(Both(x), Both(y)) /\ Precedes(Both(y), Both(z))
        => Precedes(Both(x), Both(z))
  <2> HIDE DEF Both
  <2> QED
    BY <1>1, PrecedesIsStrict
<1>5. Len(x[2]) \in Nat /\ Len(y[2]) \in Nat /\ Len(z[2]) \in Nat
  BY <1>1
<1> HIDE DEF F, Both
<1>6. /\ ~Before(F(x), F(x))
      /\ Before(F(x), F(y)) /\ Before(F(y), F(z)) => Before(F(x), F(z))
      /\ ~Before(F(x), F(y)) => Len(y[2]) <= Len(x[2])
  BY <1>2, <1>3, <1>4, <1>5
<1> QED
  BY <1>6 DEF F

\* Where families match, one is the last.
LEMMA LastHit ==
    ASSUME ViewRows(t.view), NEW name, NEW oid, Hits(t.view, name, oid) # {}
    PROVE  \E k \in Hits(t.view, name, oid) : \A o \in Hits(t.view, name, oid) :
              ~Before(Family(t.view, k), Family(t.view, o))
<1> DEFINE H == Hits(t.view, name, oid)
           R == {p \in H \X H : Before(Family(t.view, p[1]), Family(t.view, p[2]))}
<1>1. H \subseteq DOMAIN t.view /\ IsFiniteSet(H)
  <2>1. H \in SUBSET DOMAIN t.view
    BY DEF Hits
  <2> QED
    BY <2>1, FS_Subset DEF ViewRows
<1>2. \A x, y \in H : <<x, y>> \in R <=> Before(Family(t.view, x), Family(t.view, y))
  OBVIOUS
<1> HIDE DEF H, R
<1>3. \A x \in H : <<x, x>> \notin R
  BY <1>1, <1>2, BeforeIsStrict
<1>4. \A x, y, z \in H : <<x, y>> \in R /\ <<y, z>> \in R => <<x, z>> \in R
  BY <1>1, <1>2, BeforeIsStrict
<1>5. H # {}
  BY DEF H
<1>6. \E x \in H : \A y \in H : <<x, y>> \notin R
  BY <1>1, <1>3, <1>4, <1>5, LastExists
<1> QED
  BY <1>2, <1>6 DEF H

\* The loop's last entry, in terms of the rows it was made from.
LEMMA InViewByHits ==
    ASSUME NEW name, NEW oid
    PROVE  InView(t, name, oid) <=>
              \E k \in Hits(t.view, name, oid) :
                  /\ t.view[k].included
                  /\ \A o \in Hits(t.view, name, oid) : ~Before(Family(t.view, k), Family(t.view, o))
<1>1. Families(t, name) = {Family(t.view, k) : k \in {x \in DOMAIN t.view : x[1] = name}}
  BY DEF Families, Family
<1>2. {f \in Families(t, name) : Matches(f, oid)} = {Family(t.view, k) : k \in Hits(t.view, name, oid)}
  BY <1>1 DEF Hits
<1>3. \A k : Family(t.view, k).included = t.view[k].included
  BY DEF Family
<1> QED
  BY <1>2, <1>3 DEF InView

\* The code's last entry is a longest family that covers the name.
LEMMA VerdictIsInView ==
    ASSUME ViewRows(t.view), NEW name, NEW oid \in Seq(Nat)
    PROVE  \E v \in Verdicts(name, oid) : v <=> InView(t, name, oid)
<1> DEFINE H == Hits(t.view, name, oid)
           deciding == {k \in H : \A o \in H : Len(o[2]) <= Len(k[2])}
<1>1. H = {k \in DOMAIN t.view : k[1] = name /\ Covers(k, oid)}
  BY MatchesWhatItCovers DEF Hits
<1>2. Verdicts(name, oid) = IF deciding = {} THEN {FALSE} ELSE {t.view[k].included : k \in deciding}
  BY <1>1 DEF Verdicts
<1>3. ASSUME NEW k \in H, \A o \in H : ~Before(Family(t.view, k), Family(t.view, o)) PROVE k \in deciding
  BY <1>1, <1>3, BeforeIsStrict
<1>4. CASE InView(t, name, oid)
  <2>1. PICK k \in H : t.view[k].included /\ \A o \in H : ~Before(Family(t.view, k), Family(t.view, o))
    BY <1>4, InViewByHits
  <2>2. k \in deciding
    BY <2>1, <1>3
  <2>3. t.view[k].included \in Verdicts(name, oid)
    BY <2>2, <1>2
  <2> QED
    BY <2>1, <2>3, <1>4
<1>5. CASE ~InView(t, name, oid) /\ H = {}
  BY <1>2, <1>5
<1>6. CASE ~InView(t, name, oid) /\ H # {}
  <2>1. PICK k \in H : \A o \in H : ~Before(Family(t.view, k), Family(t.view, o))
    BY <1>6, LastHit
  <2>2. ~t.view[k].included
    BY <1>6, <2>1, InViewByHits
  <2>3. t.view[k].included \in Verdicts(name, oid)
    BY <2>1, <1>2, <1>3
  <2> QED
    BY <2>2, <2>3, <1>6
<1> QED
  BY <1>4, <1>5, <1>6
-----------------------------------------------------------------------------
(* The invariant.                                                          *)

IsCall(c) ==
    c.user \in Users /\ c.level \in Levels /\ c.ctx \in ContextNames /\ c.subtrees \in Given

\* What the call of addVacmUser left is there.
Granted(c) ==
    LET model == c.user.model
        name == c.user.name
    IN /\ c.ctx \in t.context
       /\ <<model, name>> \in DOMAIN t.group
       /\ t.group[<<model, name>>] = GroupOf(model, name)
       /\ <<GroupOf(model, name), c.ctx, model, c.level>> \in DOMAIN t.access
       /\ \A kind \in {"read", "write"} :
             c.subtrees[kind] # <<>> => <<ViewOf(kind, model, name), c.subtrees[kind]>> \in DOMAIN t.view

\* Without calls of another kind, each row names the views of its group's user, and views
\* only include.
OwnViews(access) ==
    \A k \in DOMAIN access :
        /\ access[k].match = Exact
        /\ access[k].read = ViewOf("read", k[1][2], k[1][3])
        /\ access[k].write = ViewOf("write", k[1][2], k[1][3])

OnlyIncluded(view) == \A k \in DOMAIN view : view[k].mask = <<>> /\ view[k].included

\* Copies are fresh, tables finite, and the calls in force left their rows.
IInv ==
    /\ TypeOK /\ DOMAIN kept = Tables /\ Tables \subseteq DOMAIN t
    /\ AccessRows(t.access) /\ ViewRows(t.view)
    /\ \A c \in granted : IsCall(c)
    /\ raw => granted = {}
    /\ ~raw => OwnViews(t.access) /\ OnlyIncluded(t.view) /\ \A c \in granted : Granted(c)

-----------------------------------------------------------------------------
(* What the functions of entity.config do to the tables.                   *)

\* A row more.
LEMMA FinitePut ==
    ASSUME NEW d, IsFiniteSet(DOMAIN d), NEW k, NEW v
    PROVE  /\ DOMAIN Put(d, k, v) = DOMAIN d \cup {k} /\ IsFiniteSet(DOMAIN Put(d, k, v))
           /\ Put(d, k, v)[k] = v /\ \A x \in DOMAIN d : x # k => Put(d, k, v)[x] = d[x]
<1>1. DOMAIN Put(d, k, v) = DOMAIN d \cup {k}
  BY DEF Put
<1>2. IsFiniteSet(DOMAIN d \cup {k})
  BY FS_AddElement
<1> QED
  BY <1>1, <1>2 DEF Put

\* Rows less.
LEMMA FiniteWithout ==
    ASSUME NEW d, IsFiniteSet(DOMAIN d), NEW K
    PROVE  /\ DOMAIN Without(d, K) = DOMAIN d \ K /\ IsFiniteSet(DOMAIN Without(d, K))
           /\ \A x \in DOMAIN d \ K : Without(d, K)[x] = d[x]
<1>1. DOMAIN Without(d, K) = DOMAIN d \ K
  BY DEF Without
<1>2. IsFiniteSet(DOMAIN d \ K)
  BY FS_Subset
<1> QED
  BY <1>1, <1>2 DEF Without

\* A write of one row changes its table and no other.
LEMMA RowSet ==
    ASSUME NEW u, NEW table \in DOMAIN u, NEW k, NEW v
    PROVE  LET n == SetRow(u, table, k, v) IN
           DOMAIN n = DOMAIN u /\ n[table] = Put(u[table], k, v) /\ \A x \in DOMAIN u : x # table => n[x] = u[x]
BY DEF SetRow

LEMMA RowDropped ==
    ASSUME NEW u, NEW table \in DOMAIN u, NEW k
    PROVE  LET n == DropRow(u, table, k) IN
           DOMAIN n = DOMAIN u /\ n[table] = Without(u[table], {k}) /\ \A x \in DOMAIN u : x # table => n[x] = u[x]
BY DEF DropRow

\* The row addVacmUser writes.
AccessRow(u) ==
    LET V(kind) == ViewOf(kind, u.model, u.name)
    IN [match |-> Exact, read |-> V("read"), write |-> V("write"), notify |-> V("notify")]

\* One subtree of a view more.
Grown(view, u, kind, subtree) ==
    IF subtree = <<>> THEN view
    ELSE Put(view, <<ViewOf(kind, u.model, u.name), subtree>>, [mask |-> <<>>, included |-> TRUE])

\* The tables addVacmUser leaves.
Added(n, u, level, given, ctx) ==
    /\ DOMAIN n = DOMAIN t
    /\ n.context = t.context \cup {ctx}
    /\ n.group = Put(t.group, <<u.model, u.name>>, GroupOf(u.model, u.name))
    /\ n.access = Put(t.access, <<GroupOf(u.model, u.name), ctx, u.model, level>>, AccessRow(u))
    /\ n.view = Grown(Grown(t.view, u, "read", given.read), u, "write", given.write)

\* addVacmUser.
LEMMA UserAdded ==
    ASSUME NEW u \in Users, NEW level, NEW given \in Given, NEW ctx, Tables \subseteq DOMAIN t
    PROVE  Added(AddVacmUser(t, u.model, u.name, level, given, ctx), u, level, given, ctx)
<1> DEFINE V(kind) == ViewOf(kind, u.model, u.name)
           group == GroupOf(u.model, u.name)
           t1 == AddContext(t, ctx)
           t2 == AddVacmGroup(t1, group, u.model, u.name)
           t3 == AddVacmAccess(t2, group, ctx, u.model, level, Exact, V("read"), V("write"), V("notify"))
           A(w, kind) == IF given[kind] = <<>> THEN w
                         ELSE AddVacmView(w, V(kind), TRUE, given[kind], <<>>)
           t4 == A(t3, "read")
           t5 == A(t4, "write")
           t6 == A(t5, "notify")
<1>1. AddVacmUser(t, u.model, u.name, level, given, ctx) = t6
  BY DEF AddVacmUser
<1>2. given.notify = <<>> /\ given["read"] = given.read /\ given["write"] = given.write /\ given["notify"] = given.notify
  BY DEF Given, Access
<1>3. /\ DOMAIN t1 = DOMAIN t /\ t1["context"] = t["context"] \cup {ctx} /\ t1["group"] = t["group"]
      /\ t1["access"] = t["access"] /\ t1["view"] = t["view"]
  BY DEF AddContext, Tables
<1>4. /\ DOMAIN t2 = DOMAIN t /\ t2["context"] = t1["context"]
      /\ t2["group"] = Put(t["group"], <<u.model, u.name>>, group)
      /\ t2["access"] = t["access"] /\ t2["view"] = t["view"]
  <2> HIDE DEF t1
  <2> QED
    BY <1>3, RowSet DEF AddVacmGroup, Tables
<1>5. /\ DOMAIN t3 = DOMAIN t /\ t3["context"] = t1["context"] /\ t3["group"] = t2["group"]
      /\ t3["access"] = Put(t["access"], <<group, ctx, u.model, level>>, AccessRow(u)) /\ t3["view"] = t["view"]
  <2> HIDE DEF t2
  <2> QED
    BY <1>4, RowSet DEF AddVacmAccess, Tables, AccessRow
<1>6. ASSUME NEW w, DOMAIN w = DOMAIN t, NEW kind
      PROVE  LET n == A(w, kind) IN
             /\ DOMAIN n = DOMAIN t /\ n["context"] = w["context"] /\ n["group"] = w["group"]
             /\ n["access"] = w["access"] /\ n["view"] = Grown(w["view"], u, kind, given[kind])
  BY <1>6, RowSet DEF AddVacmView, Grown, Tables
<1> HIDE DEF A, t3
<1>7. /\ DOMAIN t4 = DOMAIN t /\ t4["context"] = t3["context"] /\ t4["group"] = t3["group"]
      /\ t4["access"] = t3["access"] /\ t4["view"] = Grown(t3["view"], u, "read", given["read"])
  BY <1>5, <1>6
<1> HIDE DEF t4
<1>8. /\ DOMAIN t5 = DOMAIN t /\ t5["context"] = t4["context"] /\ t5["group"] = t4["group"]
      /\ t5["access"] = t4["access"] /\ t5["view"] = Grown(t4["view"], u, "write", given["write"])
  BY <1>7, <1>6
<1> HIDE DEF t5
<1>9. t6 = t5
  BY <1>2 DEF A
<1> HIDE DEF t1, t2, t6
<1> QED
  BY <1>1, <1>2, <1>3, <1>4, <1>5, <1>7, <1>8, <1>9 DEF Added

\* One subtree of a view less.
Shorn(view, u, kind, subtree) ==
    IF subtree = <<>> THEN view ELSE Without(view, {<<ViewOf(kind, u.model, u.name), subtree>>})

\* The tables delVacmUser leaves.
Removed(n, u, level, given, ctx) ==
    /\ DOMAIN n = DOMAIN t
    /\ n.context = t.context \ {ctx}
    /\ n.group = Without(t.group, {<<u.model, u.name>>})
    /\ n.access = Without(t.access, {<<GroupOf(u.model, u.name), ctx, u.model, level>>})
    /\ n.view = Shorn(Shorn(t.view, u, "read", given.read), u, "write", given.write)

\* delVacmUser.
LEMMA UserRemoved ==
    ASSUME NEW u \in Users, NEW level, NEW given \in Given, NEW ctx, Tables \subseteq DOMAIN t
    PROVE  Removed(DelVacmUser(t, u.model, u.name, level, given, ctx), u, level, given, ctx)
<1> DEFINE V(kind) == ViewOf(kind, u.model, u.name)
           group == GroupOf(u.model, u.name)
           t1 == DelContext(t, ctx)
           t2 == DelVacmGroup(t1, u.model, u.name)
           t3 == DelVacmAccess(t2, group, ctx, u.model, level)
           D(w, kind) == IF given[kind] = <<>> THEN w ELSE DelVacmView(w, V(kind), given[kind])
           t4 == D(t3, "read")
           t5 == D(t4, "write")
           t6 == D(t5, "notify")
<1>1. DelVacmUser(t, u.model, u.name, level, given, ctx) = t6
  BY DEF DelVacmUser
<1>2. given.notify = <<>> /\ given["read"] = given.read /\ given["write"] = given.write /\ given["notify"] = given.notify
  BY DEF Given, Access
<1>3. /\ DOMAIN t1 = DOMAIN t /\ t1["context"] = t["context"] \ {ctx} /\ t1["group"] = t["group"]
      /\ t1["access"] = t["access"] /\ t1["view"] = t["view"]
  BY DEF DelContext, Tables
<1>4. /\ DOMAIN t2 = DOMAIN t /\ t2["context"] = t1["context"]
      /\ t2["group"] = Without(t["group"], {<<u.model, u.name>>})
      /\ t2["access"] = t["access"] /\ t2["view"] = t["view"]
  <2> DEFINE row == <<u.model, u.name>>
  <2> HIDE DEF t1, row
  <2>1. t2 = DropRow(t1, "group", row)
    BY DEF DelVacmGroup, row
  <2> HIDE DEF t2
  <2>2. DOMAIN t2 = DOMAIN t1 /\ t2["group"] = Without(t1["group"], {row})
        /\ \A x \in DOMAIN t1 : x # "group" => t2[x] = t1[x]
    BY <1>3, <2>1, RowDropped DEF Tables
  <2> QED
    BY <1>3, <2>2 DEF Tables, row
<1>5. /\ DOMAIN t3 = DOMAIN t /\ t3["context"] = t1["context"] /\ t3["group"] = t2["group"]
      /\ t3["access"] = Without(t["access"], {<<group, ctx, u.model, level>>}) /\ t3["view"] = t["view"]
  <2> DEFINE row == <<group, ctx, u.model, level>>
  <2> HIDE DEF t2, row
  <2>1. t3 = DropRow(t2, "access", row)
    BY DEF DelVacmAccess, row
  <2> HIDE DEF t3
  <2>2. DOMAIN t3 = DOMAIN t2 /\ t3["access"] = Without(t2["access"], {row})
        /\ \A x \in DOMAIN t2 : x # "access" => t3[x] = t2[x]
    BY <1>4, <2>1, RowDropped DEF Tables
  <2> QED
    BY <1>4, <2>2 DEF Tables, row
<1>6. ASSUME NEW w, DOMAIN w = DOMAIN t, NEW kind
      PROVE  LET n == D(w, kind) IN
             /\ DOMAIN n = DOMAIN t /\ n["context"] = w["context"] /\ n["group"] = w["group"]
             /\ n["access"] = w["access"] /\ n["view"] = Shorn(w["view"], u, kind, given[kind])
  BY <1>6, RowDropped DEF DelVacmView, Shorn, Tables
<1> HIDE DEF D, t3
<1>7. /\ DOMAIN t4 = DOMAIN t /\ t4["context"] = t3["context"] /\ t4["group"] = t3["group"]
      /\ t4["access"] = t3["access"] /\ t4["view"] = Shorn(t3["view"], u, "read", given["read"])
  BY <1>5, <1>6
<1> HIDE DEF t4
<1>8. /\ DOMAIN t5 = DOMAIN t /\ t5["context"] = t4["context"] /\ t5["group"] = t4["group"]
      /\ t5["access"] = t4["access"] /\ t5["view"] = Shorn(t4["view"], u, "write", given["write"])
  BY <1>7, <1>6
<1> HIDE DEF t5
<1>9. t6 = t5
  BY <1>2 DEF D
<1> HIDE DEF t1, t2, t6
<1> QED
  BY <1>1, <1>2, <1>3, <1>4, <1>5, <1>7, <1>8, <1>9 DEF Removed

-----------------------------------------------------------------------------
(* The steps keep the invariant.                                           *)

\* A write outdates the copies of the tables it writes.
LEMMA CopiesKept ==
    ASSUME TypeOK, DOMAIN kept = Tables, NEW written, Outdated(written),
           \A x \in Tables \ written : t'[x] = t[x]
    PROVE  DOMAIN kept' = Tables /\ \A x \in Tables : kept'[x] \in {NoCopy, <<t'[x]>>}
BY DEF TypeOK, Outdated

\* The access and the view table keep their form.
LEMMA AccessRowAdded ==
    ASSUME NEW access, AccessRows(access), NEW k, AccessKey(k),
           NEW row, row.read \in ViewNames, row.write \in ViewNames
    PROVE  AccessRows(Put(access, k, row))
<1>1. /\ DOMAIN Put(access, k, row) = DOMAIN access \cup {k} /\ IsFiniteSet(DOMAIN Put(access, k, row))
      /\ Put(access, k, row)[k] = row
      /\ \A x \in DOMAIN access : x # k => Put(access, k, row)[x] = access[x]
  <2>1. IsFiniteSet(DOMAIN access)
    BY DEF AccessRows
  <2>2. \A d, x, v : IsFiniteSet(DOMAIN d) => IsFiniteSet(DOMAIN Put(d, x, v))
    BY FinitePut, Zenon
  <2> QED
    BY <2>1, <2>2 DEF Put
<1> QED
  BY <1>1 DEF AccessRows

LEMMA AccessRowsLess ==
    ASSUME NEW access, AccessRows(access), NEW K
    PROVE  AccessRows(Without(access, K))
<1>1. /\ DOMAIN Without(access, K) = DOMAIN access \ K /\ IsFiniteSet(DOMAIN Without(access, K))
      /\ \A x \in DOMAIN access \ K : Without(access, K)[x] = access[x]
  BY FiniteWithout DEF AccessRows
<1> QED
  BY <1>1 DEF AccessRows

LEMMA ViewRowAdded ==
    ASSUME NEW view, ViewRows(view), NEW k \in ViewNames \X Subtrees,
           NEW row, row.mask \in Seq(Nat), row.included \in BOOLEAN
    PROVE  ViewRows(Put(view, k, row))
<1>1. /\ DOMAIN Put(view, k, row) = DOMAIN view \cup {k} /\ IsFiniteSet(DOMAIN Put(view, k, row))
      /\ Put(view, k, row)[k] = row
      /\ \A x \in DOMAIN view : x # k => Put(view, k, row)[x] = view[x]
  <2>1. IsFiniteSet(DOMAIN view)
    BY DEF ViewRows
  <2>2. \A d, x, v : IsFiniteSet(DOMAIN d) => IsFiniteSet(DOMAIN Put(d, x, v))
    BY FinitePut, Zenon
  <2> QED
    BY <2>1, <2>2 DEF Put
<1> QED
  BY <1>1 DEF ViewRows

LEMMA ViewRowsLess ==
    ASSUME NEW view, ViewRows(view), NEW K
    PROVE  ViewRows(Without(view, K))
<1>1. /\ DOMAIN Without(view, K) = DOMAIN view \ K /\ IsFiniteSet(DOMAIN Without(view, K))
      /\ \A x \in DOMAIN view \ K : Without(view, K)[x] = view[x]
  BY FiniteWithout DEF ViewRows
<1> QED
  BY <1>1 DEF ViewRows

\* The families addVacmUser adds for one kind of access.
LEMMA FamilyAdded ==
    ASSUME NEW view, ViewRows(view), NEW u \in Users, NEW kind \in {"read", "write"},
           NEW subtree, subtree # <<>> => subtree \in Subtrees
    PROVE  LET n == Grown(view, u, kind, subtree) IN
           /\ ViewRows(n) /\ DOMAIN view \subseteq DOMAIN n
           /\ OnlyIncluded(view) => OnlyIncluded(n)
           /\ subtree # <<>> => <<ViewOf(kind, u.model, u.name), subtree>> \in DOMAIN n
<1>1. CASE subtree = <<>>
  BY <1>1 DEF Grown
<1>2. CASE subtree # <<>>
  <2> DEFINE k == <<ViewOf(kind, u.model, u.name), subtree>>
             row == [mask |-> <<>>, included |-> TRUE]
             n == Put(view, k, row)
  <2>1. k \in ViewNames \X Subtrees
    BY <1>2 DEF ViewNames, Kinds
  <2>2. row.mask = <<>> /\ row.mask \in Seq(Nat) /\ row.included = TRUE
    OBVIOUS
  <2>3. Grown(view, u, kind, subtree) = n
    BY <1>2 DEF Grown
  <2> HIDE DEF k, row
  <2>4. ViewRows(n)
    BY <2>1, <2>2, ViewRowAdded
  <2>5. DOMAIN n = DOMAIN view \cup {k} /\ n[k] = row /\ \A x \in DOMAIN view : x # k => n[x] = view[x]
    BY DEF Put
  <2> HIDE DEF n
  <2>6. OnlyIncluded(view) => OnlyIncluded(n)
    BY <2>2, <2>5 DEF OnlyIncluded
  <2> QED
    BY <2>3, <2>4, <2>5, <2>6 DEF k
<1> QED
  BY <1>1, <1>2

\* And those delVacmUser removes: another user's views keep theirs.
LEMMA FamilyShorn ==
    ASSUME NEW view, ViewRows(view), NEW u \in Users, NEW kind \in {"read", "write"}, NEW subtree
    PROVE  LET n == Shorn(view, u, kind, subtree) IN
           /\ ViewRows(n)
           /\ OnlyIncluded(view) => OnlyIncluded(n)
           /\ \A k \in DOMAIN view : k[1] # ViewOf(kind, u.model, u.name) => k \in DOMAIN n
<1>1. CASE subtree = <<>>
  BY <1>1 DEF Shorn
<1>2. CASE subtree # <<>>
  <2> DEFINE k == <<ViewOf(kind, u.model, u.name), subtree>>
             n == Without(view, {k})
  <2>1. Shorn(view, u, kind, subtree) = n
    BY <1>2 DEF Shorn
  <2>2. k[1] = ViewOf(kind, u.model, u.name)
    OBVIOUS
  <2> HIDE DEF k
  <2>3. ViewRows(n)
    BY ViewRowsLess
  <2>4. DOMAIN n = DOMAIN view \ {k} /\ \A x \in DOMAIN view \ {k} : n[x] = view[x]
    BY FiniteWithout DEF ViewRows
  <2> HIDE DEF n
  <2>5. OnlyIncluded(view) => OnlyIncluded(n)
    BY <2>4 DEF OnlyIncluded
  <2> QED
    BY <2>1, <2>2, <2>3, <2>4, <2>5
<1> QED
  BY <1>1, <1>2

\* Given in the terms of the calls' subtrees.
LEMMA GivenSubtrees ==
    ASSUME NEW given \in Given
    PROVE  /\ given.read = given["read"] /\ given.write = given["write"]
           /\ \A kind \in {"read", "write"} : given[kind] # <<>> => given[kind] \in Subtrees
           /\ "view" \notin Written(given) => given.read = <<>> /\ given.write = <<>>
<1>1. PICK s \in Subtrees : given = Access(s, <<>>, <<>>) \/ given = Access(s, s, <<>>)
  BY DEF Given
<1> QED
  BY <1>1 DEF Access, Written

\* addVacmUser: what other calls left stays, and what it leaves itself is there.
LEMMA GrantKeeps ==
    ASSUME IInv, NEW u \in Users, NEW level \in Levels, NEW given \in Given, NEW ctx \in ContextNames,
           GrantUser(u, level, given, ctx)
    PROVE  IInv'
<1> DEFINE group == GroupOf(u.model, u.name)
           row == <<group, ctx, u.model, level>>
           mid == Grown(t.view, u, "read", given.read)
<1>1. /\ DOMAIN t' = DOMAIN t
      /\ t'.context = t.context \cup {ctx}
      /\ t'.group = Put(t.group, <<u.model, u.name>>, group)
      /\ t'.access = Put(t.access, row, AccessRow(u))
      /\ t'.view = Grown(mid, u, "write", given.write)
  <2>1. Tables \subseteq DOMAIN t /\ t' = AddVacmUser(t, u.model, u.name, level, given, ctx)
    BY DEF IInv, GrantUser
  <2>2. Added(AddVacmUser(t, u.model, u.name, level, given, ctx), u, level, given, ctx)
    BY <2>1, UserAdded
  <2> QED
    BY <2>1, <2>2 DEF Added
<1>2. u.model \in Nat
  BY AccessControlAssumption
<1>3. AccessKey(row)
  BY <1>2 DEF AccessKey
<1>4. /\ AccessRow(u).match = Exact
      /\ AccessRow(u).read = ViewOf("read", u.model, u.name)
      /\ AccessRow(u).write = ViewOf("write", u.model, u.name)
  BY DEF AccessRow
<1>5. AccessRow(u).read \in ViewNames /\ AccessRow(u).write \in ViewNames
  BY <1>4 DEF ViewNames, Kinds
<1>6. AccessRows(t'.access)
  <2> HIDE DEF row
  <2>1. AccessRows(t.access)
    BY DEF IInv
  <2>2. AccessRows(Put(t.access, row, AccessRow(u)))
    BY <1>3, <1>5, <2>1, AccessRowAdded
  <2> QED
    BY <1>1, <2>2
<1>7. /\ given.read # <<>> => given.read \in Subtrees
      /\ given.write # <<>> => given.write \in Subtrees
      /\ given["read"] = given.read /\ given["write"] = given.write
      /\ "view" \notin Written(given) => given.read = <<>> /\ given.write = <<>>
  BY GivenSubtrees
<1>8. /\ ViewRows(mid) /\ DOMAIN t.view \subseteq DOMAIN mid
      /\ OnlyIncluded(t.view) => OnlyIncluded(mid)
      /\ given.read # <<>> => <<ViewOf("read", u.model, u.name), given.read>> \in DOMAIN mid
  <2>1. ViewRows(t.view)
    BY DEF IInv
  <2> QED
    BY <1>7, <2>1, FamilyAdded
<1> HIDE DEF mid
<1>9. /\ ViewRows(t'.view) /\ DOMAIN mid \subseteq DOMAIN t'.view
      /\ OnlyIncluded(mid) => OnlyIncluded(t'.view)
      /\ given.write # <<>> => <<ViewOf("write", u.model, u.name), given.write>> \in DOMAIN t'.view
  <2>1. LET n == Grown(mid, u, "write", given.write) IN
        /\ ViewRows(n) /\ DOMAIN mid \subseteq DOMAIN n
        /\ OnlyIncluded(mid) => OnlyIncluded(n)
        /\ given.write # <<>> => <<ViewOf("write", u.model, u.name), given.write>> \in DOMAIN n
    BY <1>7, <1>8, FamilyAdded
  <2> QED
    BY <1>1, <2>1
<1>10. DOMAIN t.group \subseteq DOMAIN t'.group
       /\ <<u.model, u.name>> \in DOMAIN t'.group /\ t'.group[<<u.model, u.name>>] = group
       /\ \A k \in DOMAIN t.group : k # <<u.model, u.name>> => t'.group[k] = t.group[k]
  <2> DEFINE k == <<u.model, u.name>>
  <2> HIDE DEF k, group
  <2>1. t'.group = Put(t.group, k, group)
    BY <1>1 DEF k
  <2>2. DOMAIN t'.group = DOMAIN t.group \cup {k} /\ t'.group[k] = group
        /\ \A x \in DOMAIN t.group : x # k => t'.group[x] = t.group[x]
    BY <2>1 DEF Put
  <2> QED
    BY <2>2 DEF k
<1>11. /\ DOMAIN t.access \subseteq DOMAIN t'.access /\ row \in DOMAIN t'.access
       /\ OwnViews(t.access) => OwnViews(t'.access)
  <2>1. row[1][2] = u.model /\ row[1][3] = u.name
    BY DEF GroupOf
  <2> HIDE DEF row
  <2>2. DOMAIN t'.access = DOMAIN t.access \cup {row} /\ t'.access[row] = AccessRow(u)
        /\ \A x \in DOMAIN t.access : x # row => t'.access[x] = t.access[x]
    BY <1>1 DEF Put
  <2> QED
    BY <1>4, <2>1, <2>2 DEF OwnViews
<1>12. DOMAIN kept' = Tables /\ \A x \in Tables : kept'[x] \in {NoCopy, <<t'[x]>>}
  <2>1. Outdated(Written(given)) /\ {"context", "group", "access"} \subseteq Written(given)
    BY DEF GrantUser, Written
  <2>2. "view" \notin Written(given) => t'["view"] = t["view"]
    BY <1>1, <1>7 DEF Grown, mid
  <2>3. \A x \in Tables \ Written(given) : t'[x] = t[x]
    BY <2>1, <2>2 DEF Tables
  <2>4. TypeOK /\ DOMAIN kept = Tables
    BY DEF IInv
  <2> QED
    BY <2>1, <2>3, <2>4, CopiesKept
<1>13. TypeOK'
  BY <1>1, <1>12 DEF IInv, TypeOK
<1>14. ASSUME NEW c, ~raw, c \in granted, Granted(c), IsCall(c)
       PROVE  Granted(c)'
  <2> HIDE DEF group, row
  <2>1. /\ c.ctx \in t'.context
        /\ <<c.user.model, c.user.name>> \in DOMAIN t'.group
        /\ <<GroupOf(c.user.model, c.user.name), c.ctx, c.user.model, c.level>> \in DOMAIN t'.access
        /\ \A kind \in {"read", "write"} :
              c.subtrees[kind] # <<>> =>
                <<ViewOf(kind, c.user.model, c.user.name), c.subtrees[kind]>> \in DOMAIN t'.view
    BY <1>1, <1>8, <1>9, <1>10, <1>11, <1>14 DEF Granted
  <2>2. t'.group[<<c.user.model, c.user.name>>] = GroupOf(c.user.model, c.user.name)
    <3>1. CASE <<c.user.model, c.user.name>> = <<u.model, u.name>>
      <4>1. c.user.model = u.model /\ c.user.name = u.name
        BY <3>1
      <4> QED
        BY <1>10, <3>1, <4>1 DEF group
    <3>2. CASE <<c.user.model, c.user.name>> # <<u.model, u.name>>
      BY <1>10, <1>14, <3>2 DEF Granted
    <3> QED
      BY <3>1, <3>2
  <2> QED
    BY <2>1, <2>2 DEF Granted
<1>15. /\ IsCall(Call(u, level, given, ctx))
       /\ Granted(Call(u, level, given, ctx))'
  <2> DEFINE c == Call(u, level, given, ctx)
  <2>1. c.user = u /\ c.level = level /\ c.subtrees = given /\ c.ctx = ctx
    BY DEF Call
  <2> HIDE DEF c
  <2>2. IsCall(c)
    BY <2>1 DEF IsCall
  <2>3. Granted(c)'
    <3>1. c.ctx \in t'.context
      BY <1>1, <2>1
    <3>2. \A kind \in {"read", "write"} : c.subtrees[kind] # <<>> =>
             <<ViewOf(kind, u.model, u.name), c.subtrees[kind]>> \in DOMAIN t'.view
      BY <1>7, <1>8, <1>9, <2>1
    <3> QED
      BY <1>10, <1>11, <2>1, <3>1, <3>2 DEF Granted
  <2> QED
    BY <2>2, <2>3 DEF c
<1>16. granted' = (IF raw THEN {} ELSE granted \cup {Call(u, level, given, ctx)}) /\ raw' = raw
  BY DEF GrantUser
<1>17. Tables \subseteq DOMAIN t'
  BY <1>1 DEF IInv
<1>18. \A c \in granted' : IsCall(c)
  BY <1>15, <1>16 DEF IInv
<1>19. ~raw' => OwnViews(t'.access) /\ OnlyIncluded(t'.view) /\ \A c \in granted' : Granted(c)'
  <2> SUFFICES ASSUME ~raw
               PROVE  OwnViews(t'.access) /\ OnlyIncluded(t'.view) /\ \A c \in granted' : Granted(c)'
    BY <1>16
  <2>1. OwnViews(t.access) /\ OnlyIncluded(t.view) /\ \A c \in granted : Granted(c) /\ IsCall(c)
    BY DEF IInv
  <2> QED
    BY <1>8, <1>9, <1>11, <1>14, <1>15, <1>16, <2>1
<1> QED
  BY <1>6, <1>9, <1>12, <1>13, <1>16, <1>17, <1>18, <1>19 DEF IInv

\* delVacmUser: what calls for other users and contexts left stays.
LEMMA RevokeKeeps ==
    ASSUME IInv, NEW c, RevokeUser(c)
    PROVE  IInv'
<1> DEFINE u == c.user
           given == c.subtrees
           row == <<GroupOf(u.model, u.name), c.ctx, u.model, c.level>>
           mid == Shorn(t.view, u, "read", given.read)
<1>1. c \in granted /\ IsCall(c) /\ ~raw
  BY DEF RevokeUser, IInv
<1>2. u \in Users /\ given \in Given
  BY <1>1 DEF IsCall
<1>3. /\ DOMAIN t' = DOMAIN t
      /\ t'.context = t.context \ {c.ctx}
      /\ t'.group = Without(t.group, {<<u.model, u.name>>})
      /\ t'.access = Without(t.access, {row})
      /\ t'.view = Shorn(mid, u, "write", given.write)
  <2>1. Tables \subseteq DOMAIN t /\ t' = DelVacmUser(t, u.model, u.name, c.level, given, c.ctx)
    BY DEF IInv, RevokeUser
  <2> HIDE DEF u, given
  <2>2. Removed(DelVacmUser(t, u.model, u.name, c.level, given, c.ctx), u, c.level, given, c.ctx)
    BY <1>2, <2>1, UserRemoved
  <2> QED
    BY <2>1, <2>2 DEF Removed
<1>4. "view" \notin Written(given) => given.read = <<>> /\ given.write = <<>>
  <2> HIDE DEF given
  <2> QED
    BY <1>2, GivenSubtrees
<1> HIDE DEF u, given
<1>5. AccessRows(t'.access)
  <2>1. AccessRows(t.access)
    BY DEF IInv
  <2>2. AccessRows(Without(t.access, {row}))
    BY <2>1, AccessRowsLess
  <2> QED
    BY <1>3, <2>2
<1>6. /\ ViewRows(mid)
      /\ OnlyIncluded(t.view) => OnlyIncluded(mid)
      /\ \A k \in DOMAIN t.view : k[1] # ViewOf("read", u.model, u.name) => k \in DOMAIN mid
  <2>1. ViewRows(t.view)
    BY DEF IInv
  <2> QED
    BY <1>2, <2>1, FamilyShorn
<1>7. /\ ViewRows(t'.view)
      /\ OnlyIncluded(mid) => OnlyIncluded(t'.view)
      /\ \A k \in DOMAIN mid : k[1] # ViewOf("write", u.model, u.name) => k \in DOMAIN t'.view
  <2> HIDE DEF mid
  <2>1. LET n == Shorn(mid, u, "write", given.write) IN
        /\ ViewRows(n)
        /\ OnlyIncluded(mid) => OnlyIncluded(n)
        /\ \A k \in DOMAIN mid : k[1] # ViewOf("write", u.model, u.name) => k \in DOMAIN n
    BY <1>2, <1>6, FamilyShorn
  <2> QED
    BY <1>3, <2>1
<1>8. /\ DOMAIN t'.group = DOMAIN t.group \ {<<u.model, u.name>>}
      /\ \A k \in DOMAIN t'.group : t'.group[k] = t.group[k]
      /\ DOMAIN t'.access = DOMAIN t.access \ {row}
      /\ \A k \in DOMAIN t'.access : t'.access[k] = t.access[k]
  BY <1>3 DEF Without
<1>9. OwnViews(t.access) => OwnViews(t'.access)
  BY <1>8 DEF OwnViews
<1>10. DOMAIN kept' = Tables /\ \A x \in Tables : kept'[x] \in {NoCopy, <<t'[x]>>}
  <2>1. Outdated(Written(given)) /\ {"context", "group", "access"} \subseteq Written(given)
    BY DEF RevokeUser, Written, given
  <2>2. "view" \notin Written(given) => t'["view"] = t["view"]
    BY <1>3, <1>4 DEF Shorn, mid
  <2>3. \A x \in Tables \ Written(given) : t'[x] = t[x]
    BY <2>1, <2>2 DEF Tables
  <2>4. TypeOK /\ DOMAIN kept = Tables
    BY DEF IInv
  <2> QED
    BY <2>1, <2>3, <2>4, CopiesKept
<1>11. TypeOK'
  BY <1>3, <1>10 DEF IInv, TypeOK
<1>12. granted' = {d \in granted : d.user # u /\ d.ctx # c.ctx} /\ raw' = raw
  BY DEF RevokeUser, u
<1>13. ASSUME NEW d \in granted, d.user # u, d.ctx # c.ctx PROVE Granted(d)'
  <2>1. IsCall(d) /\ Granted(d)
    BY <1>1 DEF IInv
  <2>2. <<d.user.model, d.user.name>> # <<u.model, u.name>>
    <3>1. /\ d.user = [model |-> d.user.model, name |-> d.user.name]
          /\ u = [model |-> u.model, name |-> u.name]
      BY <1>2, <2>1, AccessControlAssumption DEF IsCall
    <3> QED
      BY <1>13, <3>1, Zenon
  <2>3. <<GroupOf(d.user.model, d.user.name), d.ctx, d.user.model, d.level>> # row
    BY <1>13
  <2>4. \A kind, other \in {"read", "write"} : ViewOf(kind, d.user.model, d.user.name) # ViewOf(other, u.model, u.name)
    BY <2>2 DEF ViewOf
  <2> DEFINE K(kind) == <<ViewOf(kind, d.user.model, d.user.name), d.subtrees[kind]>>
  <2>5. ASSUME NEW kind \in {"read", "write"}, d.subtrees[kind] # <<>>
        PROVE  K(kind) \in DOMAIN t'.view
    <3>1. K(kind) \in DOMAIN t.view
      BY <2>1, <2>5 DEF Granted
    <3>2. K(kind)[1] = ViewOf(kind, d.user.model, d.user.name)
      OBVIOUS
    <3> HIDE DEF K, mid
    <3> QED
      BY <1>6, <1>7, <2>4, <3>1, <3>2
  <2> HIDE DEF row, mid
  <2> QED
    BY <1>3, <1>8, <1>13, <2>1, <2>2, <2>3, <2>5 DEF Granted, K
<1>14. Tables \subseteq DOMAIN t'
  BY <1>3 DEF IInv
<1>15. \A d \in granted' : IsCall(d)
  BY <1>12 DEF IInv
<1>16. OwnViews(t'.access) /\ OnlyIncluded(t'.view) /\ \A d \in granted' : Granted(d)'
  <2>1. OwnViews(t.access) /\ OnlyIncluded(t.view)
    BY <1>1 DEF IInv
  <2> QED
    BY <1>6, <1>7, <1>9, <1>12, <1>13, <2>1
<1> QED
  BY <1>1, <1>5, <1>7, <1>10, <1>11, <1>12, <1>14, <1>15, <1>16 DEF IInv

\* addVacmAccess: rows written one by one end the history.
LEMMA GrantAccessKeeps ==
    ASSUME IInv, NEW u \in Users, NEW ctx \in ContextNames, NEW model \in {AnyModel, u.model},
           NEW level \in Levels, NEW match, GrantAccess(u, ctx, model, level, match, ViewAt(u, level))
    PROVE  IInv'
<1> DEFINE view == ViewAt(u, level)
           k == <<GroupOf(u.model, u.name), ctx, model, level>>
           row == [match |-> match, read |-> view, write |-> view, notify |-> view]
<1>1. Tables \subseteq DOMAIN t /\ AccessRows(t.access) /\ TypeOK /\ DOMAIN kept = Tables /\ ViewRows(t.view)
  BY DEF IInv
<1>2. t' = SetRow(t, "access", k, row)
  BY DEF GrantAccess, AddVacmAccess
<1>3. view \in ViewNames
  BY DEF ViewAt, ViewNames, Kinds
<1>4. row.read = view /\ row.write = view
  OBVIOUS
<1>5. AccessKey(k)
  BY AccessControlAssumption DEF AccessKey, AnyModel
<1> HIDE DEF k, row, view
<1>6. /\ DOMAIN t' = DOMAIN t /\ t'["access"] = Put(t["access"], k, row)
      /\ \A x \in DOMAIN t : x # "access" => t'[x] = t[x]
  BY <1>1, <1>2, RowSet DEF Tables
<1>7. AccessRows(t'["access"])
  BY <1>1, <1>3, <1>4, <1>5, <1>6, AccessRowAdded
<1>8. DOMAIN kept' = Tables /\ \A x \in Tables : kept'[x] \in {NoCopy, <<t'[x]>>}
  <2>1. Outdated({"access"}) /\ \A x \in Tables \ {"access"} : t'[x] = t[x]
    BY <1>1, <1>6 DEF GrantAccess
  <2> QED
    BY <1>1, <2>1, CopiesKept
<1>9. t'["context"] = t["context"] /\ t'["view"] = t["view"]
  BY <1>1, <1>6 DEF Tables
<1>10. TypeOK'
  BY <1>1, <1>8, <1>9 DEF TypeOK
<1>11. raw' /\ granted' = {}
  BY DEF GrantAccess
<1> QED
  BY <1>1, <1>6, <1>7, <1>8, <1>9, <1>10, <1>11 DEF IInv

\* addVacmView.
LEMMA WriteViewKeeps ==
    ASSUME IInv, NEW view \in Views, NEW included \in BOOLEAN, NEW subtree \in Subtrees, NEW mask \in Masks,
           WriteView(view, included, subtree, mask)
    PROVE  IInv'
<1> DEFINE k == <<view, subtree>>
           row == [mask |-> mask, included |-> included]
<1>1. Tables \subseteq DOMAIN t /\ AccessRows(t.access) /\ TypeOK /\ DOMAIN kept = Tables /\ ViewRows(t.view)
  BY DEF IInv
<1>2. t' = SetRow(t, "view", k, row)
  BY DEF WriteView, AddVacmView
<1>3. k \in ViewNames \X Subtrees
  BY DEF Views, ViewNames, Kinds
<1>4. row.mask \in Seq(Nat) /\ row.included \in BOOLEAN
  BY AccessControlAssumption
<1> HIDE DEF k, row
<1>5. /\ DOMAIN t' = DOMAIN t /\ t'["view"] = Put(t["view"], k, row)
      /\ \A x \in DOMAIN t : x # "view" => t'[x] = t[x]
  BY <1>1, <1>2, RowSet DEF Tables
<1>6. ViewRows(t'["view"])
  BY <1>1, <1>3, <1>4, <1>5, ViewRowAdded
<1>7. DOMAIN kept' = Tables /\ \A x \in Tables : kept'[x] \in {NoCopy, <<t'[x]>>}
  <2>1. Outdated({"view"}) /\ \A x \in Tables \ {"view"} : t'[x] = t[x]
    BY <1>1, <1>5 DEF WriteView
  <2> QED
    BY <1>1, <2>1, CopiesKept
<1>8. t'["context"] = t["context"] /\ t'["access"] = t["access"]
  BY <1>1, <1>5 DEF Tables
<1>9. TypeOK'
  BY <1>1, <1>7, <1>8 DEF TypeOK
<1>10. raw' /\ granted' = {}
  BY DEF WriteView
<1> QED
  BY <1>1, <1>5, <1>6, <1>7, <1>8, <1>9, <1>10 DEF IInv

\* delVacmView.
LEMMA RemoveViewKeeps ==
    ASSUME IInv, NEW k \in DOMAIN t.view, RemoveView(k)
    PROVE  IInv'
<1> DEFINE row == <<k[1], k[2]>>
<1>1. Tables \subseteq DOMAIN t /\ AccessRows(t.access) /\ TypeOK /\ DOMAIN kept = Tables /\ ViewRows(t.view)
  BY DEF IInv
<1>2. t' = DropRow(t, "view", row)
  BY DEF RemoveView, DelVacmView
<1> HIDE DEF row
<1>3. /\ DOMAIN t' = DOMAIN t /\ t'["view"] = Without(t["view"], {row})
      /\ \A x \in DOMAIN t : x # "view" => t'[x] = t[x]
  BY <1>1, <1>2 DEF Tables, DropRow
<1>4. ViewRows(t'["view"])
  BY <1>1, <1>3, ViewRowsLess
<1>5. DOMAIN kept' = Tables /\ \A x \in Tables : kept'[x] \in {NoCopy, <<t'[x]>>}
  <2>1. Outdated({"view"}) /\ \A x \in Tables \ {"view"} : t'[x] = t[x]
    BY <1>1, <1>3 DEF RemoveView
  <2> QED
    BY <1>1, <2>1, CopiesKept
<1>6. t'["context"] = t["context"] /\ t'["access"] = t["access"]
  BY <1>1, <1>3 DEF Tables
<1>7. TypeOK'
  BY <1>1, <1>5, <1>6 DEF TypeOK
<1>8. raw' /\ granted' = {}
  BY DEF RemoveView
<1> QED
  BY <1>1, <1>3, <1>4, <1>5, <1>6, <1>7, <1>8 DEF IInv

\* A decision copies tables, and changes none.
LEMMA CheckKeeps ==
    ASSUME IInv, NEW u, NEW level, NEW ctx, CheckAccess(u, level, ctx)
    PROVE  IInv'
<1> DEFINE Fresh(k) == DOMAIN k = Tables /\ \A x \in Tables : k[x] \in {NoCopy, <<t[x]>>}
           first == Copy(kept, "context")
           second == Copy(first, "group")
           third == Copy(second, "access")
<1>1. \A k, x : Fresh(k) => Fresh(Copy(k, x))
  BY DEF Copy
<1>2. kept' \in {first, second, third, Copy(third, "view")} /\ UNCHANGED <<t, granted, raw>>
  BY DEF CheckAccess
<1>3. Fresh(kept) /\ t.context \subseteq ContextNames
  BY DEF IInv, TypeOK
<1> HIDE DEF Fresh
<1>4. Fresh(kept')
  BY <1>1, <1>2, <1>3
<1>5. DOMAIN kept' = Tables /\ \A x \in Tables : kept'[x] \in {NoCopy, <<t[x]>>}
  BY <1>4 DEF Fresh
<1>6. TypeOK'
  BY <1>2, <1>3, <1>5 DEF TypeOK
<1> QED
  BY <1>2, <1>5, <1>6 DEF IInv, Granted

\* The invariant holds throughout.
THEOREM TablesKept == Spec => []IInv
<1>1. Init => IInv
  <2> SUFFICES ASSUME Init PROVE IInv
    OBVIOUS
  <2>1. /\ t["context"] = {} /\ DOMAIN t["access"] = {} /\ DOMAIN t["view"] = {} /\ Tables \subseteq DOMAIN t
    BY DEF Init, EmptyTables, EmptyMap, Tables
  <2>2. IsFiniteSet({})
    BY FS_EmptySet
  <2>3. AccessRows(t["access"]) /\ ViewRows(t["view"])
    BY <2>1, <2>2 DEF AccessRows, ViewRows
  <2>4. OwnViews(t["access"]) /\ OnlyIncluded(t["view"])
    BY <2>1 DEF OwnViews, OnlyIncluded
  <2>5. DOMAIN kept = Tables /\ (\A x \in Tables : kept[x] = NoCopy) /\ granted = {} /\ raw = FALSE
    BY DEF Init
  <2>6. TypeOK
    BY <2>1, <2>5 DEF TypeOK
  <2> QED
    BY <2>1, <2>3, <2>4, <2>5, <2>6 DEF IInv
<1>2. IInv /\ [Next]_vars => IInv'
  <2> SUFFICES ASSUME IInv, [Next]_vars PROVE IInv'
    OBVIOUS
  <2>1. CASE \E u \in Users, level \in Levels, given \in Given, ctx \in ContextNames :
                GrantUser(u, level, given, ctx)
    BY <2>1, GrantKeeps
  <2>2. CASE \E u \in Users : \E ctx \in ContextNames, model \in {AnyModel, u.model}, level \in Levels,
                match \in {Exact, Prefix} : GrantAccess(u, ctx, model, level, match, ViewAt(u, level))
    BY <2>2, GrantAccessKeeps
  <2>3. CASE \E view \in Views, included \in BOOLEAN, subtree \in Subtrees, mask \in Masks :
                WriteView(view, included, subtree, mask)
    BY <2>3, WriteViewKeeps
  <2>4. CASE \E c \in granted : RevokeUser(c)
    BY <2>4, RevokeKeeps
  <2>5. CASE \E k \in DOMAIN t.view : RemoveView(k)
    BY <2>5, RemoveViewKeeps
  <2>6. CASE \E u \in Users, level \in Levels, ctx \in ContextNames : CheckAccess(u, level, ctx)
    BY <2>6, CheckKeeps
  <2>7. CASE UNCHANGED vars
    BY <2>7 DEF vars, IInv, TypeOK, Granted
  <2> QED
    BY <2>1, <2>2, <2>3, <2>4, <2>5, <2>6, <2>7 DEF Next
<1> QED
  BY <1>1, <1>2, PTL DEF Spec

-----------------------------------------------------------------------------
(* Decisions.                                                              *)

\* What a decision comes to by the tables as they are.
LEMMA DecidedFromTheTables ==
    ASSUME TypeOK, NEW u, NEW level, NEW viewType, NEW ctx, NEW oid
    PROVE  Decision(u, level, viewType, ctx, oid) =
              IsAccessAllowed(t, u.model, u.name, level, viewType, ctx, oid)
<1> DEFINE c == Contents(kept)
<1>1. \A x \in Tables : c[x] = t[x]
  BY DEF Contents, TypeOK
<1>2. c["context"] = t["context"] /\ c["group"] = t["group"] /\ c["access"] = t["access"] /\ c["view"] = t["view"]
  BY <1>1 DEF Tables
<1> HIDE DEF c
<1>3. \A group : Candidates(c, group, ctx, u.model, level) = Candidates(t, group, ctx, u.model, level)
  BY <1>2 DEF Candidates
<1>4. \A group : BestCandidate(c, group, ctx, u.model, level) = BestCandidate(t, group, ctx, u.model, level)
  BY <1>3 DEF BestCandidate
<1>5. \A group : GetFamilyViewName(c, group, ctx, u.model, level, viewType) =
                    GetFamilyViewName(t, group, ctx, u.model, level, viewType)
  BY <1>2, <1>3, <1>4 DEF GetFamilyViewName
<1>6. \A view : Families(c, view) = Families(t, view)
  BY <1>2 DEF Families
<1>7. \A view : (Overruns(c, view, oid) <=> Overruns(t, view, oid)) /\ (InView(c, view, oid) <=> InView(t, view, oid))
  BY <1>6 DEF Overruns, InView
<1>8. IsAccessAllowed(c, u.model, u.name, level, viewType, ctx, oid) =
         IsAccessAllowed(t, u.model, u.name, level, viewType, ctx, oid)
  BY <1>2, <1>5, <1>6, <1>7 DEF IsAccessAllowed
<1> QED
  BY <1>8 DEF Decision, c

\* The view is that of the best candidate, and no error.
LEMMA ViewChosen ==
    ASSUME AccessRows(t.access), NEW group, NEW ctx \in Seq(Nat), NEW model \in Nat, NEW level \in Nat,
           NEW viewType \in {"read", "write"}, Candidates(t, group, ctx, model, level) # {}
    PROVE  LET b == BestCandidate(t, group, ctx, model, level) IN
           /\ b \in Candidates(t, group, ctx, model, level)
           /\ GetFamilyViewName(t, group, ctx, model, level, viewType) = t.access[b][viewType]
           /\ t.access[b][viewType] \notin {NoView("noGroupName"), NoView("notInView")}
<1> DEFINE b == BestCandidate(t, group, ctx, model, level)
           v == t.access[b][viewType]
<1>1. b \in Candidates(t, group, ctx, model, level)
  BY BestExists
<1>2. b \in DOMAIN t.access /\ b[1] = group
  BY <1>1 DEF Candidates
<1> HIDE DEF b
<1>3. GetFamilyViewName(t, group, ctx, model, level, viewType) = v
  BY <1>2 DEF GetFamilyViewName, b
<1>4. v \in ViewNames
  BY <1>2 DEF AccessRows
<1>5. \A x \in ViewNames : Len(x) = 3
  BY DEF ViewNames, ViewOf
<1>6. \A x \in {NoView("noGroupName"), NoView("notInView")} : Len(x) = 2
  BY DEF NoView
<1> HIDE DEF v
<1>7. v \notin {NoView("noGroupName"), NoView("notInView")}
  <2>1. Len(v) = 3
    BY <1>4, <1>5
  <2>2. v \in {NoView("noGroupName"), NoView("notInView")} => Len(v) = 2
    BY <1>6, Zenon
  <2>3. 3 # 2
    OBVIOUS
  <2> QED
    BY <2>1, <2>2, <2>3, Zenon
<1> QED
  BY <1>1, <1>3, <1>7 DEF v, b

\* With a view chosen that has families, and a name that reaches their wildcards.
LEMMA DecidedByTheView ==
    ASSUME AccessRows(t.access), NEW u \in Users, NEW ctx \in Seq(Nat), NEW level \in Nat,
           NEW viewType \in {"read", "write"}, NEW oid, NEW group,
           ctx \in t.context, <<u.model, u.name>> \in DOMAIN t.group, group = t.group[<<u.model, u.name>>],
           Candidates(t, group, ctx, u.model, level) # {},
           NEW view, view = t.access[BestCandidate(t, group, ctx, u.model, level)][viewType],
           Populated(view), ~Overruns(t, view, oid)
    PROVE  IsAccessAllowed(t, u.model, u.name, level, viewType, ctx, oid) = "allowed" <=> InView(t, view, oid)
<1>1. u.model \in Nat
  BY AccessControlAssumption
<1>2. /\ GetFamilyViewName(t, group, ctx, u.model, level, viewType) = view
      /\ view \notin {NoView("noGroupName"), NoView("notInView")}
  BY <1>1, ViewChosen
<1>3. Families(t, view) # {}
  BY DEF Populated, Families
<1> QED
  BY <1>2, <1>3 DEF IsAccessAllowed

\* The successive narrowing and the longest family that covers the name decide.
LEMMA ByTheTables == IInv => DecidesByTheTables
<1> SUFFICES ASSUME IInv, NEW u \in Users, NEW level \in Levels, NEW viewType \in {"read", "write"},
                    NEW ctx \in ContextNames, NEW oid \in Oids
             PROVE  LET rows == SelectedRow(t.group[<<u.model, u.name>>], ctx, u.model, level)
                        view == t.access[CHOOSE k \in rows : TRUE][viewType]
                        known == ctx \in t.context /\ <<u.model, u.name>> \in DOMAIN t.group
                        decision == Decision(u, level, viewType, ctx, oid)
                    IN IF ~known \/ rows = {} THEN decision # "allowed"
                       ELSE /\ Cardinality(rows) = 1
                            /\ Populated(view) /\ ~Overruns(t, view, oid) =>
                                  \E v \in Verdicts(view, oid) : v <=> (decision = "allowed")
  BY DEF DecidesByTheTables
<1> DEFINE group == t.group[<<u.model, u.name>>]
           C == Candidates(t, group, ctx, u.model, level)
           b == BestCandidate(t, group, ctx, u.model, level)
           rows == SelectedRow(group, ctx, u.model, level)
           view == t.access[CHOOSE k \in rows : TRUE][viewType]
           known == ctx \in t.context /\ <<u.model, u.name>> \in DOMAIN t.group
           decision == Decision(u, level, viewType, ctx, oid)
<1>1. AccessRows(t.access) /\ ViewRows(t.view) /\ TypeOK
  BY DEF IInv
<1>2. ctx \in Seq(Nat) /\ oid \in Seq(Nat) /\ u.model \in Nat /\ level \in Nat
  BY AccessControlAssumption
<1>3. decision = IsAccessAllowed(t, u.model, u.name, level, viewType, ctx, oid)
  BY <1>1, DecidedFromTheTables
<1>4. rows = IF C = {} THEN {} ELSE {b}
  BY <1>1, <1>2, BestIsSelected
<1> HIDE DEF decision, rows
<1>5. CASE ~known
  BY <1>3, <1>5 DEF IsAccessAllowed, decision, rows
<1>6. CASE known /\ C = {}
  <2>1. GetFamilyViewName(t, group, ctx, u.model, level, viewType) \in {NoView("noGroupName"), NoView("notInView")}
    BY <1>6 DEF GetFamilyViewName
  <2>2. decision \in {"noGroupName", "notInView"}
    BY <1>3, <1>6, <2>1 DEF IsAccessAllowed, NoView
  <2> QED
    BY <1>4, <1>6, <2>2 DEF decision, rows
<1>7. CASE known /\ C # {}
  <2> HIDE DEF C, b
  <2>1. rows = {b}
    BY <1>4, <1>7
  <2>2. Cardinality(rows) = 1
    BY <2>1, FS_Singleton
  <2>3. view = t.access[b][viewType]
    BY <2>1
  <2> HIDE DEF view
  <2>4. ASSUME Populated(view), ~Overruns(t, view, oid)
        PROVE  \E v \in Verdicts(view, oid) : v <=> (decision = "allowed")
    <3>1. decision = "allowed" <=> InView(t, view, oid)
      BY <1>1, <1>2, <1>3, <1>7, <2>3, <2>4, DecidedByTheView DEF C, b
    <3>2. \E v \in Verdicts(view, oid) : v <=> InView(t, view, oid)
      BY <1>1, <1>2, VerdictIsInView
    <3> QED
      BY <3>1, <3>2
  <2>5. rows # {}
    BY <2>1
  <2> QED
    BY <1>7, <2>2, <2>4, <2>5 DEF decision, rows, view
<1> QED
  BY <1>5, <1>6, <1>7

\* The row of a call applies at its level and above, the best row names the user's own
\* views, and those only include.
LEMMA AsGiven == IInv => GivenIsAllowed
<1> SUFFICES ASSUME IInv, ~raw, NEW c \in granted, NEW viewType \in {"read", "write"}, NEW oid \in Oids,
                    NEW level \in Levels, c.subtrees[viewType] # <<>>,
                    IsPrefix(c.subtrees[viewType], oid), level >= c.level
             PROVE  Decision(c.user, level, viewType, c.ctx, oid) = "allowed"
  BY DEF GivenIsAllowed
<1> DEFINE u == c.user
           group == GroupOf(u.model, u.name)
           row == <<group, c.ctx, u.model, c.level>>
           C == Candidates(t, group, c.ctx, u.model, level)
           b == BestCandidate(t, group, c.ctx, u.model, level)
           view == ViewOf(viewType, u.model, u.name)
           family == <<view, c.subtrees[viewType]>>
<1>1. /\ AccessRows(t.access) /\ ViewRows(t.view) /\ TypeOK
      /\ OwnViews(t.access) /\ OnlyIncluded(t.view) /\ Granted(c) /\ IsCall(c)
  BY DEF IInv
<1>2. u \in Users /\ u.model \in Nat /\ c.ctx \in Seq(Nat) /\ oid \in Seq(Nat) /\ level \in Nat /\ c.level \in Nat
  BY <1>1, AccessControlAssumption DEF IsCall
<1>3. /\ c.ctx \in t.context /\ <<u.model, u.name>> \in DOMAIN t.group
      /\ t.group[<<u.model, u.name>>] = group
      /\ row \in DOMAIN t.access /\ family \in DOMAIN t.view
  BY <1>1 DEF Granted
<1>4. family[1] = view /\ family[2] = c.subtrees[viewType]
  OBVIOUS
<1>5. row \in C
  <2>1. row[1] = group /\ row[2] = c.ctx /\ row[3] = u.model /\ row[4] = c.level
    OBVIOUS
  <2>2. t.access[row].match = Exact
    BY <1>1, <1>3 DEF OwnViews
  <2> HIDE DEF row, group, u
  <2> QED
    BY <1>2, <1>3, <2>1, <2>2 DEF Candidates
<1> HIDE DEF family, row
<1>6. t.access[b][viewType] = view
  <2>1. b \in C
    <3> HIDE DEF group, u
    <3> QED
      BY <1>1, <1>2, <1>5, ViewChosen
  <2>2. b \in DOMAIN t.access /\ b[1] = group
    BY <2>1 DEF Candidates
  <2>3. group[2] = u.model /\ group[3] = u.name
    BY DEF GroupOf
  <2> HIDE DEF b, group
  <2> QED
    BY <1>1, <2>2, <2>3 DEF OwnViews
<1>7. Populated(view)
  BY <1>3, <1>4 DEF Populated
<1>8. ~Overruns(t, view, oid)
  <2>1. \A k \in DOMAIN t.view : Ignored(k[2], t.view[k].mask) = {}
    BY <1>1 DEF OnlyIncluded, Ignored
  <2>2. \A f \in Families(t, view) : f.ignored = {}
    <3> SUFFICES ASSUME NEW f \in Families(t, view) PROVE f.ignored = {}
      OBVIOUS
    <3>1. PICK k \in DOMAIN t.view : f.ignored = Ignored(k[2], t.view[k].mask)
      BY DEF Families
    <3> QED
      BY <2>1, <3>1
  <2> QED
    BY <2>2 DEF Overruns
<1>9. InView(t, view, oid)
  <2>1. family[2] \in Seq(Nat)
    BY <1>1, <1>3, FamilyFits
  <2>2. Len(family[2]) <= Len(oid) /\ \A i \in 1 .. Len(family[2]) : family[2][i] = oid[i]
    <3>1. IsPrefix(family[2], oid)
      BY <1>4
    <3>2. \A p, q \in Seq(Nat) : IsPrefix(p, q) => Len(p) <= Len(q) /\ \A i \in 1 .. Len(p) : p[i] = q[i]
      BY PrefixByElements
    <3> QED
      BY <1>2, <2>1, <3>1, <3>2, Zenon
  <2>3. Covers(family, oid)
    BY <2>2 DEF Covers
  <2>4. family \in Hits(t.view, view, oid)
    BY <1>1, <1>2, <1>3, <1>4, <2>3, MatchesWhatItCovers DEF Hits
  <2> HIDE DEF view
  <2>5. PICK k \in Hits(t.view, view, oid) : \A o \in Hits(t.view, view, oid) :
              ~Before(Family(t.view, k), Family(t.view, o))
    BY <1>1, <2>4, LastHit
  <2>6. t.view[k].included
    BY <1>1 DEF OnlyIncluded, Hits
  <2> QED
    BY <2>5, <2>6, InViewByHits
<1>10. IsAccessAllowed(t, u.model, u.name, level, viewType, c.ctx, oid) = "allowed"
  <2>1. C # {}
    BY <1>5
  <2> HIDE DEF view, group, u
  <2> QED
    BY <1>1, <1>2, <1>3, <1>6, <1>7, <1>8, <1>9, <2>1, DecidedByTheView
<1>11. Decision(u, level, viewType, c.ctx, oid) = IsAccessAllowed(t, u.model, u.name, level, viewType, c.ctx, oid)
  BY <1>1, DecidedFromTheTables
<1> QED
  BY <1>10, <1>11

\* Whatever was configured and decided before, and in whatever order, a request is decided
\* by the tables as they are now, by the row and the family RFC 3415 has decide, and a user
\* has what it was given (isAccessAllowed and _getFamilyViewName in rfc3415.py, addVacmUser
\* and delVacmUser in entity/config.py).
THEOREM Decided == Spec => []DecidesAsConfigured
<1>1. IInv => TypeOK
  BY DEF IInv
<1>2. IInv => DecidesAsConfigured
  BY <1>1, ByTheTables, AsGiven DEF DecidesAsConfigured
<1> QED
  BY <1>2, TablesKept, PTL
=============================================================================
