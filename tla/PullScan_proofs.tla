---------------------------- MODULE PullScan_proofs ----------------------------
(***************************************************************************)
(* What the findings of a pull request say of its diff, for every diff and *)
(* every length of the two lists of files.                                 *)
(***************************************************************************)
EXTENDS PullScan, FiniteSetTheorems, WellFoundedInduction, TLAPS

-----------------------------------------------------------------------------
(* Sums over finite sets.                                                  *)

LEMMA Least == ASSUME NEW B \in SUBSET Nat, B # {} PROVE \E n \in B : \A m \in B : n <= m
<1>1. IsWellFoundedOn(OpToRel(<, Nat), Nat)
  BY NatLessThanWellFounded
<1>2. PICK n \in B : \A m \in B : ~ (<<m, n>> \in OpToRel(<, Nat))
  BY <1>1, WFMin
<1>3. \A m \in B : ~ (m < n)
  BY <1>2 DEF OpToRel
<1> QED BY <1>3

Some(s) == CHOOSE x \in s : TRUE
\* One step of the sum of w over s, from the sums over smaller sets.
SumStep(w, g, s) == IF s = {} THEN 0 ELSE w[Some(s)] + g[s \ {Some(s)}]
SumOf(w, S) == CHOOSE g : g = [s \in SUBSET S |-> SumStep(w, g, s)]

LEMMA SomeIsIn == \A s : s # {} => Some(s) \in s
BY DEF Some

LEMMA SumExists ==
  ASSUME NEW S, IsFiniteSet(S), NEW w, \A x \in S : w[x] \in Nat
  PROVE  \E g : g = [s \in SUBSET S |-> SumStep(w, g, s)]
<1> DEFINE Good(g, n) == \A s \in SUBSET S : Cardinality(s) <= n => g[s] = SumStep(w, g, s)
<1> DEFINE B == {n \in Nat : ~ \E g \in [SUBSET S -> Nat] : Good(g, n)}
<1>0. \A s \in SUBSET S : IsFiniteSet(s) /\ Cardinality(s) \in Nat /\ Cardinality(s) <= Cardinality(S)
  BY FS_Subset, FS_CardinalityType
<1>1. \A s \in SUBSET S : s # {} => /\ Some(s) \in S /\ s \ {Some(s)} \in SUBSET S
                                    /\ Cardinality(s \ {Some(s)}) = Cardinality(s) - 1
  <2> TAKE s \in SUBSET S
  <2> HAVE s # {}
  <2>1. Some(s) \in s
    BY SomeIsIn
  <2> QED BY <1>0, <2>1, FS_RemoveElement
<1>2. 0 \notin B
  <2>1. PICK g : g = [s \in SUBSET S |-> 0]
    OBVIOUS
  <2>2. g \in [SUBSET S -> Nat]
    BY <2>1
  <2>3. ASSUME NEW s \in SUBSET S, Cardinality(s) <= 0 PROVE g[s] = SumStep(w, g, s)
    <3>1. Cardinality(s) = 0
      BY <1>0, <2>3
    <3>2. s = {}
      BY <1>0, <3>1, FS_EmptySet
    <3> QED BY <2>1, <3>2 DEF SumStep
  <2>4. Good(g, 0)
    BY <2>3
  <2> QED BY <2>2, <2>4
<1>3. ASSUME NEW n \in B, \A m \in B : n <= m PROVE FALSE
  <2>1. n \in Nat /\ n # 0
    BY <1>2
  <2>2. n - 1 \in Nat /\ n - 1 \notin B
    <3> HIDE DEF B
    <3> QED BY <1>3, <2>1
  <2>3. PICK g \in [SUBSET S -> Nat] : Good(g, n - 1)
    BY <2>2
  <2>4. PICK h : h = [s \in SUBSET S |-> IF Cardinality(s) = n THEN SumStep(w, g, s) ELSE g[s]]
    OBVIOUS
  <2>5. ASSUME NEW s \in SUBSET S PROVE SumStep(w, g, s) \in Nat
    <3>1. CASE s = {}
      BY <3>1 DEF SumStep
    <3>2. CASE s # {}
      <4>1. w[Some(s)] \in Nat /\ g[s \ {Some(s)}] \in Nat
        BY <1>1, <3>2
      <4> QED BY <3>2, <4>1 DEF SumStep
    <3> QED BY <3>1, <3>2
  <2>6. h \in [SUBSET S -> Nat]
    BY <2>4, <2>5
  <2>7. ASSUME NEW s \in SUBSET S, Cardinality(s) <= n PROVE h[s] = SumStep(w, h, s)
    <3>1. SumStep(w, h, s) = SumStep(w, g, s)
      <4>1. CASE s = {}
        BY <4>1 DEF SumStep
      <4>2. CASE s # {}
        <5>1. s \ {Some(s)} \in SUBSET S /\ Cardinality(s \ {Some(s)}) # n
          BY <1>0, <1>1, <2>1, <2>7, <4>2
        <5>2. h[s \ {Some(s)}] = g[s \ {Some(s)}]
          BY <2>4, <5>1
        <5> QED BY <4>2, <5>2 DEF SumStep
      <4> QED BY <4>1, <4>2
    <3>2. CASE Cardinality(s) = n
      BY <2>4, <3>1, <3>2
    <3>3. CASE Cardinality(s) # n
      <4>1. Cardinality(s) <= n - 1
        BY <1>0, <2>1, <2>7, <3>3
      <4>2. g[s] = SumStep(w, g, s)
        BY <2>3, <4>1
      <4> QED BY <2>4, <3>1, <3>3, <4>2
    <3> QED BY <3>2, <3>3
  <2>8. Good(h, n)
    BY <2>7
  <2> QED BY <2>6, <2>8
<1>4. B = {}
  BY <1>3, Least
<1>5. Cardinality(S) \in Nat
  BY <1>0
<1>6. PICK g \in [SUBSET S -> Nat] : Good(g, Cardinality(S))
  BY <1>4, <1>5
<1>7. \A s \in SUBSET S : g[s] = SumStep(w, g, s)
  BY <1>0, <1>6
<1>8. g = [s \in SUBSET S |-> SumStep(w, g, s)]
  BY <1>7
<1> QED BY <1>8

\* What no step leaves, the sum does not leave.
LEMMA SumValues ==
  ASSUME NEW S, IsFiniteSet(S), NEW w, \A x \in S : w[x] \in Nat,
         NEW g, g = [s \in SUBSET S |-> SumStep(w, g, s)],
         NEW V, 0 \in V, \A x \in S, v \in V : w[x] + v \in V
  PROVE  g[S] \in V
<1> DEFINE B == {n \in Nat : \E s \in SUBSET S : Cardinality(s) = n /\ g[s] \notin V}
<1>0. \A s \in SUBSET S : IsFiniteSet(s) /\ Cardinality(s) \in Nat
  BY FS_Subset, FS_CardinalityType
<1>1. ASSUME NEW n \in B, \A m \in B : n <= m PROVE FALSE
  <2>1. n \in Nat /\ \E s \in SUBSET S : Cardinality(s) = n /\ g[s] \notin V
    OBVIOUS
  <2>t. PICK s \in SUBSET S : Cardinality(s) = n /\ g[s] \notin V
    BY <2>1
  <2>2. g[s] = SumStep(w, g, s)
    OBVIOUS
  <2>3. s # {}
    BY <2>t, <2>2 DEF SumStep
  <2>4. Some(s) \in s /\ s \ {Some(s)} \in SUBSET S
    BY <2>3, SomeIsIn
  <2>5. Cardinality(s \ {Some(s)}) = n - 1 /\ n - 1 \in Nat
    <3>1. Cardinality(s \ {Some(s)}) = Cardinality(s) - 1 /\ Cardinality(s \ {Some(s)}) \in Nat
      BY <1>0, <2>4, FS_RemoveElement
    <3> QED BY <2>t, <3>1
  <2>6. n - 1 \notin B
    <3> HIDE DEF B
    <3> QED BY <1>1, <2>1, <2>5
  <2>7. g[s \ {Some(s)}] \in V
    BY <2>4, <2>5, <2>6
  <2> QED BY <2>t, <2>2, <2>3, <2>4, <2>7 DEF SumStep
<1>2. B = {}
  BY <1>1, Least
<1> QED BY <1>0, <1>2

LEMMA SumOfIs ==
  ASSUME NEW S, IsFiniteSet(S), NEW w, \A x \in S : w[x] \in Nat
  PROVE  SumOf(w, S) = [s \in SUBSET S |-> SumStep(w, SumOf(w, S), s)]
<1>1. PICK g : g = [s \in SUBSET S |-> SumStep(w, g, s)]
  BY SumExists
<1> QED BY <1>1 DEF SumOf

LEMMA SumIsIn ==
  ASSUME NEW S, IsFiniteSet(S), NEW w, \A x \in S : w[x] \in Nat,
         NEW V, 0 \in V, \A x \in S, v \in V : w[x] + v \in V
  PROVE  SumOf(w, S)[S] \in V
BY SumOfIs, SumValues

LEMMA SumIsNat ==
  ASSUME NEW S, IsFiniteSet(S), NEW w, \A x \in S : w[x] \in Nat
  PROVE  SumOf(w, S)[S] \in Nat
<1>1. \A x \in S, v \in Nat : w[x] + v \in Nat
  OBVIOUS
<1> QED BY <1>1, SumIsIn

LEMMA SumOfZeros ==
  ASSUME NEW S, IsFiniteSet(S), NEW w, \A x \in S : w[x] = 0
  PROVE  SumOf(w, S)[S] = 0
<1>1. 0 \in {0} /\ \A x \in S : w[x] \in Nat
  OBVIOUS
<1>2. \A x \in S, v \in {0} : w[x] + v \in {0}
  <2>1. 0 + 0 = 0
    OBVIOUS
  <2> QED BY <2>1
<1>3. SumOf(w, S)[S] \in {0}
  BY <1>1, <1>2, SumIsIn
<1> QED BY <1>3

-----------------------------------------------------------------------------
(* Finite sets of files and findings.                                      *)

LEMMA FiniteImage ==
  ASSUME NEW S, IsFiniteSet(S), NEW f, NEW T, T = {f[x] : x \in S}
  PROVE  IsFiniteSet(T) /\ Cardinality(T) <= Cardinality(S)
<1>1. PICK h : h = [x \in S |-> f[x]]
  OBVIOUS
<1>2. h \in Surjection(S, T)
  BY <1>1 DEF Surjection
<1> QED BY <1>2, FS_Surjection

LEMMA CategoriesFinite == IsFiniteSet(Categories)
<1> DEFINE c == <<"auth", "billing", "database", "rls", "api", "env", "permissions",
                  "tests", "silent-success", "large">>
<1>1. IsFiniteSet(1..10)
  <2>1. 1 \in Int /\ 10 \in Int
    OBVIOUS
  <2> QED BY <2>1, FS_Interval, Zenon
<1>2. Categories = {c[i] : i \in 1..10}
  <2>1. \A i \in 1..10 : c[i] \in Categories
    BY DEF Categories
  <2>2. /\ c[1] = "auth" /\ c[2] = "billing" /\ c[3] = "database" /\ c[4] = "rls" /\ c[5] = "api"
        /\ c[6] = "env" /\ c[7] = "permissions" /\ c[8] = "tests" /\ c[9] = "silent-success"
        /\ c[10] = "large"
    OBVIOUS
  <2>3. \A x \in Categories : \E i \in 1..10 : x = c[i]
    BY <2>2 DEF Categories
  <2> QED BY <2>1, <2>3
<1> QED BY <1>1, <1>2, FiniteImage

LEMMA CategoriesOfAre == \A f : CategoriesOf(f) \subseteq Categories
<1> SUFFICES ASSUME NEW f PROVE CategoriesOf(f) \subseteq Categories
  OBVIOUS
<1>1. Surfaces(f) \subseteq SensitivePaths
  BY DEF Surfaces, SensitivePaths
<1> QED BY <1>1 DEF CategoriesOf, SensitivePaths, Categories

\* A file of a diff: its score is a number.
FileShape(f) == f.lines \in Nat /\ f.at \in Nat
\* Files of one diff stand at different places.
Placed(files) == \A f, g \in files : f.at = g.at => f = g

LEMMA ScoreIsNat == ASSUME NEW f, FileShape(f) PROVE Score(f) \in Nat
<1>1. PICK S : S = CategoriesOf(f)
  OBVIOUS
<1>2. IsFiniteSet(S) /\ \A c \in S : Weight[c] \in Nat
  <2>1. S \subseteq Categories
    BY <1>1, CategoriesOfAre
  <2>2. \A c \in Categories : Weight[c] \in Nat
    BY DEF Weight, Categories
  <2> QED BY <2>1, <2>2, CategoriesFinite, FS_Subset
<1>3. SumOf(Weight, S)[S] \in Nat
  BY <1>2, SumIsNat
<1>4. MapThenSumSet(LAMBDA c : Weight[c], S) \in Nat
  BY <1>3 DEF MapThenSumSet, MapThenFoldSet, SumOf, SumStep, Some
<1>5. Lesser(30, (f.lines + 19) \div 20) \in Nat
  BY DEF FileShape, Lesser
<1>6. (IF "apiRoute" \in f.path THEN 24 ELSE 0) \in Nat
  OBVIOUS
<1> QED BY <1>1, <1>4, <1>5, <1>6 DEF Score

LEMMA ParsedFilesAre ==
  ASSUME NEW diff \in Seq(ChangedFiles)
  PROVE  /\ IsFiniteSet(ParsedFiles(diff))
         /\ \A f \in ParsedFiles(diff) : FileShape(f)
         /\ Placed(ParsedFiles(diff))
<1> DEFINE heads == {j \in DOMAIN diff : diff[j].plain}
<1>0. /\ Len(diff) \in Nat /\ DOMAIN diff = 1..Len(diff)
      /\ \A j \in DOMAIN diff : diff[j].lines \in Nat
  <2>1. Len(diff) \in Nat /\ DOMAIN diff = 1..Len(diff) /\ \A j \in DOMAIN diff : diff[j] \in ChangedFiles
    OBVIOUS
  <2>2. \A file \in ChangedFiles : file.lines \in Nat
    BY DEF ChangedFiles
  <2> QED BY <2>1, <2>2
<1>1. IsFiniteSet(1..Len(diff))
  BY <1>0, FS_Interval
<1>2. IsFiniteSet(ParsedFiles(diff))
  <2>1. IsFiniteSet(heads)
    BY <1>0, <1>1, FS_Subset
  <2>2. PICK p : p = [i \in heads |-> ParsedFile(diff, i)]
    OBVIOUS
  <2>3. ParsedFiles(diff) = {p[i] : i \in heads}
    BY <2>2 DEF ParsedFiles
  <2> QED BY <2>1, <2>3, FiniteImage
<1>3. ASSUME NEW i \in DOMAIN diff PROVE FileShape(ParsedFile(diff, i))
  <2>1. PICK S : S = Section(diff, i)
    OBVIOUS
  <2>2. S \subseteq 1..Len(diff)
    BY <1>0, <2>1 DEF Section
  <2>3. IsFiniteSet(S)
    BY <1>1, <2>2, FS_Subset
  <2>4. PICK w : w = [j \in S |-> diff[j].lines]
    OBVIOUS
  <2>5. SumOf(w, S)[S] \in Nat
    BY <1>0, <2>2, <2>3, <2>4, SumIsNat
  <2>6. SumOf(w, S)[S] = MapThenSumSet(LAMBDA j : diff[j].lines, S)
    BY <2>4 DEF MapThenSumSet, MapThenFoldSet, SumOf, SumStep, Some
  <2>7. ParsedFile(diff, i).lines \in Nat
    BY <2>1, <2>5, <2>6 DEF ParsedFile
  <2>8. ParsedFile(diff, i).at \in Nat
    BY <1>0 DEF ParsedFile
  <2> QED BY <2>7, <2>8 DEF FileShape
<1>4. Placed(ParsedFiles(diff))
  <2>1. \A i : ParsedFile(diff, i).at = i
    BY DEF ParsedFile
  <2> QED BY <2>1 DEF ParsedFiles, Placed
<1> QED BY <1>2, <1>3, <1>4 DEF ParsedFiles

-----------------------------------------------------------------------------
(* The files a list keeps.                                                 *)

LEMMA AheadIsAnOrder ==
  ASSUME NEW f, NEW g, NEW h, FileShape(f), FileShape(g), FileShape(h)
  PROVE  /\ ~ Ahead(f, f) /\ (Ahead(f, g) /\ Ahead(g, h) => Ahead(f, h))
         /\ f.at # g.at => Ahead(f, g) \/ Ahead(g, f)
<1>1. Score(f) \in Nat /\ Score(g) \in Nat /\ Score(h) \in Nat
  BY ScoreIsNat
<1>2. f.at \in Nat /\ g.at \in Nat /\ h.at \in Nat
  BY DEF FileShape
<1> QED BY <1>1, <1>2 DEF Ahead

\* However short a list of files is, it is empty only for no files.
LEMMA FirstKeepsOne ==
  ASSUME NEW files, IsFiniteSet(files), files # {}, \A f \in files : FileShape(f),
         NEW n \in Nat \ {0}
  PROVE  First(n, files) # {} /\ First(n, files) \subseteq files
<1> DEFINE before(f) == {g \in files : Ahead(g, f)}
           counts == {Cardinality(before(f)) : f \in files}
<1>1. \A f \in files : IsFiniteSet(before(f)) /\ Cardinality(before(f)) \in Nat
  BY FS_Subset, FS_CardinalityType
<1>2. PICK m \in counts : \A k \in counts : m <= k
  <2>1. counts \in SUBSET Nat /\ counts # {}
    BY <1>1
  <2> HIDE DEF counts
  <2> QED BY <2>1, Least
<1>3. PICK f \in files : Cardinality(before(f)) = m
  OBVIOUS
<1>4. ASSUME NEW g \in files, Ahead(g, f) PROVE FALSE
  <2>1. before(g) \subseteq before(f) \ {g}
    BY <1>4, AheadIsAnOrder
  <2>2. g \in before(f)
    BY <1>4
  <2>3. IsFiniteSet(before(f) \ {g}) /\ Cardinality(before(f) \ {g}) = Cardinality(before(f)) - 1
    BY <1>1, <2>2, FS_RemoveElement, Zenon
  <2>4. Cardinality(before(g)) <= Cardinality(before(f) \ {g})
    BY <2>1, <2>3, FS_Subset
  <2>5. m <= Cardinality(before(g))
    BY <1>2
  <2> HIDE DEF before
  <2> QED BY <1>1, <1>3, <2>3, <2>4, <2>5
<1>5. before(f) = {}
  BY <1>4
<1>6. Cardinality(before(f)) < n
  BY <1>5, FS_EmptySet
<1> QED BY <1>6 DEF First

LEMMA FirstIsFinite ==
  ASSUME NEW files, IsFiniteSet(files), NEW n
  PROVE  First(n, files) \subseteq files /\ IsFiniteSet(First(n, files))
<1>1. First(n, files) \subseteq files
  BY DEF First
<1> QED BY <1>1, FS_Subset

\* A file that is ahead of another has fewer files before it.
Before(files, f) == {g \in files : Ahead(g, f)}
LEMMA AheadHasFewer ==
  ASSUME NEW files, IsFiniteSet(files), \A f \in files : FileShape(f),
         NEW f \in files, NEW g \in files, Ahead(f, g)
  PROVE  Cardinality(Before(files, f)) < Cardinality(Before(files, g))
<1> DEFINE fore == Before(files, f)
           aft == Before(files, g)
<1>1. IsFiniteSet(fore) /\ IsFiniteSet(aft) /\ Cardinality(fore) \in Nat /\ Cardinality(aft) \in Nat
  BY FS_Subset, FS_CardinalityType DEF Before
<1>2. f \in aft /\ fore \subseteq aft \ {f}
  BY AheadIsAnOrder DEF Before
<1> HIDE DEF fore, aft
<1>3. IsFiniteSet(aft \ {f}) /\ Cardinality(aft \ {f}) = Cardinality(aft) - 1
  BY <1>1, <1>2, FS_RemoveElement, Zenon
<1>4. Cardinality(fore) <= Cardinality(aft \ {f})
  BY <1>2, <1>3, FS_Subset
<1>5. Cardinality(fore) < Cardinality(aft)
  BY <1>1, <1>3, <1>4
<1> QED BY <1>5 DEF fore, aft

\* A list of n files has at most n of them.
LEMMA FirstIsShort ==
  ASSUME NEW files, IsFiniteSet(files), \A f \in files : FileShape(f), Placed(files), NEW n \in Nat
  PROVE  Cardinality(First(n, files)) <= n
<1>1. \A f \in files : Cardinality(Before(files, f)) \in Nat
  BY FS_Subset, FS_CardinalityType DEF Before
<1>2. PICK place : place = [f \in First(n, files) |-> Cardinality(Before(files, f))]
  OBVIOUS
<1>3. First(n, files) \subseteq files /\ \A f \in First(n, files) : place[f] \in 0..(n - 1)
  BY <1>1, <1>2 DEF First, Before
<1>4. ASSUME NEW f \in First(n, files), NEW g \in First(n, files), place[f] = place[g]
      PROVE  f = g
  <2>1. f \in files /\ g \in files /\ FileShape(f) /\ FileShape(g)
    BY <1>3
  <2>2. ~ Ahead(f, g)
    BY <1>1, <1>2, <1>4, <2>1, AheadHasFewer
  <2>3. ~ Ahead(g, f)
    BY <1>1, <1>2, <1>4, <2>1, AheadHasFewer
  <2>4. f.at = g.at
    BY <2>1, <2>2, <2>3, AheadIsAnOrder
  <2> QED BY <2>1, <2>4 DEF Placed
<1>5. place \in Injection(First(n, files), 0..(n - 1))
  BY <1>2, <1>3, <1>4 DEF Injection, IsInjective
<1>6. IsFiniteSet(0..(n - 1)) /\ Cardinality(0..(n - 1)) = n
  <2>1. 0 \in Int /\ n - 1 \in Int
    OBVIOUS
  <2>2. IsFiniteSet(0..(n - 1)) /\ Cardinality(0..(n - 1)) = IF 0 > n - 1 THEN 0 ELSE n - 1 - 0 + 1
    BY <2>1, FS_Interval, Zenon
  <2> QED BY <2>2
<1> QED BY <1>5, <1>6, FS_Injection

-----------------------------------------------------------------------------
(* The findings.                                                           *)

\* What readGitDiff may give for a pull request.
Readable(reading) ==
  /\ reading.diff \in Seq(ChangedFiles)
  /\ reading.diagnostics \subseteq {Finding("diff-unavailable", "info", ".")}
  /\ reading.diagnostics # {} => reading.diff = <<>>

LEMMA ReadingIs ==
  ASSUME NEW pull, pull.changed \in Seq(ChangedFiles), pull.behind \in Seq(ChangedFiles),
         NEW git \in GitOutcomes
  PROVE  /\ Readable(Reading(pull, git))
         /\ Reading(pull, git).diagnostics = {} => git # "unreadable"
<1>1. CASE git = "merge_base"
  BY <1>1 DEF Reading, Readable
<1>2. CASE git = "no_merge_base"
  <2>1. pull.changed \o pull.behind \in Seq(ChangedFiles)
    OBVIOUS
  <2> QED BY <1>2, <2>1 DEF Reading, Readable
<1>3. CASE git = "unreadable"
  <2>1. Reading(pull, git) = [diff |-> <<>>, diagnostics |-> {Finding("diff-unavailable", "info", ".")}]
    BY <1>3 DEF Reading
  <2>2. <<>> \in Seq(ChangedFiles)
    OBVIOUS
  <2> QED BY <2>1, <2>2 DEF Readable
<1> QED BY <1>1, <1>2, <1>3 DEF GitOutcomes

LEMMA RiskIsFinite ==
  ASSUME NEW reading, Readable(reading)
  PROVE  /\ IsFiniteSet(PrRisk(reading))
         /\ \A f \in PrRisk(reading) : f.rule \in Rules
<1> DEFINE files == ParsedFiles(reading.diff)
           surfaces == First(ReviewedFiles, TopRiskyFiles(files))
           trusted == First(ReviewedFiles, {g \in TopRiskyFiles(files) : CategoriesOf(g) \cap TrustBoundary # {}})
<1>1. IsFiniteSet(TopRiskyFiles(files))
  <2>1. IsFiniteSet(files)
    BY ParsedFilesAre DEF Readable
  <2>2. IsFiniteSet({f \in files : CategoriesOf(f) # {}})
    BY <2>1, FS_Subset
  <2> QED BY <2>2, FirstIsFinite DEF TopRiskyFiles
<1>2. IsFiniteSet(surfaces) /\ IsFiniteSet(trusted)
  <2>1. IsFiniteSet({g \in TopRiskyFiles(files) : CategoriesOf(g) \cap TrustBoundary # {}})
    BY <1>1, FS_Subset
  <2> QED BY <1>1, <2>1, FirstIsFinite
<1>3. IsFiniteSet(SurfaceFindings(files))
  <2>1. PICK h : h = [f \in surfaces |-> Finding("sensitive-surface", IF Score(f) >= 70 THEN "high" ELSE "medium", f.name)]
    OBVIOUS
  <2>2. SurfaceFindings(files) = {h[f] : f \in surfaces}
    BY <2>1 DEF SurfaceFindings
  <2> QED BY <1>2, <2>2, FiniteImage
<1>4. IsFiniteSet(SpecFindings(files))
  <2>1. PICK h : h = [f \in trusted |-> Finding("missing-spec", IF Score(f) >= 70 THEN "medium" ELSE "low", f.name)]
    OBVIOUS
  <2>2. SpecFindings(files) = {h[f] : f \in trusted}
    BY <2>1 DEF SpecFindings
  <2> HIDE DEF trusted
  <2> QED BY <1>2, <2>2, FiniteImage
<1>5. IsFiniteSet(FileFindings(files))
  <2>1. IsFiniteSet(SurfaceFindings(files) \cup SpecFindings(files))
    BY <1>3, <1>4, FS_Union
  <2>2. FileFindings(files) \subseteq SurfaceFindings(files) \cup SpecFindings(files)
    BY DEF FileFindings
  <2> QED BY <2>1, <2>2, FS_Subset
<1>6. IsFiniteSet(reading.diagnostics) /\ IsFiniteSet(NoDiff(reading))
  <2>1. NoDiff(reading) \subseteq {Finding("no-diff", "info", ".")}
    BY DEF NoDiff
  <2>2. IsFiniteSet({Finding("no-diff", "info", ".")}) /\ IsFiniteSet({Finding("diff-unavailable", "info", ".")})
    BY FS_Singleton
  <2> QED BY <2>1, <2>2, FS_Subset DEF Readable
<1>7. IsFiniteSet(PrRisk(reading))
  <2>1. IsFiniteSet(reading.diagnostics \cup FileFindings(files))
    BY <1>5, <1>6, FS_Union
  <2> QED BY <1>6, <2>1, FS_Union DEF PrRisk
<1>8. \A f \in SurfaceFindings(files) \cup SpecFindings(files) : f.rule \in Rules
  <2>1. \A severity, file : /\ Finding("sensitive-surface", severity, file).rule \in Rules
                            /\ Finding("missing-spec", severity, file).rule \in Rules
    BY DEF Finding, Rules
  <2> QED BY <2>1 DEF SurfaceFindings, SpecFindings
<1>9. \A f \in reading.diagnostics \cup NoDiff(reading) : f.rule \in Rules
  BY DEF Readable, NoDiff, Finding, Rules
<1> QED BY <1>7, <1>8, <1>9 DEF PrRisk, FileFindings

\* No finding of pr-risk: a diff was read, and no file in it has a category, whatever
\* the two lists leave out.
LEMMA NoRiskIsEarned ==
  ASSUME NEW reading, Readable(reading), PrRisk(reading) = {}
  PROVE  /\ reading.diagnostics = {} /\ reading.diff # <<>>
         /\ \A f \in ParsedFiles(reading.diff) : CategoriesOf(f) = {}
<1> DEFINE files == ParsedFiles(reading.diff)
           risky == {f \in files : CategoriesOf(f) # {}}
<1>1. reading.diagnostics = {} /\ NoDiff(reading) = {} /\ SurfaceFindings(files) = {}
  BY DEF PrRisk, FileFindings
<1>2. reading.diff # <<>>
  BY <1>1 DEF NoDiff
<1>3. First(ReviewedFiles, TopRiskyFiles(files)) = {}
  BY <1>1 DEF SurfaceFindings
<1>4. IsFiniteSet(risky) /\ \A f \in risky : FileShape(f)
  BY ParsedFilesAre, FS_Subset DEF Readable
<1>5. ASSUME risky # {} PROVE FALSE
  <2>1. TopRiskyFiles(files) # {} /\ TopRiskyFiles(files) \subseteq risky
    BY <1>4, <1>5, FirstKeepsOne, ListsAssumption DEF TopRiskyFiles
  <2>2. IsFiniteSet(TopRiskyFiles(files)) /\ \A f \in TopRiskyFiles(files) : FileShape(f)
    BY <1>4, <2>1, FS_Subset
  <2> QED BY <1>3, <2>1, <2>2, FirstKeepsOne, ListsAssumption
<1> QED BY <1>1, <1>2, <1>5

\* The configuration of the scanned repository keeps the findings finite, and without a
\* rule turned off or a suppression it keeps every one.
LEMMA ConfiguredIs ==
  ASSUME NEW config, NEW findings, IsFiniteSet(findings), \A f \in findings : f.rule \in Rules
  PROVE  /\ IsFiniteSet(Configured(config, findings))
         /\ Cardinality(Configured(config, findings)) <= Cardinality(findings)
         /\ Configured(config, findings) = {} =>
              \/ config.suppressed # {} \/ \E r \in Rules : config.rules[r] = "off"
              \/ findings = {}
<1> DEFINE kept == {g \in findings : config.rules[g.rule] # "off" /\ <<g.rule, g.file>> \notin config.suppressed}
<1>1. /\ IsFiniteSet(kept) /\ Cardinality(kept) <= Cardinality(findings)
      /\ Cardinality(kept) \in Nat /\ Cardinality(findings) \in Nat
  BY FS_Subset, FS_CardinalityType
<1>2. PICK h : h = [f \in kept |-> IF config.rules[f.rule] = "default" THEN f
                                   ELSE [f EXCEPT !.severity = config.rules[f.rule]]]
  OBVIOUS
<1>3. Configured(config, findings) = {h[f] : f \in kept}
  BY <1>2 DEF Configured
<1>4. Configured(config, findings) = {} => kept = {}
  BY <1>3
<1>5. /\ IsFiniteSet(Configured(config, findings))
      /\ Cardinality(Configured(config, findings)) <= Cardinality(kept)
  <2> HIDE DEF kept
  <2> QED BY <1>1, <1>3, FiniteImage
<1>6. Cardinality(Configured(config, findings)) <= Cardinality(findings)
  <2>1. Cardinality(Configured(config, findings)) \in Nat
    BY <1>5, FS_CardinalityType
  <2> HIDE DEF kept
  <2> QED BY <1>1, <1>5, <2>1
<1> QED BY <1>4, <1>5, <1>6

LEMMA CliFindingsAre ==
  ASSUME NEW pull, pull.changed \in Seq(ChangedFiles), pull.behind \in Seq(ChangedFiles),
         NEW git \in GitOutcomes
  PROVE  /\ IsFiniteSet(CliFindings(pull, git))
         /\ CliFindings(pull, git) = {} =>
              \/ pull.config.suppressed # {} \/ \E r \in Rules : pull.config.rules[r] = "off"
              \/ /\ git # "unreadable" /\ Reading(pull, git).diff # <<>>
                 /\ \A f \in ParsedFiles(Reading(pull, git).diff) : CategoriesOf(f) = {}
<1>1. PICK reading : reading = Reading(pull, git)
  OBVIOUS
<1>2. Readable(reading) /\ (reading.diagnostics = {} => git # "unreadable")
  BY <1>1, ReadingIs
<1>3. IsFiniteSet(PrRisk(reading)) /\ \A f \in PrRisk(reading) : f.rule \in Rules
  BY <1>2, RiskIsFinite
<1>4. CliFindings(pull, git) = Configured(pull.config, PrRisk(reading))
  BY <1>1 DEF CliFindings
<1> QED BY <1>1, <1>2, <1>3, <1>4, ConfiguredIs, NoRiskIsEarned

\* However the counts add up, a green conclusion is of a report without a finding, and
\* the verdict says so.
LEMMA GreenIsEmpty ==
  ASSUME NEW findings, IsFiniteSet(findings), NEW failOn,
         Conclusion(Report(findings), failOn) = "success"
  PROVE  findings = {} /\ Verdict(Report(findings)) = "clear from current heuristics"
<1>1. FindingTotal(Report(findings)) = 0
  BY DEF Conclusion
<1>2. PICK counted : FindingTotal(Report(findings)) =
                       IF counted < Cardinality(findings) THEN Cardinality(findings) ELSE counted
  BY DEF FindingTotal, Report
<1>3. Cardinality(findings) \in Nat
  BY FS_CardinalityType
<1>4. findings = {}
  BY <1>1, <1>2, <1>3, FS_EmptySet
<1>5. \A s \in Severities : Report(findings).counts[s] = 0
  BY <1>4, FS_EmptySet DEF Report
<1> QED BY <1>4, <1>5 DEF Verdict, Severities

-----------------------------------------------------------------------------
(* The size of a report, and its two readings.                             *)

LEMMA FileFindingsAreFew ==
  ASSUME NEW diff \in Seq(ChangedFiles)
  PROVE  /\ IsFiniteSet(FileFindings(ParsedFiles(diff)))
         /\ Cardinality(FileFindings(ParsedFiles(diff))) <= 2 * ReviewedFiles
<1>1. PICK files : files = ParsedFiles(diff)
  OBVIOUS
<1>2. PICK risky : risky = TopRiskyFiles(files)
  OBVIOUS
<1>3. IsFiniteSet(files) /\ Placed(files) /\ \A f \in files : FileShape(f)
  BY <1>1, ParsedFilesAre
<1>4. risky \subseteq files /\ IsFiniteSet(risky)
  <2>1. risky \subseteq files
    BY <1>2 DEF TopRiskyFiles, First
  <2> QED BY <1>3, <2>1, FS_Subset
<1>5. ASSUME NEW some, some \subseteq risky
      PROVE  IsFiniteSet(First(ReviewedFiles, some)) /\ Cardinality(First(ReviewedFiles, some)) <= ReviewedFiles
  <2>1. IsFiniteSet(some) /\ Placed(some) /\ \A f \in some : FileShape(f)
    <3>1. IsFiniteSet(some)
      BY <1>4, <1>5, FS_Subset
    <3> QED BY <1>3, <1>4, <1>5, <3>1 DEF Placed
  <2>2. ReviewedFiles \in Nat
    BY ListsAssumption
  <2> QED BY <2>1, <2>2, FirstIsShort, FirstIsFinite
<1>6. IsFiniteSet(SurfaceFindings(files)) /\ Cardinality(SurfaceFindings(files)) <= Cardinality(First(ReviewedFiles, risky))
  <2>1. PICK h : h = [f \in First(ReviewedFiles, risky) |->
                        Finding("sensitive-surface", IF Score(f) >= 70 THEN "high" ELSE "medium", f.name)]
    OBVIOUS
  <2>2. SurfaceFindings(files) = {h[f] : f \in First(ReviewedFiles, risky)}
    BY <1>2, <2>1 DEF SurfaceFindings
  <2> QED BY <1>5, <2>2, FiniteImage
<1>7. PICK trusted : trusted = {g \in risky : CategoriesOf(g) \cap TrustBoundary # {}}
  OBVIOUS
<1>8. IsFiniteSet(SpecFindings(files)) /\ Cardinality(SpecFindings(files)) <= Cardinality(First(ReviewedFiles, trusted))
  <2>1. PICK h : h = [f \in First(ReviewedFiles, trusted) |->
                        Finding("missing-spec", IF Score(f) >= 70 THEN "medium" ELSE "low", f.name)]
    OBVIOUS
  <2>2. SpecFindings(files) = {h[f] : f \in First(ReviewedFiles, trusted)}
    BY <1>2, <1>7, <2>1 DEF SpecFindings
  <2>3. trusted \subseteq risky
    BY <1>7
  <2> QED BY <1>5, <2>2, <2>3, FiniteImage
<1>9. PICK both : both = SurfaceFindings(files) \cup SpecFindings(files)
  OBVIOUS
<1>10. IsFiniteSet(both) /\ Cardinality(both) <= 2 * ReviewedFiles
  <2>1. IsFiniteSet(both) /\ IsFiniteSet(SurfaceFindings(files) \cap SpecFindings(files))
    BY <1>6, <1>8, <1>9, FS_Union, FS_Subset
  <2>2. Cardinality(both) = Cardinality(SurfaceFindings(files)) + Cardinality(SpecFindings(files))
                            - Cardinality(SurfaceFindings(files) \cap SpecFindings(files))
    BY <1>6, <1>8, <1>9, FS_Union
  <2>3. trusted \subseteq risky
    BY <1>7
  <2>4. /\ Cardinality(First(ReviewedFiles, risky)) <= ReviewedFiles
        /\ Cardinality(First(ReviewedFiles, trusted)) <= ReviewedFiles
        /\ IsFiniteSet(First(ReviewedFiles, risky)) /\ IsFiniteSet(First(ReviewedFiles, trusted))
    BY <1>5, <2>3
  <2>5. /\ Cardinality(First(ReviewedFiles, risky)) \in Nat
        /\ Cardinality(First(ReviewedFiles, trusted)) \in Nat
        /\ Cardinality(SurfaceFindings(files)) \in Nat /\ Cardinality(SpecFindings(files)) \in Nat
        /\ Cardinality(SurfaceFindings(files) \cap SpecFindings(files)) \in Nat
    BY <1>6, <1>8, <2>1, <2>4, FS_CardinalityType
  <2>6. ReviewedFiles \in Nat
    BY ListsAssumption
  <2> QED BY <1>6, <1>8, <2>1, <2>2, <2>4, <2>5, <2>6
<1>11. FileFindings(files) \subseteq both
  BY <1>9 DEF FileFindings
<1>12. /\ IsFiniteSet(FileFindings(files)) /\ Cardinality(FileFindings(files)) <= Cardinality(both)
       /\ Cardinality(FileFindings(files)) \in Nat /\ Cardinality(both) \in Nat
  BY <1>10, <1>11, FS_Subset, FS_CardinalityType
<1>13. Cardinality(FileFindings(files)) <= 2 * ReviewedFiles
  BY <1>10, <1>12, ListsAssumption
<1> QED BY <1>1, <1>12, <1>13

\* However many files a pull request changes and whatever git gives of it, its report keeps
\* at most two findings for each file that is reviewed (topRiskyFiles, classifyPrRisk).
THEOREM ReportsAreShort ==
  ASSUME NEW pull, pull.changed \in Seq(ChangedFiles), pull.behind \in Seq(ChangedFiles),
         NEW git \in GitOutcomes
  PROVE  Cardinality(Report(CliFindings(pull, git)).evidence) <= 2 * ReviewedFiles
<1>1. PICK reading : reading = Reading(pull, git)
  OBVIOUS
<1>2. Readable(reading)
  BY <1>1, ReadingIs
<1>3. IsFiniteSet(PrRisk(reading)) /\ \A f \in PrRisk(reading) : f.rule \in Rules
  BY <1>2, RiskIsFinite
<1>4. Cardinality(PrRisk(reading)) <= 2 * ReviewedFiles
  <2>1. CASE reading.diff = <<>>
    <3>1. ParsedFiles(reading.diff) = {}
      BY <2>1 DEF ParsedFiles
    <3>2. FileFindings(ParsedFiles(reading.diff)) = {}
      BY <3>1 DEF FileFindings, SurfaceFindings, SpecFindings, TopRiskyFiles, First
    <3>3. \E x : PrRisk(reading) \subseteq {x}
      <4>1. CASE reading.diagnostics = {}
        <5>1. PrRisk(reading) \subseteq {Finding("no-diff", "info", ".")}
          BY <3>2, <4>1 DEF PrRisk, NoDiff
        <5> QED BY <5>1
      <4>2. CASE reading.diagnostics # {}
        <5>1. PrRisk(reading) \subseteq {Finding("diff-unavailable", "info", ".")}
          BY <1>2, <3>2, <4>2 DEF PrRisk, NoDiff, Readable
        <5> QED BY <5>1
      <4> QED BY <4>1, <4>2
    <3>4. PICK x : PrRisk(reading) \subseteq {x}
      BY <3>3
    <3>5. IsFiniteSet({x}) /\ Cardinality({x}) = 1
      BY FS_Singleton
    <3>6. Cardinality(PrRisk(reading)) <= 1
      BY <3>4, <3>5, FS_Subset
    <3>7. Cardinality(PrRisk(reading)) \in Nat
      BY <1>3, FS_CardinalityType
    <3> QED BY <3>6, <3>7, ListsAssumption
  <2>2. CASE reading.diff # <<>>
    <3>1. PrRisk(reading) = FileFindings(ParsedFiles(reading.diff))
      BY <1>2, <2>2 DEF PrRisk, NoDiff, Readable
    <3> QED BY <1>2, <3>1, FileFindingsAreFew DEF Readable
  <2> QED BY <2>1, <2>2
<1>5. PICK findings : findings = CliFindings(pull, git)
  OBVIOUS
<1>6. findings = Configured(pull.config, PrRisk(reading))
  BY <1>1, <1>5 DEF CliFindings
<1>7. IsFiniteSet(findings) /\ Cardinality(findings) <= Cardinality(PrRisk(reading))
  BY <1>3, <1>6, ConfiguredIs
<1>8. Cardinality(findings) <= 2 * ReviewedFiles
  <2>1. Cardinality(findings) \in Nat /\ Cardinality(PrRisk(reading)) \in Nat
    BY <1>3, <1>7, FS_CardinalityType
  <2> QED BY <1>4, <1>7, <2>1, ListsAssumption
<1> QED BY <1>5, <1>8 DEF Report

\* The Check Run is green exactly when its text says that the heuristics found nothing: the
\* conclusion counts findings, the verdict looks at the worst severity counted
\* (resolveCheckRunConclusion, hostedLaunchGateVerdict).
THEOREM GreenIsClear ==
  ASSUME NEW findings, IsFiniteSet(findings), \A f \in findings : f.severity \in Severities, NEW failOn
  PROVE  Conclusion(Report(findings), failOn) = "success"
           <=> Verdict(Report(findings)) = "clear from current heuristics"
<1>1. PICK counts : counts = Report(findings).counts
  OBVIOUS
<1>2. \A s \in Severities : /\ IsFiniteSet({f \in findings : f.severity = s})
                           /\ counts[s] = Cardinality({f \in findings : f.severity = s})
                           /\ counts[s] \in Nat
  BY <1>1, FS_Subset, FS_CardinalityType DEF Report
<1>3. ASSUME Verdict(Report(findings)) = "clear from current heuristics"
      PROVE  findings = {}
  <2>1. \A s \in Severities : ~ (counts[s] > 0)
    BY <1>1, <1>3 DEF Verdict, Severities
  <2>2. ASSUME NEW f \in findings PROVE FALSE
    <3>1. PICK same : same = {g \in findings : g.severity = f.severity}
      OBVIOUS
    <3>2. f.severity \in Severities
      OBVIOUS
    <3>3. IsFiniteSet(same) /\ counts[f.severity] = Cardinality(same) /\ counts[f.severity] \in Nat
      BY <1>2, <3>1, <3>2
    <3>4. Cardinality(same) = 0
      BY <2>1, <3>2, <3>3
    <3>5. same = {}
      BY <3>3, <3>4, FS_EmptySet
    <3> QED BY <3>1, <3>5
  <2> QED BY <2>2
<1>4. ASSUME findings = {} PROVE Conclusion(Report(findings), failOn) = "success"
  <2>1. \A s \in Severities : counts[s] = 0
    BY <1>2, <1>4, FS_EmptySet
  <2>2. IsFiniteSet(Severities)
    <3>1. IsFiniteSet({"critical"} \cup {"high"} \cup {"medium"} \cup {"low"} \cup {"info"})
      BY FS_Singleton, FS_Union
    <3>2. Severities = {"critical"} \cup {"high"} \cup {"medium"} \cup {"low"} \cup {"info"}
      BY DEF Severities
    <3> QED BY <3>1, <3>2
  <2>3. SumOf(counts, Severities)[Severities] = 0
    BY <2>1, <2>2, SumOfZeros
  <2>4. MapThenSumSet(LAMBDA s : Report(findings).counts[s], Severities) = 0
    BY <1>1, <2>3 DEF MapThenSumSet, MapThenFoldSet, SumOf, SumStep, Some
  <2>5. Cardinality(Report(findings).evidence) = 0
    BY <1>4, FS_EmptySet DEF Report
  <2>6. FindingTotal(Report(findings)) = 0
    <3>1. FindingTotal(Report(findings)) = IF 0 < Cardinality(Report(findings).evidence)
                                           THEN Cardinality(Report(findings).evidence) ELSE 0
      BY <2>4 DEF FindingTotal
    <3> QED BY <2>5, <3>1
  <2> QED BY <2>6 DEF Conclusion
<1> QED BY <1>3, <1>4, GreenIsEmpty
=============================================================================
