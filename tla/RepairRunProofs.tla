--------------------------- MODULE RepairRunProofs ---------------------------
(***************************************************************************)
(* Theorems about ModelRouter, RepairLadder and RepairRun, for any         *)
(* profiles, policy, ladder, plans and findings, whatever the providers    *)
(* report and whatever fails.                                              *)
(***************************************************************************)
EXTENDS RepairRun, WellFoundedInduction, FiniteSetTheorems, TLAPS

-----------------------------------------------------------------------------
(* ORDERS.  A finite set in a strict total order, given by the elements     *)
(* before each, has one element at every place.                             *)
LEMMA Places ==
  ASSUME NEW S, IsFiniteSet(S), NEW pre \in [S -> SUBSET S],
         \A a \in S : a \notin pre[a],
         \A a \in S : \A b \in pre[a] : pre[b] \subseteq pre[a],
         \A a, b \in S : a # b => a \in pre[b] \/ b \in pre[a]
  PROVE  /\ Cardinality(S) \in Nat
         /\ \A a \in S : Cardinality(pre[a]) \in 0..(Cardinality(S) - 1)
         /\ \A a, b \in S : a # b => Cardinality(pre[a]) # Cardinality(pre[b])
<1> DEFINE n == Cardinality(S)
<1>1. n \in Nat
  BY FS_CardinalityType
<1>2. ASSUME NEW a \in S PROVE IsFiniteSet(pre[a]) /\ Cardinality(pre[a]) \in 0..(n - 1)
  <2>1. IsFiniteSet(S \ {a}) /\ Cardinality(S \ {a}) = n - 1
    BY <1>2, FS_RemoveElement
  <2>2. pre[a] \in SUBSET (S \ {a})
    BY <1>2
  <2>3. IsFiniteSet(pre[a]) /\ Cardinality(pre[a]) <= n - 1
    BY <2>1, <2>2, FS_Subset
  <2> QED BY <1>1, <2>3, FS_CardinalityType
<1>3. ASSUME NEW a \in S, NEW b \in S, a \in pre[b] PROVE Cardinality(pre[a]) < Cardinality(pre[b])
  <2>1. pre[a] \in SUBSET pre[b] /\ pre[a] # pre[b]
    BY <1>3
  <2>2. Cardinality(pre[a]) <= Cardinality(pre[b]) /\ Cardinality(pre[a]) # Cardinality(pre[b])
    BY <1>2, <2>1, FS_Subset
  <2> QED BY <1>1, <1>2, <2>2
<1>4. \A a, b \in S : a # b => Cardinality(pre[a]) # Cardinality(pre[b])
  BY <1>1, <1>2, <1>3
<1> QED BY <1>1, <1>2, <1>4

LEMMA Lineup ==
  ASSUME NEW S, IsFiniteSet(S), NEW pre \in [S -> SUBSET S],
         \A a \in S : a \notin pre[a],
         \A a \in S : \A b \in pre[a] : pre[b] \subseteq pre[a],
         \A a, b \in S : a # b => a \in pre[b] \/ b \in pre[a]
  PROVE  \A k \in 1..Cardinality(S) : \E a \in S : Cardinality(pre[a]) = k - 1
<1> DEFINE n == Cardinality(S)
           place == [a \in S |-> Cardinality(pre[a]) + 1]
<1>1. n \in Nat
  BY FS_CardinalityType
<1>2. \A a \in S : Cardinality(pre[a]) \in 0..(n - 1)
  BY Places
<1>4. \A a, b \in S : a # b => Cardinality(pre[a]) # Cardinality(pre[b])
  BY Places
<1> SUFFICES ASSUME NEW k \in 1..n, \A a \in S : Cardinality(pre[a]) # k - 1 PROVE FALSE
  OBVIOUS
<1>5. place \in [S -> (1..n) \ {k}]
  <2> SUFFICES ASSUME NEW a \in S PROVE Cardinality(pre[a]) + 1 \in (1..n) \ {k}
    OBVIOUS
  <2> QED BY <1>1, <1>2
<1>6. IsFiniteSet((1..n) \ {k}) /\ Cardinality((1..n) \ {k}) = n - 1
  <2>1. IsFiniteSet(1..n) /\ Cardinality(1..n) = n
    <3>1. Cardinality(1..n) = IF 1 > n THEN 0 ELSE n - 1 + 1
      BY <1>1, FS_Interval
    <3> QED BY <1>1, <3>1, FS_Interval
  <2> HIDE DEF n
  <2> QED BY <2>1, FS_RemoveElement
<1>7. \E a, b \in S : a # b /\ place[a] = place[b]
  <2> HIDE DEF place
  <2>1. Cardinality((1..n) \ {k}) < Cardinality(S)
    BY <1>1, <1>6
  <2> QED BY <1>5, <1>6, <2>1, FS_PigeonHole
<1> QED BY <1>1, <1>2, <1>4, <1>7

\* The natural numbers are the least set with 0 and every successor.
LEMMA Induction ==
  ASSUME NEW S, 0 \in S, \A n \in Nat : n \in S => n + 1 \in S
  PROVE  Nat \subseteq S
<1> DEFINE R == OpToRel(<, Nat)
           T == Nat \ S
<1> SUFFICES ASSUME T # {} PROVE FALSE
  OBVIOUS
<1>1. IsWellFoundedOn(R, Nat)
  BY NatLessThanWellFounded
<1>2. \A a, b \in Nat : a < b => <<a, b>> \in R
  BY DEF OpToRel
<1>3. T \subseteq Nat
  OBVIOUS
<1> HIDE DEF R
<1>4. PICK x \in T : \A y \in T : ~(<<y, x>> \in R)
  <2> HIDE DEF T
  <2> QED BY <1>1, <1>3, WFMin
<1>5. x # 0 /\ x \in Nat
  OBVIOUS
<1>6. x - 1 \in Nat /\ x - 1 < x /\ x = (x - 1) + 1
  BY <1>5
<1>7. x - 1 \in S
  BY <1>2, <1>4, <1>5, <1>6
<1> QED BY <1>6, <1>7

\* A finite set of numbers has a largest one.
LEMMA Largest ==
  ASSUME NEW S \in SUBSET Int, IsFiniteSet(S), S # {}
  PROVE  \E x \in S : \A y \in S : x >= y
<1> DEFINE Good == {n \in Nat : \A T \in SUBSET Int :
                      IsFiniteSet(T) /\ Cardinality(T) = n /\ T # {} => \E x \in T : \A y \in T : x >= y}
<1>1. 0 \in Good
  BY FS_EmptySet
<1>2. ASSUME NEW n \in Nat, n \in Good PROVE n + 1 \in Good
  <2> SUFFICES ASSUME NEW T \in SUBSET Int, IsFiniteSet(T), Cardinality(T) = n + 1, T # {}
               PROVE  \E x \in T : \A y \in T : x >= y
    OBVIOUS
  <2>1. PICK t \in T : TRUE
    OBVIOUS
  <2>2. IsFiniteSet(T \ {t}) /\ Cardinality(T \ {t}) = n
    <3> DEFINE U == T \ {t}
    <3>1. IsFiniteSet(U) /\ Cardinality(U) = Cardinality(T) - 1
      BY <2>1, FS_RemoveElement
    <3> HIDE DEF U
    <3> QED BY <3>1 DEF U
  <2>3. CASE T \ {t} = {}
    BY <2>1, <2>3
  <2>4. CASE T \ {t} # {}
    <3>1. PICK x \in T \ {t} : \A y \in T \ {t} : x >= y
      BY <1>2, <2>2, <2>4
    <3> QED BY <2>1, <3>1
  <2> QED BY <2>3, <2>4
<1>3. Nat \subseteq Good
  <2> HIDE DEF Good
  <2> QED BY <1>1, <1>2, Induction
<1>4. Cardinality(S) \in Nat
  BY FS_CardinalityType
<1> QED BY <1>3, <1>4

\* An image of a finite set is finite.
LEMMA FiniteImage ==
  ASSUME NEW S, IsFiniteSet(S), NEW f, DOMAIN f = S, NEW T, T = {f[x] : x \in S}, f \in [S -> T]
  PROVE  IsFiniteSet(T)
<1>1. f \in Surjection(S, T)
  BY DEF Surjection
<1> QED BY <1>1, FS_Surjection

-----------------------------------------------------------------------------
(* THE ROUTER.  A view's percentage is a number or None, so that scores are *)
(* numbers and the ranking is one of eligible profiles.                     *)
LEMMA Larger ==
  ASSUME NEW x \in Int
  PROVE  MaxOf({0, x}) \in Nat
BY DEF MaxOf

\* normalize_limit keeps numbers.
LEMMA NormalLimitIs ==
  ASSUME NEW l \in Limits, NEW now_ \in Nat, NEW n, n = NormalLimit(l, now_)
  PROVE  /\ DOMAIN n = {"percent", "certainty", "resetsIn", "blocked", "lastReset"}
         /\ n.percent \in Nat \cup {None} /\ n.resetsIn \in Nat \cup {None}
<1>1. l.percent \in 0..100 \cup {None} /\ l.resetsAt \in Nat \cup {None}
  BY DEF Limits
<1>2. l.resetsAt # None => MaxOf({0, l.resetsAt - now_}) \in Nat
  BY <1>1, Larger DEF None
<1>3. DOMAIN n = {"percent", "certainty", "resetsIn", "blocked", "lastReset"}
  BY DEF NormalLimit
<1>4. n.percent \in {None, l.percent}
  BY DEF NormalLimit
<1>5. n.resetsIn = IF l.resetsAt = None THEN None ELSE MaxOf({0, l.resetsAt - now_})
  BY DEF NormalLimit
<1> QED BY <1>1, <1>2, <1>3, <1>4, <1>5

Reports(tel) == \A pool \in Pools : IsFiniteSet(tel[pool]) /\ tel[pool] \subseteq Limits

\* A quota view names a percentage.
LEMMA ViewIs ==
  ASSUME NEW tel, Reports(tel), NEW p \in Profiles, NEW now_ \in Nat, NEW v, v = QuotaView(tel, p, now_)
  PROVE  v.percent \in Int
<1> DEFINE own == {k \in tel[Traits[p].pool] : k.model \in {"any", Traits[p].model}}
           limits == {NormalLimit(l, now_) : l \in own}
           blocked == {l \in limits : l.blocked}
           known == {l \in limits : l.percent # None}
           binding == CASE blocked # {} -> CHOOSE l \in blocked : \A k \in blocked : l.resetsIn >= k.resetsIn
                   [] blocked = {} /\ known # {} ->
                        CHOOSE l \in known : \A k \in known :
                          \/ l.percent < k.percent
                          \/ l.percent = k.percent /\ (l.certainty = "EXACT" \/ k.certainty # "EXACT")
                   [] OTHER -> NoView
<1>1. Traits[p].pool \in Pools
  BY DEF Pools
<1>2. IsFiniteSet(own) /\ own \subseteq Limits
  BY <1>1, FS_Subset DEF Reports
<1>3. \A l \in limits : /\ DOMAIN l = {"percent", "certainty", "resetsIn", "blocked", "lastReset"}
                        /\ l.percent \in Nat \cup {None} /\ l.resetsIn \in Nat \cup {None}
  BY <1>2, NormalLimitIs
<1>4. IsFiniteSet(limits)
  <2> DEFINE f == [l \in own |-> NormalLimit(l, now_)]
  <2>1. DOMAIN f = own /\ limits = {f[l] : l \in own} /\ f \in [own -> limits]
    OBVIOUS
  <2> HIDE DEF f, own, limits
  <2> QED BY <1>2, <2>1, FiniteImage
<1>5. v = [binding EXCEPT !.percent = IF blocked # {} THEN None ELSE @,
                          !.lastReset = MaxOf({None} \cup {l.lastReset : l \in limits})]
  BY DEF QuotaView
<1> HIDE DEF own, limits
<1>6. blocked # {} => binding \in blocked
  <2> SUFFICES ASSUME blocked # {} PROVE binding \in blocked
    OBVIOUS
  <2> DEFINE S == {l.resetsIn : l \in blocked}
             f == [l \in blocked |-> l.resetsIn]
  <2>1. IsFiniteSet(blocked)
    BY <1>4, FS_Subset
  <2>2. DOMAIN f = blocked /\ S = {f[l] : l \in blocked} /\ f \in [blocked -> S]
    OBVIOUS
  <2>3. S \in SUBSET Int /\ S # {}
    BY <1>3 DEF None
  <2>4. IsFiniteSet(S)
    <3> HIDE DEF f, S, blocked
    <3> QED BY <2>1, <2>2, FiniteImage
  <2>5. \E x \in S : \A y \in S : x >= y
    <3> HIDE DEF S
    <3> QED BY <2>3, <2>4, Largest
  <2>6. \E l \in blocked : \A k \in blocked : l.resetsIn >= k.resetsIn
    BY <2>5
  <2> QED BY <2>6
<1>7. blocked = {} /\ known # {} => binding \in known
  <2> SUFFICES ASSUME blocked = {}, known # {} PROVE binding \in known
    OBVIOUS
  <2> DEFINE S == {0 - l.percent : l \in known}
             f == [l \in known |-> 0 - l.percent]
  <2>1. IsFiniteSet(known)
    BY <1>4, FS_Subset
  <2>2. DOMAIN f = known /\ S = {f[l] : l \in known} /\ f \in [known -> S]
    OBVIOUS
  <2>3. S \in SUBSET Int /\ S # {}
    BY <1>3 DEF None
  <2>4. IsFiniteSet(S)
    <3> HIDE DEF f, S, known
    <3> QED BY <2>1, <2>2, FiniteImage
  <2>5. \E x \in S : \A y \in S : x >= y
    <3> HIDE DEF S
    <3> QED BY <2>3, <2>4, Largest
  <2>6. PICK a \in known : \A k \in known : 0 - a.percent >= 0 - k.percent
    BY <2>5
  <2>7. \A k \in known : k.percent \in Nat
    BY <1>3
  <2>8. \E l \in known : \A k \in known :
          \/ l.percent < k.percent
          \/ l.percent = k.percent /\ (l.certainty = "EXACT" \/ k.certainty # "EXACT")
    <3>1. CASE \E l \in known : l.percent = a.percent /\ l.certainty = "EXACT"
      BY <2>6, <2>7, <3>1
    <3>2. CASE \A l \in known : l.percent = a.percent => l.certainty # "EXACT"
      BY <2>6, <2>7, <3>2
    <3> QED BY <3>1, <3>2
  <2> QED BY <2>8
<1>8. DOMAIN binding = {"percent", "certainty", "resetsIn", "blocked", "lastReset"}
  BY <1>3, <1>6, <1>7 DEF NoView
<1>9. blocked = {} => binding.percent \in Int
  BY <1>3, <1>6, <1>7 DEF NoView, None
<1> HIDE DEF binding, blocked, known
<1>10. v.percent = IF blocked # {} THEN None ELSE binding.percent
  BY <1>5, <1>8
<1> QED BY <1>9, <1>10 DEF None

\* The request of a call, as far as the ranking depends on its types.
Sound(req) == req.preferred \in Profiles /\ req.task \in {"SMALL", "LARGE", "VERY_LARGE"}

LEMMA Products ==
  ASSUME NEW a \in Int, NEW b \in Int
  PROVE  a * b \in Int
OBVIOUS

\* A score is a number.
LEMMA ScoreIs ==
  ASSUME NEW req, Sound(req), NEW c, c.id \in Profiles, c.view.percent \in Int
  PROVE  Score(req, c) \in Int
<1> DEFINE t == Traits[c.id]
           gap == t.class - Traits[req.preferred].class
           half == HalfPenalties[req.task]
           weight == CASE c.view.certainty = "EXACT" -> 30
                       [] c.view.certainty = "ESTIMATED" -> 18
                       [] OTHER -> 0
           percent == c.view.percent * weight
<1>1. gap \in Int /\ (t.cost - 10) * 50 \in Int
  BY TraitsAssumption DEF Sound
<1>2. half \in Int
  BY DEF Sound, HalfPenalties
<1>3. weight \in Int
  <2>1. CASE c.view.certainty = "EXACT"
    BY <2>1
  <2>2. CASE c.view.certainty = "ESTIMATED"
    BY <2>2
  <2>3. CASE c.view.certainty \notin {"EXACT", "ESTIMATED"}
    BY <2>3
  <2> QED BY <2>1, <2>2, <2>3
<1>4. percent \in Int
  <2> HIDE DEF weight
  <2> QED BY <1>3, Products
<1>5. (t.cost - 10) * 50 * half \in Int /\ (SwitchPenalty * half) \div 2 \in Int
  <2>1. (t.cost - 10) * 50 * half \in Int
    <3> HIDE DEF half, t
    <3> QED BY <1>1, <1>2, Products
  <2>2. (SwitchPenalty * half) \div 2 \in Int
    <3> HIDE DEF half
    <3> QED BY <1>2 DEF SwitchPenalty
  <2> QED BY <2>1, <2>2
<1> DEFINE a1 == IF gap > 0 THEN -1500 * gap ELSE 4000 * gap
           a2 == CASE t.trust = "PRODUCTION" -> 2000 [] t.trust = "SECONDARY" -> 800
                   [] t.trust = "EXPERIMENTAL" -> -1000 [] OTHER -> 0
           a3 == CASE c.zone = "LOW" -> -6000 [] c.zone = "RESERVE" -> -12000 [] OTHER -> 0
           a4 == IF c.view.percent = None THEN 0 ELSE percent
           a5 == IF c.zone \in {"LOW", "RESERVE"} /\ c.view.resetsIn \in 0..NearReset THEN 500 ELSE 0
           a6 == IF req.current # "none" /\ t.pool # req.current THEN (SwitchPenalty * half) \div 2 ELSE 0
           a7 == (t.cost - 10) * 50 * half
           a8 == IF c.id = req.preferred THEN 1500 ELSE 0
<1>6. Score(req, c) = a1 + a2 + a3 + a4 + a5 - a6 - a7 + a8
  BY DEF Score
<1>7. a1 \in Int /\ a4 \in Int /\ a5 \in Int /\ a6 \in Int /\ a7 \in Int /\ a8 \in Int
  <2> HIDE DEF gap, percent, half, t
  <2> QED BY <1>1, <1>4, <1>5
<1>8. a2 \in Int
  <2>1. CASE t.trust = "PRODUCTION"
    BY <2>1
  <2>2. CASE t.trust = "SECONDARY"
    BY <2>2
  <2>3. CASE t.trust = "EXPERIMENTAL"
    BY <2>3
  <2>4. CASE t.trust \notin {"PRODUCTION", "SECONDARY", "EXPERIMENTAL"}
    BY <2>4
  <2> QED BY <2>1, <2>2, <2>3, <2>4
<1>9. a3 \in Int
  <2>1. CASE c.zone = "LOW"
    BY <2>1
  <2>2. CASE c.zone = "RESERVE"
    BY <2>2
  <2>3. CASE c.zone \notin {"LOW", "RESERVE"}
    BY <2>3
  <2> QED BY <2>1, <2>2, <2>3
<1> HIDE DEF a1, a2, a3, a4, a5, a6, a7, a8
<1> QED BY <1>6, <1>7, <1>8, <1>9

\* ranked_alternatives returns the candidates it is given.
LEMMA ByScoreIs ==
  ASSUME NEW req, Sound(req), NEW S, IsFiniteSet(S),
         \A c \in S : c.id \in Profiles /\ c.view.percent \in Int,
         \A c, d \in S : c.id = d.id => c = d
  PROVE  ByScore(req, S) \in Seq({c.id : c \in S})
<1> DEFINE scored == {[id |-> c.id, score |-> Score(req, c)] : c \in S}
           Before(a) == {b \in scored : \/ b.score > a.score
                                        \/ b.score = a.score /\ Traits[b.id].rank < Traits[a.id].rank}
           pre == [a \in scored |-> Before(a)]
           n == Cardinality(scored)
<1>1. IsFiniteSet(scored)
  <2> DEFINE f == [c \in S |-> [id |-> c.id, score |-> Score(req, c)]]
  <2>1. DOMAIN f = S /\ scored = {f[c] : c \in S} /\ f \in [S -> scored]
    OBVIOUS
  <2> HIDE DEF f, scored
  <2> QED BY <2>1, FiniteImage
<1>2. /\ \A a \in scored : a.id \in {c.id : c \in S} /\ a.id \in Profiles /\ a.score \in Int
      /\ \A a, b \in scored : a.id = b.id => a = b
  <2>1. \A c \in S : Score(req, c) \in Int
    BY ScoreIs
  <2> QED BY <2>1
<1> HIDE DEF scored
<1>3. \A a \in scored : a.score \in Int /\ Traits[a.id].rank \in Nat
  BY <1>2, TraitsAssumption
<1>4. \A a, b \in scored : a # b => Traits[a.id].rank # Traits[b.id].rank
  BY <1>2, TraitsAssumption
<1>5. pre \in [scored -> SUBSET scored]
  OBVIOUS
<1>6. \A a \in scored : a \notin pre[a]
  BY <1>3
<1>7. \A a \in scored : \A b \in pre[a] : pre[b] \subseteq pre[a]
  <2> SUFFICES ASSUME NEW a \in scored, NEW b \in pre[a], NEW c \in pre[b] PROVE c \in pre[a]
    OBVIOUS
  <2>1. b \in scored /\ c \in scored
    OBVIOUS
  <2>2. /\ \/ b.score > a.score
           \/ b.score = a.score /\ Traits[b.id].rank < Traits[a.id].rank
        /\ \/ c.score > b.score
           \/ c.score = b.score /\ Traits[c.id].rank < Traits[b.id].rank
    BY <2>1
  <2>3. \/ c.score > a.score
        \/ c.score = a.score /\ Traits[c.id].rank < Traits[a.id].rank
    BY <1>3, <2>1, <2>2
  <2> QED BY <2>1, <2>3
<1>8. \A a, b \in scored : a # b => a \in pre[b] \/ b \in pre[a]
  BY <1>3, <1>4
<1>9. \A k \in 1..n : \E a \in scored : Cardinality(pre[a]) = k - 1
  <2> HIDE DEF pre
  <2> QED BY <1>1, <1>5, <1>6, <1>7, <1>8, Lineup
<1> DEFINE At(k) == (CHOOSE a \in scored : Cardinality(Before(a)) = k - 1).id
<1>10. \A k \in 1..n : At(k) \in {c.id : c \in S}
  <2> SUFFICES ASSUME NEW k \in 1..n PROVE At(k) \in {c.id : c \in S}
    OBVIOUS
  <2>1. \E a \in scored : Cardinality(Before(a)) = k - 1
    BY <1>9
  <2> HIDE DEF Before
  <2>2. (CHOOSE a \in scored : Cardinality(Before(a)) = k - 1) \in scored
    BY <2>1
  <2> QED BY <1>2, <2>2
<1>11. n \in Nat
  BY <1>1, FS_CardinalityType
<1>12. ByScore(req, S) = [k \in 1..n |-> At(k)]
  BY DEF ByScore, scored
<1> HIDE DEF At, n
<1> QED BY <1>10, <1>11, <1>12

\* The rows of the configuration are a list of the profiles asked for.
LEMMA InRowOrderIs ==
  ASSUME NEW S \in SUBSET Profiles
  PROVE  InRowOrder(S) \in Seq(S)
<1> DEFINE Before(p) == {q \in S : Traits[q].row < Traits[p].row}
           pre == [p \in S |-> Before(p)]
           n == Cardinality(S)
           At(k) == CHOOSE p \in S : Cardinality(Before(p)) = k - 1
<1>1. IsFiniteSet(S)
  BY TraitsAssumption, FS_Subset
<1>2. /\ \A p \in S : Traits[p].row \in Nat
      /\ \A p, q \in S : p # q => Traits[p].row # Traits[q].row
  BY TraitsAssumption
<1>3. pre \in [S -> SUBSET S] /\ \A p \in S : p \notin pre[p]
  BY <1>2
<1>4. \A p \in S : \A q \in pre[p] : pre[q] \subseteq pre[p]
  <2> SUFFICES ASSUME NEW p \in S, NEW q \in pre[p], NEW r \in pre[q] PROVE r \in pre[p]
    OBVIOUS
  <2>1. q \in S /\ r \in S
    OBVIOUS
  <2> QED BY <1>2, <2>1
<1>5. \A p, q \in S : p # q => p \in pre[q] \/ q \in pre[p]
  BY <1>2
<1>6. \A k \in 1..n : \E p \in S : Cardinality(pre[p]) = k - 1
  <2> HIDE DEF pre
  <2> QED BY <1>1, <1>3, <1>4, <1>5, Lineup
<1>7. \A k \in 1..n : At(k) \in S
  <2> SUFFICES ASSUME NEW k \in 1..n PROVE At(k) \in S
    OBVIOUS
  <2>1. \E p \in S : Cardinality(Before(p)) = k - 1
    BY <1>6
  <2> HIDE DEF Before
  <2> QED BY <2>1
<1>8. n \in Nat
  BY <1>1, FS_CardinalityType
<1>9. InRowOrder(S) = [k \in 1..n |-> At(k)]
  BY DEF InRowOrder
<1> HIDE DEF At, n
<1> QED BY <1>7, <1>8, <1>9

Zones == {"NORMAL", "UNKNOWN", "LOW", "RESERVE", "EXHAUSTED"}
\* Every view is in one of the zones.
LEMMA ZoneIs ==
  ASSUME NEW view, NEW task
  PROVE  ZoneOf(view, task) \in Zones
<1> DEFINE A == view.blocked
           B == view.percent = None
           C == view.percent = 0 /\ view.certainty = "EXACT"
           D == view.percent \in 0..ReservePercent
           E == IF view.percent < SoftThreshold + Headroom[task] THEN "LOW" ELSE "NORMAL"
<1>1. E \in Zones
  BY DEF Zones
<1>2. ZoneOf(view, task) =
        CASE A -> "EXHAUSTED" [] ~A /\ B -> "UNKNOWN" [] ~A /\ C -> "EXHAUSTED"
          [] ~A /\ D /\ ~C -> "RESERVE" [] OTHER -> E
  BY Zenon DEF ZoneOf
<1>3. ~(B /\ C)
  BY DEF None
<1>4. ~(B /\ D)
  BY DEF None, ReservePercent
<1> HIDE DEF A, B, C, D, E
<1>5. CASE A
  BY <1>2, <1>5 DEF Zones
<1>6. CASE ~A /\ B
  BY <1>2, <1>3, <1>4, <1>6 DEF Zones
<1>7. CASE ~A /\ C
  BY <1>2, <1>3, <1>7 DEF Zones
<1>8. CASE ~A /\ ~B /\ ~C /\ D
  BY <1>2, <1>8 DEF Zones
<1>9. CASE ~A /\ ~B /\ ~C /\ ~D
  BY <1>1, <1>2, <1>9
<1> QED BY <1>5, <1>6, <1>7, <1>8, <1>9

Candid(C, req) ==
  /\ IsFiniteSet(C)
  /\ \A c \in C : c.id \in Profiles /\ c.view.percent \in Int /\ c.zone \in Zones
  /\ \A c \in C : c.eligible => Passes(req, c.id) /\ c.zone # "EXHAUSTED"
  /\ \A c, d \in C : c.id = d.id => c = d
  /\ \A p \in Profiles : \E c \in C : c.id = p

\* Every profile is a candidate once, eligible only if it passes the filters.
LEMMA CandidatesAre ==
  ASSUME NEW req, NEW tel, Reports(tel), NEW state_, NEW now_ \in Nat,
         NEW C, C = Candidates(req, tel, state_, now_)
  PROVE  Candid(C, req)
<1> DEFINE View(p) == QuotaView(tel, p, now_)
           Fit(p) == /\ Passes(req, p) /\ Runnable(state_, p, now_)
                     /\ ZoneOf(View(p), req.task) # "EXHAUSTED"
           Eval(p) == [id |-> p, view |-> View(p), zone |-> ZoneOf(View(p), req.task), eligible |-> Fit(p)]
<1>1. C = {Eval(p) : p \in Profiles}
  BY DEF Candidates
<1>2. \A p \in Profiles : View(p).percent \in Int
  BY ViewIs
<1> HIDE DEF View, Fit
<1>3. \A p \in Profiles : /\ Eval(p).id = p /\ Eval(p).view = View(p)
                          /\ Eval(p).zone = ZoneOf(View(p), req.task)
                          /\ Eval(p).eligible = Fit(p)
  OBVIOUS
<1> HIDE DEF Eval
<1>4. IsFiniteSet(C)
  <2> DEFINE f == [p \in Profiles |-> Eval(p)]
  <2>1. DOMAIN f = Profiles /\ C = {f[p] : p \in Profiles} /\ f \in [Profiles -> C]
    BY <1>1
  <2> HIDE DEF f
  <2> QED BY <2>1, FiniteImage, TraitsAssumption
<1>5. ASSUME NEW p \in Profiles, Eval(p).eligible
      PROVE  Passes(req, p) /\ ZoneOf(View(p), req.task) # "EXHAUSTED"
  <2>1. Fit(p)
    BY <1>3, <1>5, Zenon
  <2> QED BY <2>1 DEF Fit
<1>6. \A c \in C : \E p \in Profiles : c = Eval(p)
  BY <1>1
<1>7. \A c \in C : c.eligible => Passes(req, c.id) /\ c.zone # "EXHAUSTED"
  <2> SUFFICES ASSUME NEW c \in C, c.eligible PROVE Passes(req, c.id) /\ c.zone # "EXHAUSTED"
    OBVIOUS
  <2>1. PICK p \in Profiles : c = Eval(p)
    BY <1>6
  <2>2. Eval(p).eligible
    BY <2>1
  <2>3. Passes(req, p) /\ ZoneOf(View(p), req.task) # "EXHAUSTED"
    BY <1>5, <2>2
  <2>4. c.id = p /\ c.zone = ZoneOf(View(p), req.task)
    BY <1>3, <2>1
  <2> QED BY <2>3, <2>4
<1>8. \A c \in C : c.id \in Profiles /\ c.view.percent \in Int /\ c.zone \in Zones
  BY <1>2, <1>3, <1>6, ZoneIs
<1>9. \A c, d \in C : c.id = d.id => c = d
  BY <1>3, <1>6
<1>10. \A p \in Profiles : \E c \in C : c.id = p
  BY <1>1, <1>3
<1> QED BY <1>4, <1>7, <1>8, <1>9, <1>10 DEF Candid

\* Whoever may serve a call passes every filter for it.
Passing(req) == {p \in Profiles : Passes(req, p)}

LEMMA ByScorePasses ==
  ASSUME NEW req, Sound(req), NEW C, Candid(C, req), NEW S \in SUBSET C, \A c \in S : c.eligible
  PROVE  ByScore(req, S) \in Seq(Passing(req))
<1>1. IsFiniteSet(S)
  BY FS_Subset DEF Candid
<1>2. ByScore(req, S) \in Seq({c.id : c \in S})
  BY <1>1, ByScoreIs DEF Candid
<1>3. {c.id : c \in S} \subseteq Passing(req)
  BY DEF Candid, Passing
<1> QED BY <1>2, <1>3

LEMMA Joined ==
  ASSUME NEW S, NEW x \in S, NEW s \in Seq(S), NEW t \in Seq(S)
  PROVE  <<x>> \o s \in Seq(S) /\ s \o <<x>> \o t \in Seq(S)
OBVIOUS

RouterState(r) ==
  /\ r \in [demoted : [Pools -> Nat \cup {None}], health : [HealthKeys -> Nat \cup {None}]]
  /\ DOMAIN r = {"demoted", "health"}
  /\ r.demoted \in [Pools -> Nat \cup {None}] /\ r.health \in [HealthKeys -> Nat \cup {None}]

\* Demotions, returns and cooldowns keep the router's state.
LEMMA DemoteIs ==
  ASSUME NEW r, RouterState(r), NEW pool \in Pools, NEW now_ \in Nat
  PROVE  RouterState(Demote(r, pool, now_))
BY DEF RouterState, Demote

LEMMA ClearReturnedIs ==
  ASSUME NEW r, RouterState(r), NEW tel, NEW now_ \in Nat
  PROVE  RouterState(ClearReturned(r, tel, now_))
<1>1. PICK cleared : cleared = [pool \in Pools |->
           IF r.demoted[pool] # None /\ Returned(r, pool, tel, now_) THEN None ELSE r.demoted[pool]]
  OBVIOUS
<1>2. cleared \in [Pools -> Nat \cup {None}]
  BY <1>1 DEF RouterState
<1>3. ClearReturned(r, tel, now_) = [r EXCEPT !.demoted = cleared]
  BY <1>1 DEF ClearReturned
<1> QED BY <1>2, <1>3 DEF RouterState

\* What route decides by quota ranks profiles that pass.
LEMMA ByQuota ==
  ASSUME NEW req, Sound(req), NEW C, Candid(C, req), NEW r, RouterState(r), NEW now_ \in Nat,
         NEW d, d = RouteByQuota(req, C, r, now_)
  PROVE  d.ranked \in Seq(Passing(req)) /\ RouterState(d.router)
<1> DEFINE pref == CHOOSE c \in C : c.id = req.preferred
           pool == Traits[req.preferred].pool
           held == r.demoted[pool] # None
           zone == IF held /\ pref.zone \in {"NORMAL", "UNKNOWN"} THEN "LOW" ELSE pref.zone
           usable == Alternatives(req, C, r)
           others == ByScore(req, usable)
           better == ByScore(req, Better(pref, usable))
           rest == ByScore(req, usable \ Better(pref, usable))
           moved == Demote(r, pool, now_)
           stays == /\ ~held /\ pref.view.resetsIn \in 0..NearReset /\ req.task = "SMALL"
                    /\ req.current \in {"none", pool}
           Stay(reason) == Decision(<<req.preferred>> \o others, reason, r)
           Leave(reason, after) ==
             Decision(others, IF others = <<>> THEN "NO_ELIGIBLE_PROFILE" ELSE reason, after)
           fit == pref.eligible
           protected == req.phase \in ReserveAllowed
<1>1. pref \in C /\ pref.id = req.preferred
  BY DEF Candid, Sound
<1>2. zone \in Zones
  BY <1>1 DEF Candid, Zones
<1>3. fit => req.preferred \in Passing(req) /\ zone # "EXHAUSTED"
  BY <1>1 DEF Candid, Passing, Sound
<1>4. usable \in SUBSET C /\ \A c \in usable : c.eligible
  BY DEF Alternatives, Usable
<1>5. Better(pref, usable) \in SUBSET usable
  BY DEF Better
<1> HIDE DEF usable
<1>6. others \in Seq(Passing(req)) /\ better \in Seq(Passing(req)) /\ rest \in Seq(Passing(req))
  BY <1>4, <1>5, ByScorePasses
<1>7. RouterState(moved)
  BY DemoteIs DEF Pools, Sound
<1>8. \A s, reason, after : Decision(s, reason, after).ranked = s /\ Decision(s, reason, after).router = after
  BY DEF Decision
<1>9. d = CASE ~fit -> Leave("PREFERRED_INELIGIBLE", IF pref.zone = "EXHAUSTED" THEN moved ELSE r)
            [] fit /\ zone \in {"NORMAL", "UNKNOWN"} -> Stay("QUOTA_OK")
            [] fit /\ zone = "LOW" /\ stays -> Stay("NEAR_RESET_STAY")
            [] fit /\ zone = "LOW" /\ ~stays /\ better # <<>> ->
                 Decision(better \o <<req.preferred>> \o rest, "QUOTA_LOW_ALTERNATIVE", moved)
            [] fit /\ zone = "LOW" /\ ~stays /\ better = <<>> -> Stay("NO_BETTER")
            [] fit /\ zone = "RESERVE" ->
                 IF protected
                 THEN Decision(<<req.preferred>> \o others, "RESERVE_ALLOWED", moved)
                 ELSE Leave("RESERVE_SWITCH", moved)
  BY Zenon DEF RouteByQuota, usable
<1> DEFINE left == Leave("PREFERRED_INELIGIBLE", IF pref.zone = "EXHAUSTED" THEN moved ELSE r)
           gone == Leave("RESERVE_SWITCH", moved)
           far == Decision(better \o <<req.preferred>> \o rest, "QUOTA_LOW_ALTERNATIVE", moved)
           near == Decision(<<req.preferred>> \o others, "RESERVE_ALLOWED", moved)
           Good(e) == e.ranked \in Seq(Passing(req)) /\ RouterState(e.router)
<1>10. Good(left) /\ Good(gone)
  <2> HIDE DEF moved, others
  <2> QED BY <1>6, <1>7, <1>8
<1>11. fit => /\ <<req.preferred>> \o others \in Seq(Passing(req))
              /\ better \o <<req.preferred>> \o rest \in Seq(Passing(req))
  <2> SUFFICES ASSUME fit
               PROVE  /\ <<req.preferred>> \o others \in Seq(Passing(req))
                      /\ better \o <<req.preferred>> \o rest \in Seq(Passing(req))
    OBVIOUS
  <2>1. req.preferred \in Passing(req)
    BY <1>3
  <2> DEFINE x == req.preferred
             P == Passing(req)
  <2> HIDE DEF others, better, rest, x, P
  <2>2. x \in P /\ others \in Seq(P) /\ better \in Seq(P) /\ rest \in Seq(P)
    BY <1>6, <2>1 DEF x, P
  <2>3. <<x>> \o others \in Seq(P) /\ better \o <<x>> \o rest \in Seq(P)
    BY <2>2, Joined
  <2> QED BY <2>3 DEF x, P
<1>12. fit => Good(far) /\ Good(near)
  <2> HIDE DEF moved, others, better, rest, fit
  <2> QED BY <1>7, <1>11 DEF Decision
<1>20. \A reason : fit => Good(Stay(reason))
  <2> HIDE DEF others, fit
  <2> QED BY <1>11 DEF Decision
<1> HIDE DEF Stay, Leave, left, gone, far, near, stays, better, zone, fit, Good, protected
<1>13. CASE ~fit
  BY <1>9, <1>10, <1>13 DEF left, Good
<1>14. CASE fit /\ zone \in {"NORMAL", "UNKNOWN"}
  BY <1>9, <1>20, <1>14 DEF Good
<1>15. CASE fit /\ zone = "LOW" /\ stays
  BY <1>9, <1>20, <1>15 DEF Good
<1>16. CASE fit /\ zone = "LOW" /\ ~stays /\ better # <<>>
  BY <1>9, <1>12, <1>16 DEF Good, far
<1>17. CASE fit /\ zone = "LOW" /\ ~stays /\ better = <<>>
  BY <1>9, <1>20, <1>17 DEF Good
<1>18. CASE fit /\ zone = "RESERVE"
  <2>1. d = IF protected THEN near ELSE gone
    BY <1>9, <1>18 DEF near, gone
  <2> QED BY <1>10, <1>12, <1>18, <2>1 DEF Good
<1>19. zone \in Zones /\ (fit => zone # "EXHAUSTED")
  BY <1>2, <1>3
<1> QED BY <1>13, <1>14, <1>15, <1>16, <1>17, <1>18, <1>19 DEF Zones

\* route ranks profiles, and but for a manual override only those that pass.
LEMMA RouteCallIs ==
  ASSUME NEW req, Sound(req), req.override \in Profiles \cup {"none"}, NEW tel, Reports(tel),
         NEW r, RouterState(r), NEW now_ \in Nat, NEW d, d = RouteCall(req, tel, r, now_)
  PROVE  /\ d.ranked \in Seq(Profiles) /\ RouterState(d.router)
         /\ req.override = "none" => d.ranked \in Seq(Passing(req))
<1>1. PICK C : C = Candidates(req, tel, r, now_)
  OBVIOUS
<1> DEFINE eligible == {c.id : c \in {e \in C : e.eligible}}
           others == InRowOrder(eligible \ {req.override})
           forced == Decision(<<req.override>> \o others, "MANUAL_OVERRIDE", r)
           cleared == ClearReturned(r, tel, now_)
           chosen == RouteByQuota(req, C, cleared, now_)
<1>2. d = IF Feasible(req, r, now_) THEN forced ELSE chosen
  BY <1>1 DEF RouteCall
<1>3. Candid(C, req)
  BY <1>1, CandidatesAre
<1>4. CASE Feasible(req, r, now_)
  <2>1. req.override \in Profiles /\ req.override # "none"
    BY <1>4 DEF Feasible
  <2>2. eligible \ {req.override} \in SUBSET Profiles
    BY <1>3 DEF Candid
  <2>3. others \in Seq(Profiles)
    <3> HIDE DEF eligible
    <3>1. others \in Seq(eligible \ {req.override})
      BY <2>2, InRowOrderIs
    <3> QED BY <2>2, <3>1
  <2>4. <<req.override>> \o others \in Seq(Profiles)
    <3> HIDE DEF others
    <3> QED BY <2>1, <2>3
  <2>5. d = forced
    BY <1>2, <1>4
  <2> HIDE DEF others
  <2> QED BY <2>1, <2>4, <2>5 DEF Decision
<1>5. CASE ~Feasible(req, r, now_)
  <2>1. RouterState(cleared)
    BY ClearReturnedIs
  <2>2. d = chosen
    BY <1>2, <1>5
  <2> HIDE DEF cleared
  <2>3. d.ranked \in Seq(Passing(req)) /\ RouterState(d.router)
    BY <1>3, <2>1, <2>2, ByQuota
  <2>4. Passing(req) \subseteq Profiles
    BY DEF Passing
  <2> QED BY <2>3, <2>4
<1> QED BY <1>4, <1>5

-----------------------------------------------------------------------------
(* THE LADDER.  Every step of it stays where it is, after progress, or is   *)
(* on a higher rung.                                                        *)
OnLadder == {Stages[i] : i \in DOMAIN Stages}
Someone == Profiles \cup {NoOne}

StepType(s) ==
  /\ DOMAIN s = {"stage", "profile", "diagnoses"}
  /\ s.stage \in OnLadder /\ s.profile \in Someone /\ s.diagnoses \in Someone

LadderType(l) ==
  /\ DOMAIN l = {"stage", "attempts", "effort", "last", "step"}
  /\ l.stage \in OnLadder \cup {NoOne} /\ l.attempts \in 0..MaxAttempts
  /\ l.effort \in Nat /\ l.last \in Someone
  /\ StepType(l.step)
  /\ l.step.stage = (IF l.stage = NoOne THEN "CURRENT" ELSE l.stage)
  /\ l.stage # NoOne => l.attempts >= 1

\* The stages of the ladder have one place each, CURRENT the first.
LEMMA OnLadderIs == "CURRENT" \in OnLadder /\ OnLadder \subseteq StageNames /\ NoOne \notin OnLadder
BY LadderAssumption DEF OnLadder, StageNames, NoOne

LEMMA NewLadderIs == LadderType(NewLadder)
BY OnLadderIs, LadderAssumption DEF LadderType, NewLadder, StepType, StepOf, Someone

LEMMA PlaceIs ==
  /\ \A stage \in OnLadder : Place(stage) \in DOMAIN Stages /\ Stages[Place(stage)] = stage
  /\ \A i \in DOMAIN Stages : Place(Stages[i]) = i
  /\ DOMAIN Stages \subseteq Nat /\ DOMAIN Stages = 1..Len(Stages)
<1>1. \A stage \in OnLadder : Place(stage) \in DOMAIN Stages /\ Stages[Place(stage)] = stage
  BY DEF OnLadder, Place
<1>2. \A i \in DOMAIN Stages : Stages[i] \in OnLadder
  BY DEF OnLadder
<1>3. \A i \in DOMAIN Stages : Place(Stages[i]) = i
  BY <1>1, <1>2, LadderAssumption
<1>4. DOMAIN Stages \subseteq Nat /\ DOMAIN Stages = 1..Len(Stages)
  BY LadderAssumption
<1> QED BY <1>1, <1>3, <1>4

\* _try_stage offers a step of the stage it is asked for.
LEMMA TryStageIs ==
  ASSUME NEW l, l.last \in Someone, NEW stage \in OnLadder, NEW s \in TryStage(l, stage)
  PROVE  StepType(s) /\ s.stage = stage
<1>1. EffortLadder = <<>> \/ EffortLadder # <<>>
  OBVIOUS
<1>2. CASE stage = "EFFORT_UP"
  <2>1. s \in {StepOf(stage, l.last, NoOne)} \cup {StepOf(stage, p, NoOne) : p \in HigherEffort(l.last)}
    BY <1>2 DEF TryStage
  <2>2. HigherEffort(l.last) \subseteq Profiles
    BY RunAssumption, LadderAssumption DEF HigherEffort
  <2> QED BY <2>1, <2>2 DEF StepType, StepOf, Someone
<1>3. CASE stage = "DIFFICULT_IMPLEMENTER"
  <2>1. s = StepOf(stage, DifficultImplementer, DifficultImplementer)
    BY <1>3 DEF TryStage
  <2> QED BY <2>1, RunAssumption DEF StepType, StepOf, Someone
<1>4. CASE stage = "PLANNER_DIAGNOSIS"
  <2>1. s = StepOf(stage, IF DifficultImplementer = NoOne THEN l.last ELSE DifficultImplementer, Planner)
    BY <1>4 DEF TryStage
  <2> QED BY <2>1, RunAssumption DEF StepType, StepOf, Someone
<1>5. CASE stage \notin {"EFFORT_UP", "DIFFICULT_IMPLEMENTER", "PLANNER_DIAGNOSIS"}
  BY <1>5 DEF TryStage
<1> QED BY <1>2, <1>3, <1>4, <1>5

\* next_step stays after progress, counting the attempt, or climbs.
LEMMA NextStepIs ==
  ASSUME NEW old, LadderType(old), NEW progressed, NEW last \in Someone,
         NEW n, n = NextStep(old, progressed, last)
  PROVE  /\ LadderType(n.ladder)
         /\ n.action # "EXHAUSTED" =>
              /\ n.ladder.stage # NoOne
              /\ \/ old.stage = NoOne
                 \/ /\ old.stage # NoOne /\ progressed
                    /\ n.ladder.stage = old.stage /\ n.ladder.effort = old.effort
                    /\ n.ladder.attempts = old.attempts + 1
                 \/ /\ old.stage # NoOne
                    /\ \/ Place(n.ladder.stage) > Place(old.stage)
                       \/ n.ladder.stage = old.stage /\ n.ladder.effort > old.effort
<1> DEFINE l == [old EXCEPT !.last = IF last = NoOne THEN @ ELSE last]
<1>2. /\ LadderType(l)
      /\ l.stage = old.stage /\ l.attempts = old.attempts /\ l.effort = old.effort /\ l.step = old.step
  BY DEF LadderType
<1> DEFINE open == OpenPlaces(l)
           place == CHOOSE i \in open : \A j \in open : i <= j
           again == progressed /\ l.attempts < MaxAttempts
           l1 == [l EXCEPT !.stage = "CURRENT", !.attempts = 1]
           l2 == [l EXCEPT !.attempts = @ + 1]
           l3 == [l EXCEPT !.stage = Stages[place], !.attempts = 1,
                           !.effort = IF Stages[place] = "EFFORT_UP" THEN @ + 1 ELSE @,
                           !.step = CHOOSE s \in TryStage(l, Stages[place]) : TRUE]
           n1 == Attempt(l1)
           n2 == [Attempt(l2) EXCEPT !.retry = TRUE]
           n3 == Attempt(l3)
           n4 == [Attempt(l) EXCEPT !.action = "EXHAUSTED"]
<1>3. n = CASE l.stage = NoOne -> n1
            [] l.stage # NoOne /\ again -> n2
            [] l.stage # NoOne /\ ~again /\ open # {} -> n3
            [] OTHER -> n4
  BY Zenon DEF NextStep
<1> HIDE DEF l
<1>4. /\ n1.action = "STEP" /\ n1.ladder = l1
      /\ n2.action = "STEP" /\ n2.ladder = l2
      /\ n3.action = "STEP" /\ n3.ladder = l3
      /\ n4.action = "EXHAUSTED" /\ n4.ladder = l
  BY DEF Attempt
<1>5. MaxAttempts \in Nat /\ MaxAttempts >= 1
  BY LadderAssumption
<1> HIDE DEF n1, n2, n3, n4
<1>6. CASE l.stage = NoOne
  <2>1. n.action = "STEP" /\ n.ladder = l1
    BY <1>3, <1>4, <1>6
  <2>2. LadderType(l1) /\ l1.stage # NoOne
    BY <1>2, <1>5, <1>6, OnLadderIs DEF LadderType, NoOne
  <2> QED BY <1>2, <1>6, <2>1, <2>2
<1>7. CASE l.stage # NoOne /\ again
  <2>1. n.action = "STEP" /\ n.ladder = l2
    BY <1>3, <1>4, <1>7
  <2>2. LadderType(l2)
    BY <1>2, <1>5, <1>7 DEF LadderType
  <2>3. l2.stage = old.stage /\ l2.effort = old.effort /\ l2.attempts = old.attempts + 1
    BY <1>2 DEF LadderType
  <2> QED BY <1>2, <1>7, <2>1, <2>2, <2>3
<1>8. CASE l.stage # NoOne /\ ~again /\ open # {}
  <2>1. n.action = "STEP" /\ n.ladder = l3
    <3> HIDE DEF again, open, l1, l2, l3
    <3> QED BY <1>3, <1>4, <1>8
  <2>2. l.stage \in OnLadder
    BY <1>2, <1>8 DEF LadderType
  <2>3. /\ open \subseteq DOMAIN Stages /\ open \subseteq Nat
        /\ \A i \in open : /\ TryStage(l, Stages[i]) # {}
                           /\ i >= Place(l.stage) + (IF l.stage = "EFFORT_UP" THEN 0 ELSE 1)
    BY <2>2, PlaceIs DEF OpenPlaces
  <2>4. place \in open
    <3>1. \E i \in open : \A j \in open : i <= j
      <4>1. IsFiniteSet(open) /\ open # {}
        <5>1. IsFiniteSet(1..Len(Stages))
          BY FS_Interval, LadderAssumption
        <5> QED BY <1>8, <2>3, <5>1, PlaceIs, FS_Subset
      <4> HIDE DEF open
      <4> DEFINE S == {0 - i : i \in open}
                 f == [i \in open |-> 0 - i]
      <4>2. DOMAIN f = open /\ S = {f[i] : i \in open} /\ f \in [open -> S]
        OBVIOUS
      <4>3. S \in SUBSET Int /\ S # {}
        BY <2>3, <4>1
      <4>4. IsFiniteSet(S)
        <5> HIDE DEF f, S
        <5> QED BY <4>1, <4>2, FiniteImage
      <4>5. \E x \in S : \A y \in S : x >= y
        <5> HIDE DEF S
        <5> QED BY <4>3, <4>4, Largest
      <4>6. PICK i \in open : \A j \in open : 0 - i >= 0 - j
        BY <4>5
      <4> QED BY <2>3, <4>6
    <3> HIDE DEF open
    <3> QED BY <3>1
  <2> HIDE DEF open, place
  <2>5. Stages[place] \in OnLadder /\ Place(Stages[place]) = place /\ place \in Nat
    BY <2>3, <2>4, PlaceIs DEF OnLadder
  <2>6. PICK s \in TryStage(l, Stages[place]) : s = CHOOSE t \in TryStage(l, Stages[place]) : TRUE
    BY <2>3, <2>4
  <2>7. StepType(s) /\ s.stage = Stages[place]
    BY <1>2, <2>5, <2>6, TryStageIs DEF LadderType
  <2>8. /\ l3.stage = Stages[place] /\ l3.attempts = 1 /\ l3.step = s
        /\ l3.effort = (IF Stages[place] = "EFFORT_UP" THEN l.effort + 1 ELSE l.effort)
        /\ DOMAIN l3 = DOMAIN l /\ l3.last = l.last
    BY <1>2, <2>6 DEF LadderType
  <2> HIDE DEF l3
  <2>9. LadderType(l3)
    BY <1>2, <1>5, <2>5, <2>7, <2>8, OnLadderIs DEF LadderType
  <2>10. Place(l3.stage) > Place(l.stage) \/ (l3.stage = l.stage /\ l3.effort > l.effort)
    <3>1. CASE place > Place(l.stage)
      <4>1. Place(l3.stage) = place
        BY <2>5, <2>8
      <4>2. Place(l.stage) \in Nat
        BY <2>2, PlaceIs
      <4> QED BY <2>5, <3>1, <4>1, <4>2
    <3>2. CASE ~(place > Place(l.stage))
      <4>1. Place(l.stage) \in Nat
        BY <2>2, PlaceIs
      <4>2. l.stage = "EFFORT_UP" /\ place = Place(l.stage)
        BY <2>3, <2>4, <2>5, <3>2, <4>1
      <4>3. Stages[place] = l.stage
        BY <2>2, <4>2, PlaceIs
      <4> QED BY <1>2, <2>8, <4>2, <4>3 DEF LadderType
    <3> QED BY <3>1, <3>2
  <2>11. l3.stage # NoOne
    BY <2>5, <2>8, OnLadderIs
  <2> QED BY <1>2, <1>8, <2>1, <2>9, <2>10, <2>11
<1>9. CASE l.stage # NoOne /\ ~again /\ open = {}
  BY <1>2, <1>3, <1>4, <1>9
<1> QED BY <1>6, <1>7, <1>8, <1>9

-----------------------------------------------------------------------------
(* WHERE THE ITERATION IS.  The phase names the call that is due, a call in *)
(* flight is that one, and only a review keeps its verdict.                 *)
World ==
  /\ now \in Nat /\ Reports(telemetry) /\ RouterState(router)
  /\ lastPool \in Pools \cup {"none"}
  /\ writers \subseteq {Traits[p].model : p \in Profiles}
  /\ implementer \in Someone
  /\ spent \in [{"ticks", "failures", "crashes", "turns"} -> Nat]

Placed ==
  /\ phase \in {"EXECUTE", "SELF_VERIFY", "REVIEW", "REPAIR", "FINAL_REVIEW", "ACCEPTED",
                "AWAITING_HUMAN"}
  /\ phase = "EXECUTE" => due = "execute"
  /\ phase = "REVIEW" => due = "review"
  /\ phase = "FINAL_REVIEW" => due = "final_review"
  /\ phase = "REPAIR" => due \in {"diagnose", "repair"}
  /\ phase \in {"SELF_VERIFY", "ACCEPTED", "AWAITING_HUMAN"} => due = "none"

\* Whoever is ranked for a review wrote nothing.
Innocent(s) == \A i \in DOMAIN s : Traits[s[i]].model \notin writers

Calling ==
  flight # NoFlight =>
    /\ DOMAIN flight = {"name", "ranked", "reason", "retry", "tried", "verdict", "keys"}
    /\ flight.name = due /\ due # "none"
    /\ flight.ranked \in Seq(Profiles) /\ flight.ranked # <<>>
    /\ flight.verdict # "none" => due \in Reviews
    /\ flight.verdict = "REPAIR" => flight.keys \in Findings
    /\ due \in Reviews => Innocent(flight.ranked)

Row == [stage : OnLadder, effort : Nat, keys : SUBSET Keys, profile : Profiles,
        signals : BOOLEAN, id : Nat, assessed : BOOLEAN]

Posed ==
  /\ DOMAIN origin = {"keys", "step", "id"}
  /\ origin.keys \in SUBSET Keys /\ StepType(origin.step) /\ origin.id \in Nat
  /\ LadderType(ladder)
  /\ ~Ended => origin.step = ladder.step
  /\ due = "diagnose" => origin.step.diagnoses # NoOne
  /\ repairs \in Seq(Row)

Entry == [id : Nat, disposition : {"PENDING", "RESOLVED", "HUMAN_GATE"}]
Mark == [id : Nat, kind : {"ESCALATION", "RESULT", "RESOLVED", "HUMAN_GATE"}]
Recorded == escalations \in Seq(Entry) /\ file \in Seq(Mark)

Typed == World /\ Placed /\ Calling /\ Posed /\ Recorded /\ retryOf \in BOOLEAN

-----------------------------------------------------------------------------
(* THE CLIMB.  With the repair that is due as the last one, the repairs     *)
(* climb, and the ladder stands where the last one is.                      *)
Streak(R, i, j) ==
  \A k \in i..(j - 1) : Rung(R[k]) = Rung(R[j]) /\ ~FullyNew(R[k].keys, R[k + 1].keys)

Linked(a, b) == \/ FullyNew(a.keys, b.keys)
                \/ Below(a, b)
                \/ Rung(a) = Rung(b) /\ Progressed(a.keys, b.keys, a.signals)

Plain(R) == {i \in DOMAIN R : R[i].stage = "CURRENT"}

Climbs(R) ==
  /\ \A i \in 1..(Len(R) - 1) : Linked(R[i], R[i + 1])
  /\ \A i \in DOMAIN R, j \in DOMAIN R : i < j /\ Streak(R, i, j) => j - i < MaxAttempts
  /\ Cardinality(Plain(R)) <= RepairLimit

Stands(R, l, keys) ==
  /\ R = <<>> <=> l.stage = NoOne
  /\ R # <<>> =>
       /\ R[Len(R)].stage = l.stage /\ R[Len(R)].effort = l.effort /\ R[Len(R)].keys = keys
       /\ \A i \in 1..(Len(R) - 1) : Streak(R, i, Len(R)) => Len(R) - i < l.attempts

Coming == [stage |-> origin.step.stage, effort |-> ladder.effort, keys |-> origin.keys,
           signals |-> FALSE]

Climbing ==
  /\ Climbs(repairs)
  /\ phase = "REPAIR" =>
       Climbs(Append(repairs, Coming)) /\ Stands(Append(repairs, Coming), ladder, origin.keys)
  /\ phase \notin {"REPAIR", "ACCEPTED", "AWAITING_HUMAN"} => Stands(repairs, ladder, origin.keys)

-----------------------------------------------------------------------------
(* THE LEDGER.                                                              *)
Marked(f) == {n \in DOMAIN f : f[n].kind = "ESCALATION"}
Dispositions == {"RESOLVED", "HUMAN_GATE"}
Distinct(E) == \A i, j \in DOMAIN E : E[i].id = E[j].id => i = j
Ids(E) == {E[i].id : i \in DOMAIN E}

\* The last line of F about id that gives it a disposition gives it d.
Said(F, id, d) ==
  \E n \in DOMAIN F : /\ F[n] = Line(id, d)
                      /\ \A m \in DOMAIN F : m > n /\ F[m].id = id => F[m].kind \notin Dispositions
\* What the lines F tell of the escalations E, and what they tell of others.
Tells(E, F) ==
  /\ Distinct(E)
  /\ \A i \in DOMAIN E : E[i].id <= Cardinality(Marked(F))
  /\ \A i \in DOMAIN E : E[i].disposition # "PENDING" => Said(F, E[i].id, E[i].disposition)
Orphans(F, ids) == {n \in DOMAIN F : F[n].kind = "ESCALATION" /\ F[n].id \notin ids}

Ledger ==
  /\ Tells(escalations, file)
  /\ Ended /\ ~LightReview => Pending = {}
  /\ \A i \in DOMAIN repairs : repairs[i].stage # "CURRENT" => repairs[i].id \in Ids(escalations)
  /\ origin.step.stage # "CURRENT" => origin.id \in Ids(escalations)
  /\ Cardinality(Orphans(file, Ids(escalations))) <= spent.crashes

-----------------------------------------------------------------------------
(* STEPS.  What a step does to the phase, the repairs and the ledger: it    *)
(* escalates, goes on to another phase, closes the ledger, records a        *)
(* repair, begins one, or dies with lines of the ledger written.            *)
Spared == UNCHANGED <<repairs, ladder, origin>>
NoCrash == spent'.crashes = spent.crashes

Halts == Escalate /\ Spared /\ spent'.crashes \in {spent.crashes, spent.crashes + 1}

Onward == \/ phase' = phase /\ due' = due
          \/ due = "diagnose" /\ phase' = phase /\ due' = "repair"
          \/ phase = "EXECUTE" /\ phase' = "SELF_VERIFY" /\ due' = "none"
          \/ phase = "SELF_VERIFY" /\ phase' = "REVIEW" /\ due' = "review"
          \/ phase = "REVIEW" /\ ~LightReview /\ phase' = "FINAL_REVIEW" /\ due' = "final_review"
          \/ phase = "REVIEW" /\ LightReview /\ phase' = "ACCEPTED" /\ due' = "none"
Moves == Onward /\ Spared /\ UNCHANGED <<escalations, file>> /\ NoCrash

Closes == /\ phase' = "ACCEPTED" /\ due' = "none" /\ phase = "FINAL_REVIEW"
          /\ escalations' = Disposed("RESOLVED") /\ file' = file \o DispositionLines("RESOLVED")
          /\ Spared /\ NoCrash

Repairs(signals) == due = "repair" /\ Running /\ RepairAnswers(signals) /\ NoCrash

Begins(keys) == phase \in {"SELF_VERIFY", "REVIEW", "FINAL_REVIEW"} /\ BeginRepair(keys) /\ NoCrash

Tears == /\ UNCHANGED <<phase, due, escalations>> /\ Spared
         /\ spent'.crashes = spent.crashes + 1
         /\ \/ file' = file
            \/ \E d \in {"RESOLVED", "HUMAN_GATE"} : file' = file \o DispositionLines(d)
            \/ \E keys \in Findings : ~Ended /\ file' = file \o Consider(keys).lines

\* What is spent is counted, crashes apart.
LEMMA SpendIs ==
  ASSUME World, NEW kind \in {"ticks", "failures", "crashes", "turns"}, Spend(kind)
  PROVE  /\ spent' \in [{"ticks", "failures", "crashes", "turns"} -> Nat]
         /\ spent'.crashes = IF kind = "crashes" THEN spent.crashes + 1 ELSE spent.crashes
BY DEF World, Spend

LEMMA FoundIs ==
  ASSUME World, NEW keys, Found(keys)
  PROVE  spent' \in [{"ticks", "failures", "crashes", "turns"} -> Nat] /\ NoCrash
<1>1. spent' = spent \/ Spend("turns")
  <2>1. CASE keys \in {{}, origin.keys}
    BY <2>1 DEF Found
  <2>2. CASE keys # {} /\ origin.keys = {}
    BY <2>2 DEF Found
  <2>3. CASE keys \notin {{}, origin.keys} /\ origin.keys # {}
    BY <2>3 DEF Found
  <2> QED BY <2>1, <2>2, <2>3
<1> QED BY <1>1, SpendIs DEF World, NoCrash

\* Which call may be due in which phase.
LEMMA Phases ==
  ASSUME Typed
  PROVE  /\ due \in Effects \cup Reviews \cup {"diagnose", "none"}
         /\ flight # NoFlight => due # "none" /\ flight.name = due
         /\ Answered => due \in Reviews /\ phase \in {"REVIEW", "FINAL_REVIEW"}
         /\ due = "repair" => phase = "REPAIR"
         /\ due = "diagnose" => phase = "REPAIR"
         /\ due = "execute" => phase = "EXECUTE"
         /\ due = "review" => phase = "REVIEW"
         /\ due = "final_review" => phase = "FINAL_REVIEW"
         /\ due = "none" => phase \in {"SELF_VERIFY", "ACCEPTED", "AWAITING_HUMAN"} /\ flight = NoFlight
         /\ Ended => due = "none"
<1>1. Placed /\ (flight # NoFlight => flight.name = due /\ due # "none")
  BY DEF Typed, Calling
<1>2. flight # NoFlight /\ flight.verdict # "none" => due \in Reviews
  BY DEF Typed, Calling
<1> QED BY <1>1, <1>2 DEF Placed, Effects, Reviews, Answered, Ended

\* Every step has one of these shapes.
LEMMA Shapes ==
  ASSUME Typed, Next
  PROVE  \/ Halts \/ Moves \/ Closes
         \/ \E signals \in BOOLEAN : Repairs(signals)
         \/ \E keys \in Findings : Begins(keys)
         \/ Tears
<1> DEFINE Shape == \/ Halts \/ Moves \/ Closes
                    \/ \E signals \in BOOLEAN : Repairs(signals)
                    \/ \E keys \in Findings : Begins(keys)
                    \/ Tears
<1> SUFFICES Shape
  OBVIOUS
<1>w. World
  BY DEF Typed
<1>1. CASE Route
  <2>1. Spared /\ NoCrash
    BY <1>1 DEF Route, Spared, NoCrash
  <2>2. CASE Escalate
    BY <1>w, <2>1, <2>2 DEF Halts, NoCrash, World
  <2>3. CASE ~Escalate
    <3>1. \E decision : Dispatch(decision)
      BY <1>1, <2>3 DEF Route
    <3> QED BY <2>1, <3>1 DEF Moves, Onward, Dispatch
  <2> QED BY <2>2, <2>3
<1>2. CASE RoleUnavailable
  <2>1. Spared /\ NoCrash
    BY <1>2 DEF RoleUnavailable, Spared, NoCrash
  <2>2. Escalate \/ UNCHANGED <<phase, due, escalations, file>>
    BY <1>2 DEF RoleUnavailable
  <2> QED BY <2>1, <2>2 DEF Halts, Moves, Onward, NoCrash
<1>3. CASE AnswerRefused
  BY <1>3 DEF AnswerRefused, Halts, Spared
<1>4. CASE ExecuteAnswers
  BY <1>4, Phases DEF ExecuteAnswers, Moves, Onward, Spared, NoCrash
<1>5. CASE DiagnoseAnswers
  BY <1>5 DEF DiagnoseAnswers, Moves, Onward, Spared, NoCrash
<1>6. ASSUME NEW class \in FailureClasses \cup {"none"}, NEW retryable \in BOOLEAN,
             NEW touched \in BOOLEAN, CallFails(class, retryable, touched)
      PROVE  Shape
  <2>1. Spared /\ Spend("failures")
    BY <1>6 DEF CallFails, Spared
  <2>2. Escalate \/ UNCHANGED <<phase, due, escalations, file>>
    BY <1>6 DEF CallFails
  <2>3. spent'.crashes = spent.crashes
    BY <1>w, <2>1, SpendIs
  <2> QED BY <2>1, <2>2, <2>3 DEF Halts, Moves, Onward, NoCrash
<1>7. ASSUME NEW signals \in BOOLEAN, RepairAnswers(signals) PROVE Shape
  <2>1. Repairs(signals)
    BY <1>7 DEF RepairAnswers, Repairs, Returns, NoCrash
  <2> QED BY <2>1
<1>8. ASSUME NEW verdict \in {"PASS", "REPAIR", "ESCALATE"}, NEW keys \in Findings \cup {{}},
             ReviewAnswers(verdict, keys)
      PROVE  Shape
  <2>1. NoCrash
    BY <1>w, <1>8, FoundIs DEF ReviewAnswers
  <2> QED BY <1>8, <2>1 DEF ReviewAnswers, Moves, Onward, Spared
<1>9. ASSUME NEW failing \in Findings \cup {{}}, SelfVerify(failing) PROVE Shape
  <2>1. NoCrash
    BY <1>w, <1>9, FoundIs DEF SelfVerify
  <2>2. CASE failing = {}
    BY <1>9, <2>1, <2>2 DEF SelfVerify, Moves, Onward, Spared
  <2>3. CASE failing # {}
    <3>1. Begins(failing) /\ failing \in Findings
      BY <1>9, <2>1, <2>3 DEF SelfVerify, Begins
    <3> QED BY <3>1
  <2> QED BY <2>2, <2>3
<1>10. CASE ReviewPasses
  <2>1. Spared /\ NoCrash /\ UNCHANGED <<escalations, file>> /\ phase = "REVIEW"
    BY <1>10 DEF ReviewPasses, Spared, NoCrash
  <2>2. IF LightReview THEN phase' = "ACCEPTED" /\ due' = "none"
                       ELSE phase' = "FINAL_REVIEW" /\ due' = "final_review"
    BY <1>10 DEF ReviewPasses
  <2> QED BY <2>1, <2>2 DEF Moves, Onward
<1>11. CASE FinalReviewPasses
  BY <1>11 DEF FinalReviewPasses, Closes, Spared, NoCrash
<1>12. CASE ReviewRepairs
  <2>1. flight.keys \in Findings /\ phase \in {"REVIEW", "FINAL_REVIEW"}
    BY <1>12, Phases DEF ReviewRepairs, Answered, Typed, Calling
  <2>2. Begins(flight.keys)
    BY <1>12, <2>1 DEF ReviewRepairs, Begins, NoCrash
  <2> QED BY <2>1, <2>2
<1>13. CASE ReviewEscalates
  BY <1>13 DEF ReviewEscalates, Halts, Spared
<1>14. CASE CrashInEffects
  <2>1. Escalate /\ Spared /\ Spend("crashes")
    BY <1>14 DEF CrashInEffects, Crash, Spared
  <2> QED BY <1>w, <2>1, SpendIs DEF Halts
<1>15. CASE CrashInReview
  <2>1. Spared /\ Spend("crashes") /\ UNCHANGED <<phase, due, escalations>>
    BY <1>15 DEF CrashInReview, Crash, Spared
  <2>2. file' = file \/ file' = file \o DispositionLines("HUMAN_GATE")
    BY <1>15 DEF CrashInReview
  <2>3. spent'.crashes = spent.crashes + 1
    BY <1>w, <2>1, SpendIs
  <2> QED BY <2>1, <2>2, <2>3 DEF Tears
<1>16. CASE CrashInHandler
  <2>1. Spared /\ Spend("crashes") /\ UNCHANGED <<phase, due, escalations>>
    BY <1>16 DEF CrashInHandler, Crash, Spared
  <2>2. file' = file \o HandlerLines /\ Answered
    BY <1>16 DEF CrashInHandler
  <2>3. spent'.crashes = spent.crashes + 1
    BY <1>w, <2>1, SpendIs
  <2>4. CASE flight.verdict = "REPAIR"
    <3>1. HandlerLines = Consider(flight.keys).lines
      BY <2>4 DEF HandlerLines
    <3>2. flight.keys \in Findings /\ ~Ended
      BY <2>2, <2>4, Phases DEF Answered, Typed, Calling, Ended
    <3> QED BY <2>1, <2>2, <2>3, <3>1, <3>2 DEF Tears
  <2>5. CASE flight.verdict = "ESCALATE"
    <3>1. HandlerLines = DispositionLines("HUMAN_GATE")
      BY <2>5 DEF HandlerLines
    <3> QED BY <2>1, <2>2, <2>3, <3>1 DEF Tears
  <2>6. CASE flight.verdict \notin {"REPAIR", "ESCALATE"}
    <3>1. HandlerLines = IF phase = "FINAL_REVIEW" THEN DispositionLines("RESOLVED") ELSE <<>>
      BY <2>6 DEF HandlerLines
    <3>2. CASE phase = "FINAL_REVIEW"
      BY <2>1, <2>2, <2>3, <3>1, <3>2 DEF Tears
    <3>3. CASE phase # "FINAL_REVIEW"
      <4>1. file \in Seq(Mark)
        BY DEF Typed, Recorded
      <4>2. file' = file
        BY <2>2, <3>1, <3>3, <4>1
      <4> QED BY <2>1, <2>3, <4>2 DEF Tears
    <3> QED BY <3>2, <3>3
  <2> QED BY <2>4, <2>5, <2>6
<1>17. ASSUME NEW failing \in Findings, CrashInSelfVerify(failing) PROVE Shape
  <2>1. Spared /\ Spend("crashes") /\ UNCHANGED <<phase, due, escalations>>
    BY <1>17 DEF CrashInSelfVerify, Crash, Spared
  <2>2. file' = file \o Consider(failing).lines /\ ~Ended
    BY <1>17 DEF CrashInSelfVerify, Ended
  <2>3. spent'.crashes = spent.crashes + 1
    BY <1>w, <2>1, SpendIs
  <2> QED BY <2>1, <2>2, <2>3 DEF Tears
<1>18. CASE Observe
  <2>1. spent'.crashes = spent.crashes
    BY <1>w, <1>18, SpendIs DEF Observe
  <2> QED BY <1>18, <2>1 DEF Observe, state, Moves, Onward, Spared, NoCrash
<1>19. CASE TimePasses
  <2>1. spent'.crashes = spent.crashes
    BY <1>w, <1>19, SpendIs DEF TimePasses
  <2> QED BY <1>19, <2>1 DEF TimePasses, state, Moves, Onward, Spared, NoCrash
<1>20. CASE Rest
  BY <1>20 DEF Rest, vars, state, Moves, Onward, Spared, NoCrash
<1> HIDE DEF Shape
<1> QED BY <1>1, <1>2, <1>3, <1>4, <1>5, <1>6, <1>7, <1>8, <1>9, <1>10, <1>11, <1>12, <1>13,
           <1>14, <1>15, <1>16, <1>17, <1>18, <1>19, <1>20 DEF Next

Assessed == IF repairs = <<>> THEN repairs
            ELSE [repairs EXCEPT ![Len(repairs)].assessed = TRUE]

\* BeginRepair, with what Consider found.
LEMMA BeginsAs ==
  ASSUME NEW keys, Begins(keys)
  PROVE  \E found : /\ found = Consider(keys)
                    /\ repairs' = Assessed
                    /\ ladder' = found.ladder
                    /\ escalations' = found.escalations /\ file' = file \o found.lines
                    /\ flight' = NoFlight
                    /\ found.stops => phase' = "AWAITING_HUMAN" /\ due' = "none" /\ origin' = origin
                    /\ ~found.stops =>
                         /\ phase' = "REPAIR"
                         /\ origin' = [keys |-> keys, step |-> found.ladder.step, id |-> found.id]
                         /\ due' = IF found.ladder.step.diagnoses = NoOne THEN "repair" ELSE "diagnose"
BY DEF Begins, BeginRepair, Assessed

\* A step leads from a phase to a phase.
LEMMA PlacedStep ==
  ASSUME Typed, Next
  PROVE  Placed'
<1>1. Placed
  BY DEF Typed
<1>2. CASE Halts
  BY <1>2 DEF Halts, Escalate, Placed
<1>3. CASE Moves
  BY <1>1, <1>3, Phases DEF Moves, Onward, Placed
<1>4. CASE Closes
  BY <1>4 DEF Closes, Placed
<1>5. ASSUME NEW signals \in BOOLEAN, Repairs(signals) PROVE Placed'
  BY <1>5 DEF Repairs, RepairAnswers, Placed
<1>6. ASSUME NEW keys \in Findings, Begins(keys) PROVE Placed'
  BY <1>6, BeginsAs DEF Placed
<1>7. CASE Tears
  BY <1>1, <1>7 DEF Tears, Placed
<1> QED BY <1>2, <1>3, <1>4, <1>5, <1>6, <1>7, Shapes

-----------------------------------------------------------------------------
(* CALLS.                                                                   *)
LEMMA PoolIs ==
  \A p \in Profiles : Traits[p].pool \in Pools /\ Traits[p].pool \in HealthKeys /\ p \in HealthKeys
BY DEF Pools, HealthKeys

\* Recording a failure or a success keeps the router's state.
LEMMA RecordFailureIs ==
  ASSUME NEW r, RouterState(r), NEW key \in HealthKeys, NEW class, NEW now_ \in Nat
  PROVE  RouterState(RecordFailure(r, key, class, now_))
<1>1. class \in DOMAIN CooldownOf => CooldownOf[class] \in Nat
  BY DEF CooldownOf
<1> QED BY <1>1 DEF RouterState, RecordFailure

LEMMA RecordSuccessIs ==
  ASSUME NEW r, RouterState(r), NEW pool \in Pools
  PROVE  RouterState(RecordSuccess(r, pool))
BY DEF RouterState, RecordSuccess, HealthKeys

\* Calls are preferred, ranked and served by profiles.
LEMMA ServerIs ==
  ASSUME Typed, Running
  PROVE  Server \in Profiles
BY DEF Typed, Calling, Running, Server

LEMMA PreferredIs ==
  ASSUME Typed, due # "none", NEW risk \in Risks
  PROVE  Preferred(risk) \in Profiles
<1>1. due \in {"execute", "review", "final_review", "diagnose", "repair"}
  BY Phases DEF Effects, Reviews
<1>2. CASE due = "execute"
  <2>1. SelectImplementation \in Profiles
    <3> DEFINE A == plan.override
               B == plan.complexity = "NORMAL"
               C == plan.complexity = "HARDER"
    <3>1. SelectImplementation \in {Slots.implementer_capability_escalation, Slots.implementer_default,
                                    Slots.implementer_harder, Slots.implementer_strong}
      <4>1. SelectImplementation =
              CASE A -> Slots.implementer_capability_escalation
                [] ~A /\ B -> Slots.implementer_default
                [] ~A /\ C -> Slots.implementer_harder
                [] OTHER -> Slots.implementer_strong
        BY Zenon DEF SelectImplementation
      <4>2. ~(B /\ C)
        OBVIOUS
      <4> HIDE DEF A, B, C
      <4>3. CASE A
        BY <4>1, <4>3
      <4>4. CASE ~A /\ B
        BY <4>1, <4>2, <4>4
      <4>5. CASE ~A /\ C
        BY <4>1, <4>2, <4>5
      <4>6. CASE ~A /\ ~B /\ ~C
        BY <4>1, <4>6
      <4> QED BY <4>3, <4>4, <4>5, <4>6
    <3> QED BY <3>1, RunAssumption
  <2> QED BY <1>2, <2>1 DEF Preferred
<1>3. CASE due = "review"
  <2>1. Preferred(risk) = Slots.primary_reviewer
    BY <1>3 DEF Preferred
  <2> QED BY <2>1, RunAssumption
<1>4. CASE due = "final_review"
  <2>1. SelectFinalReview(risk) \in {Slots.final_review_critical, Slots.final_review_hard,
                                     Slots.final_review_default}
    BY DEF SelectFinalReview
  <2>2. Preferred(risk) = SelectFinalReview(risk)
    BY <1>4 DEF Preferred
  <2> QED BY <2>1, <2>2, RunAssumption
<1>5. CASE due = "diagnose"
  <2>1. Preferred(risk) = origin.step.diagnoses
    BY <1>5 DEF Preferred
  <2> QED BY <1>5, <2>1 DEF Typed, Posed, StepType, Someone
<1>6. CASE due = "repair"
  <2>1. SelectRepair \in {Slots.implementer_strong, Slots.repair_hard, Slots.repair_default}
    BY DEF SelectRepair
  <2>2. Preferred(risk) = IF origin.step.profile = NoOne THEN SelectRepair ELSE origin.step.profile
    BY <1>6 DEF Preferred
  <2> QED BY <2>1, <2>2, RunAssumption DEF Typed, Posed, StepType, Someone
<1> QED BY <1>1, <1>2, <1>3, <1>4, <1>5, <1>6

\* What _route decides, and for a review, that no writer is ranked.
LEMMA RoutedAs ==
  ASSUME Typed, due # "none", NEW risk \in Risks, NEW d,
         d = RouteCall(Request(Preferred(risk), risk), telemetry, router, now)
  PROVE  /\ RouterState(d.router) /\ d.ranked \in Seq(Profiles)
         /\ due \in Reviews => Innocent(d.ranked)
<1>1. PICK req : req = Request(Preferred(risk), risk)
  OBVIOUS
<1>2. Preferred(risk) \in Profiles
  BY PreferredIs
<1>3. req.preferred = Preferred(risk) /\ req.task = TaskClass /\ req.exclude = (IF due \in Reviews THEN writers ELSE {})
      /\ req.override = (IF due = "execute" /\ plan.override THEN Preferred(risk) ELSE "none")
  BY <1>1 DEF Request
<1>4. TaskClass \in {"SMALL", "LARGE", "VERY_LARGE"}
  BY DEF TaskClass
<1>5. Sound(req) /\ req.override \in Profiles \cup {"none"}
  BY <1>2, <1>3, <1>4 DEF Sound
<1>6. RouterState(router) /\ Reports(telemetry) /\ now \in Nat
  BY DEF Typed, World
<1>7. d = RouteCall(req, telemetry, router, now)
  BY <1>1
<1>8. /\ d.ranked \in Seq(Profiles) /\ RouterState(d.router)
      /\ req.override = "none" => d.ranked \in Seq(Passing(req))
  BY <1>5, <1>6, <1>7, RouteCallIs
<1>9. ASSUME due \in Reviews PROVE Innocent(d.ranked)
  <2>1. req.override = "none" /\ req.exclude = writers
    BY <1>3, <1>9 DEF Reviews
  <2>2. d.ranked \in Seq(Passing(req))
    BY <1>8, <2>1
  <2>3. \A p \in Passing(req) : Traits[p].model \notin writers
    BY <2>1 DEF Passing, Passes
  <2> QED BY <2>2, <2>3 DEF Innocent
<1> QED BY <1>8, <1>9

\* What is listed of a served call.
LEMMA ListedIs ==
  ASSUME Typed, Running, Listed
  PROVE  /\ writers' \subseteq {Traits[p].model : p \in Profiles} /\ implementer' \in Someone
         /\ due \notin Effects => writers' = writers
<1>1. Server \in Profiles /\ World
  BY ServerIs DEF Typed
<1> HIDE DEF Server
<1>2. writers' = (IF due \in Effects THEN writers \cup {Traits[Server].model} ELSE writers)
  BY DEF Listed
<1>3. implementer' = (IF due = "execute" THEN Server ELSE implementer)
  BY DEF Listed
<1> QED BY <1>1, <1>2, <1>3 DEF World, Someone

LEMMA ReturnsIs ==
  ASSUME Typed, Returns
  PROVE  /\ RouterState(router') /\ lastPool' \in Pools
         /\ writers' \subseteq {Traits[p].model : p \in Profiles} /\ implementer' \in Someone
         /\ due \notin Effects => writers' = writers
<1>1. Running /\ Listed
  BY DEF Returns
<1>2. Traits[Server].pool \in Pools
  BY <1>1, ServerIs, PoolIs
<1>3. RouterState(router)
  BY DEF Typed, World
<1>4. router' = RecordSuccess(router, Traits[Server].pool) /\ lastPool' = Traits[Server].pool
  BY DEF Returns
<1>5. RouterState(router')
  <2> DEFINE pool == Traits[Server].pool
  <2> HIDE DEF pool
  <2>1. pool \in Pools /\ router' = RecordSuccess(router, pool)
    BY <1>2, <1>4 DEF pool
  <2> QED BY <1>3, <2>1, RecordSuccessIs
<1> QED BY <1>1, <1>2, <1>4, <1>5, ListedIs

\* The router, the writers and what was spent keep their types.
LEMMA WorldStep ==
  ASSUME Typed, Next
  PROVE  World'
<1>w. World
  BY DEF Typed
<1> DEFINE Quiet == /\ UNCHANGED <<now, telemetry, router, lastPool, writers, implementer>>
                    /\ spent' \in [{"ticks", "failures", "crashes", "turns"} -> Nat]
           Served == /\ UNCHANGED <<now, telemetry>> /\ Returns
                     /\ spent' \in [{"ticks", "failures", "crashes", "turns"} -> Nat]
<1>q. ASSUME Quiet PROVE World'
  BY <1>w, <1>q DEF World, Reports, RouterState
<1>s. ASSUME Served PROVE World'
  <2>1. RouterState(router') /\ lastPool' \in Pools
        /\ writers' \subseteq {Traits[p].model : p \in Profiles} /\ implementer' \in Someone
    BY <1>s, ReturnsIs
  <2> QED BY <1>w, <1>s, <2>1 DEF World, Reports
<1>1. CASE Route
  <2>1. UNCHANGED <<now, telemetry, lastPool, writers, implementer, spent>>
    BY <1>1 DEF Route
  <2>2. RouterState(router')
    <3>1. PICK risk \in Risks : \/ UNCHANGED router
                                \/ router' = RouteCall(Request(Preferred(risk), risk), telemetry, router, now).router
      BY <1>1 DEF Route
    <3>2. PICK d : d = RouteCall(Request(Preferred(risk), risk), telemetry, router, now)
      OBVIOUS
    <3>3. RouterState(d.router)
      BY <1>1, <3>2, RoutedAs DEF Route
    <3>4. router' = router \/ router' = d.router
      BY <3>1, <3>2
    <3> QED BY <1>w, <3>3, <3>4 DEF World
  <2> QED BY <1>w, <2>1, <2>2 DEF World, Reports
<1>2. CASE RoleUnavailable
  <2>1. UNCHANGED <<now, telemetry, lastPool, writers, implementer, spent>> /\ Running
    BY <1>2 DEF RoleUnavailable
  <2>2. UNCHANGED router \/ router' = RecordFailure(router, Server, "UNAVAILABLE", now)
    BY <1>2 DEF RoleUnavailable
  <2>3. RouterState(router')
    <3> DEFINE s == Server
    <3> HIDE DEF s
    <3>1. s \in HealthKeys /\ (router' = router \/ router' = RecordFailure(router, s, "UNAVAILABLE", now))
      BY <2>1, <2>2, ServerIs, PoolIs DEF s
    <3> QED BY <1>w, <3>1, RecordFailureIs DEF World
  <2> QED BY <1>w, <2>1, <2>3 DEF World, Reports
<1>3. CASE AnswerRefused
  <2>1. Served
    BY <1>w, <1>3 DEF AnswerRefused, World
  <2> QED BY <2>1, <1>s
<1>4. CASE ExecuteAnswers
  <2>1. Served
    BY <1>w, <1>4 DEF ExecuteAnswers, World
  <2> QED BY <2>1, <1>s
<1>5. CASE DiagnoseAnswers
  <2>1. Served
    BY <1>w, <1>5 DEF DiagnoseAnswers, World
  <2> QED BY <2>1, <1>s
<1>6. ASSUME NEW class \in FailureClasses \cup {"none"}, NEW retryable \in BOOLEAN,
             NEW touched \in BOOLEAN, CallFails(class, retryable, touched)
      PROVE  World'
  <2>1. UNCHANGED <<now, telemetry, lastPool>> /\ Running /\ Listed /\ Spend("failures")
    BY <1>6 DEF CallFails
  <2>2. UNCHANGED router \/ router' = RecordFailure(router, Traits[Server].pool, class, now)
    BY <1>6 DEF CallFails
  <2>3. RouterState(router')
    <3> DEFINE pool == Traits[Server].pool
    <3> HIDE DEF pool
    <3>1. pool \in HealthKeys /\ (router' = router \/ router' = RecordFailure(router, pool, class, now))
      BY <2>1, <2>2, ServerIs, PoolIs DEF pool
    <3> QED BY <1>w, <3>1, RecordFailureIs DEF World
  <2>4. writers' \subseteq {Traits[p].model : p \in Profiles} /\ implementer' \in Someone
    BY <2>1, ListedIs
  <2>5. spent' \in [{"ticks", "failures", "crashes", "turns"} -> Nat]
    BY <1>w, <2>1, SpendIs
  <2> QED BY <1>w, <2>1, <2>3, <2>4, <2>5 DEF World, Reports
<1>7. ASSUME NEW signals \in BOOLEAN, RepairAnswers(signals) PROVE World'
  <2>1. Served
    BY <1>w, <1>7 DEF RepairAnswers, World
  <2> QED BY <2>1, <1>s
<1>8. ASSUME NEW verdict \in {"PASS", "REPAIR", "ESCALATE"}, NEW keys \in Findings \cup {{}},
             ReviewAnswers(verdict, keys)
      PROVE  World'
  <2>1. Served
    BY <1>w, <1>8, FoundIs DEF ReviewAnswers
  <2> QED BY <2>1, <1>s
<1>9. ASSUME NEW failing \in Findings \cup {{}}, SelfVerify(failing) PROVE World'
  <2>1. Quiet
    BY <1>w, <1>9, FoundIs DEF SelfVerify, Unmoved
  <2> QED BY <2>1, <1>q
<1>10. CASE ReviewPasses
  <2>1. Quiet
    BY <1>w, <1>10 DEF ReviewPasses, Unmoved, World
  <2> QED BY <2>1, <1>q
<1>11. CASE FinalReviewPasses
  <2>1. Quiet
    BY <1>w, <1>11 DEF FinalReviewPasses, Unmoved, World
  <2> QED BY <2>1, <1>q
<1>12. CASE ReviewRepairs
  <2>1. Quiet
    BY <1>w, <1>12 DEF ReviewRepairs, Unmoved, World
  <2> QED BY <2>1, <1>q
<1>13. CASE ReviewEscalates
  <2>1. Quiet
    BY <1>w, <1>13 DEF ReviewEscalates, Unmoved, World
  <2> QED BY <2>1, <1>q
<1>14. ASSUME Crash PROVE World'
  <2>1. Quiet
    BY <1>w, <1>14, SpendIs DEF Crash
  <2> QED BY <2>1, <1>q
<1>15. CASE Observe
  <2>1. UNCHANGED <<now, router, lastPool, writers, implementer>> /\ Spend("ticks")
    BY <1>15 DEF Observe, state
  <2>2. PICK snapshot \in Snapshots :
          telemetry' = [pool \in Pools |-> {[l EXCEPT !.observed = now] : l \in snapshot[pool]}]
    BY <1>15 DEF Observe
  <2>3. ASSUME NEW pool \in Pools
        PROVE  IsFiniteSet(telemetry'[pool]) /\ telemetry'[pool] \subseteq Limits
    <3> DEFINE S == snapshot[pool]
               T == telemetry'[pool]
               f == [l \in S |-> [l EXCEPT !.observed = now]]
    <3>1. IsFiniteSet(S) /\ S \subseteq Limits
      BY RunAssumption
    <3>2. T = {[l EXCEPT !.observed = now] : l \in S}
      BY <2>2
    <3>3. DOMAIN f = S /\ T = {f[l] : l \in S} /\ f \in [S -> T]
      BY <3>2
    <3>4. IsFiniteSet(T)
      <4> HIDE DEF S, T, f
      <4> QED BY <3>1, <3>3, FiniteImage
    <3>5. ASSUME NEW l \in S PROVE [l EXCEPT !.observed = now] \in Limits
      <4>1. l \in Limits /\ now \in Nat
        BY <1>w, <3>1, <3>5 DEF World
      <4> HIDE DEF S
      <4> QED BY <4>1 DEF Limits
    <3> HIDE DEF S
    <3> QED BY <3>2, <3>4, <3>5
  <2>4. Reports(telemetry')
    BY <2>3 DEF Reports
  <2>5. spent' \in [{"ticks", "failures", "crashes", "turns"} -> Nat]
    BY <1>w, <2>1, SpendIs
  <2> QED BY <1>w, <2>1, <2>4, <2>5 DEF World
<1>16. CASE TimePasses
  <2>1. UNCHANGED <<telemetry, router, lastPool, writers, implementer>> /\ Spend("ticks")
    BY <1>16 DEF TimePasses, state
  <2>2. now' \in Nat
    BY <1>w, <1>16, RunAssumption DEF TimePasses, World
  <2>3. spent' \in [{"ticks", "failures", "crashes", "turns"} -> Nat]
    BY <1>w, <2>1, SpendIs
  <2> QED BY <1>w, <2>1, <2>2, <2>3 DEF World, Reports
<1>17. CASE Rest
  <2>1. Quiet
    BY <1>w, <1>17 DEF Rest, vars, state, World
  <2> QED BY <2>1, <1>q
<1>18. CrashInEffects \/ CrashInReview \/ CrashInHandler \/ (\E failing \in Findings : CrashInSelfVerify(failing)) => Crash
  BY DEF CrashInEffects, CrashInReview, CrashInHandler, CrashInSelfVerify
<1> QED BY <1>1, <1>2, <1>3, <1>4, <1>5, <1>6, <1>7, <1>8, <1>9, <1>10, <1>11, <1>12, <1>13,
           <1>14, <1>15, <1>16, <1>17, <1>18 DEF Next

\* A failover leaves the rest of the ranking.
LEMMA TailIs ==
  ASSUME NEW s \in Seq(Profiles), Len(s) > 1
  PROVE  /\ Tail(s) \in Seq(Profiles) /\ Tail(s) # <<>>
         /\ Innocent(s) => Innocent(Tail(s))
<1>1. Tail(s) \in Seq(Profiles) /\ Len(Tail(s)) = Len(s) - 1 /\ DOMAIN Tail(s) = 1..(Len(s) - 1)
      /\ \A i \in 1..(Len(s) - 1) : Tail(s)[i] = s[i + 1]
  OBVIOUS
<1>2. Tail(s) # <<>>
  <2>1. PICK t : t = Tail(s)
    OBVIOUS
  <2>2. t \in Seq(Profiles) /\ 1 \in DOMAIN t
    BY <1>1, <2>1
  <2>3. t # <<>>
    BY <2>2
  <2> QED BY <2>1, <2>3
<1>3. ASSUME Innocent(s) PROVE Innocent(Tail(s))
  <2>1. \A i \in 1..(Len(s) - 1) : i + 1 \in DOMAIN s
    OBVIOUS
  <2> QED BY <1>1, <1>3, <2>1 DEF Innocent
<1> QED BY <1>1, <1>2, <1>3

\* A call that goes on is ranked from what it was ranked from.
LEMMA GoesOn ==
  ASSUME Typed, flight # NoFlight, UNCHANGED <<phase, due>>, due \in Reviews => writers' = writers,
         DOMAIN flight' = DOMAIN flight, flight'.name = flight.name,
         flight'.ranked = flight.ranked \/ (Len(flight.ranked) > 1 /\ flight'.ranked = Tail(flight.ranked)),
         \/ flight'.verdict = flight.verdict /\ flight'.keys = flight.keys
         \/ due \in Reviews /\ (flight'.verdict = "REPAIR" => flight'.keys \in Findings)
  PROVE  Calling'
<1>1. /\ DOMAIN flight = {"name", "ranked", "reason", "retry", "tried", "verdict", "keys"}
      /\ flight.name = due /\ due # "none"
      /\ flight.ranked \in Seq(Profiles) /\ flight.ranked # <<>>
  BY DEF Typed, Calling
<1>2. /\ flight.verdict # "none" => due \in Reviews
      /\ flight.verdict = "REPAIR" => flight.keys \in Findings
      /\ due \in Reviews => Innocent(flight.ranked)
  BY DEF Typed, Calling
<1>3. /\ flight'.ranked \in Seq(Profiles) /\ flight'.ranked # <<>>
      /\ due \in Reviews => Innocent(flight'.ranked)
  BY <1>1, <1>2, TailIs
<1>4. due \in Reviews => Innocent(flight.ranked)'
  BY <1>3 DEF Innocent
<1>5. DOMAIN flight' = {"name", "ranked", "reason", "retry", "tried", "verdict", "keys"}
  BY <1>1
<1>6. flight'.name = due' /\ due' # "none"
  BY <1>1
<1>7. /\ flight'.verdict # "none" => due' \in Reviews
      /\ flight'.verdict = "REPAIR" => flight'.keys \in Findings
  BY <1>2
<1> QED BY <1>3, <1>4, <1>5, <1>6, <1>7 DEF Calling, Reviews

\* No writer is ever ranked for a review, nor becomes one while it is ranked.
LEMMA CallingStep ==
  ASSUME Typed, Next
  PROVE  Calling'
<1>0. Calling
  BY DEF Typed
<1>n. flight' = NoFlight => Calling'
  BY DEF Calling, NoFlight
<1>k. UNCHANGED <<flight, phase, due, writers>> => Calling'
  BY <1>0 DEF Calling, NoFlight, Reviews, Innocent
<1>e. Escalate => Calling'
  BY <1>n DEF Escalate
<1>1. CASE Route
  <2>1. CASE Escalate
    BY <1>e, <2>1
  <2>2. CASE ~Escalate
    <3>1. PICK risk \in Risks : LET d == RouteCall(Request(Preferred(risk), risk), telemetry, router, now)
                                IN  Dispatch(d) /\ d.ranked # <<>>
      BY <1>1, <2>2 DEF Route
    <3>2. PICK d : d = RouteCall(Request(Preferred(risk), risk), telemetry, router, now)
      OBVIOUS
    <3>3. d.ranked \in Seq(Profiles) /\ (due \in Reviews => Innocent(d.ranked)) /\ due # "none"
      BY <1>1, <3>2, RoutedAs DEF Route
    <3>4. Dispatch(d) /\ d.ranked # <<>>
      BY <3>1, <3>2
    <3> DEFINE most == IF Len(d.ranked) > MaxFailovers + 1 THEN MaxFailovers + 1 ELSE Len(d.ranked)
    <3>5. most \in 1..Len(d.ranked)
      BY <3>3, <3>4, RunAssumption
    <3> HIDE DEF most
    <3>6. PICK r : r = SubSeq(d.ranked, 1, most)
      OBVIOUS
    <3>7. r \in Seq(Profiles) /\ r # <<>> /\ DOMAIN r = 1..most /\ \A i \in 1..most : r[i] = d.ranked[i]
      BY <3>3, <3>5, <3>6
    <3>8. flight' = [name |-> due, ranked |-> r, reason |-> d.reason, retry |-> retryOf, tried |-> {},
                     verdict |-> "none", keys |-> {}]
      BY <3>4, <3>6 DEF Dispatch, most
    <3>9. due \in Reviews => Innocent(r)
      BY <3>3, <3>5, <3>7 DEF Innocent
    <3>10. UNCHANGED <<due, writers>>
      BY <1>1, <3>4 DEF Route, Dispatch
    <3>11. due \in Reviews => Innocent(flight.ranked)'
      BY <3>8, <3>9, <3>10 DEF Innocent
    <3> QED BY <3>3, <3>7, <3>8, <3>10, <3>11 DEF Calling, Reviews
  <2> QED BY <2>1, <2>2
<1>2. CASE RoleUnavailable
  <2>1. CASE Escalate
    BY <1>e, <2>1
  <2>2. CASE ~Escalate
    <3>1. /\ flight # NoFlight /\ Len(flight.ranked) > 1 /\ UNCHANGED <<phase, due, writers>>
          /\ flight' = [flight EXCEPT !.ranked = Tail(@)]
      BY <1>2, <2>2 DEF RoleUnavailable, Running
    <3>2. DOMAIN flight = {"name", "ranked", "reason", "retry", "tried", "verdict", "keys"}
      BY <1>0, <3>1 DEF Calling
    <3>3. /\ DOMAIN flight' = DOMAIN flight /\ flight'.name = flight.name
          /\ flight'.ranked = Tail(flight.ranked)
          /\ flight'.verdict = flight.verdict /\ flight'.keys = flight.keys
      BY <3>1, <3>2
    <3> QED BY <3>1, <3>3, GoesOn
  <2> QED BY <2>1, <2>2
<1>3. CASE AnswerRefused
  BY <1>3, <1>e DEF AnswerRefused
<1>4. CASE ExecuteAnswers
  BY <1>4, <1>n DEF ExecuteAnswers
<1>5. CASE DiagnoseAnswers
  BY <1>5, <1>n DEF DiagnoseAnswers
<1>6. ASSUME NEW class \in FailureClasses \cup {"none"}, NEW retryable \in BOOLEAN,
             NEW touched \in BOOLEAN, CallFails(class, retryable, touched)
      PROVE  Calling'
  <2>1. CASE Escalate \/ flight' = NoFlight
    BY <1>e, <1>n, <2>1
  <2>2. CASE ~(Escalate \/ flight' = NoFlight)
    <3>1. /\ flight # NoFlight /\ Len(flight.ranked) > 1 /\ UNCHANGED <<phase, due>>
          /\ Failover(FALSE) /\ Running /\ Listed
      BY <1>6, <2>2 DEF CallFails, Running
    <3>2. DOMAIN flight = {"name", "ranked", "reason", "retry", "tried", "verdict", "keys"}
      BY <1>0, <3>1 DEF Calling
    <3>3. due \in Reviews => writers' = writers
      BY <3>1, ListedIs DEF Effects, Reviews
    <3>4. /\ DOMAIN flight' = DOMAIN flight /\ flight'.name = flight.name
          /\ flight'.ranked = Tail(flight.ranked)
          /\ flight'.verdict = flight.verdict /\ flight'.keys = flight.keys
      BY <3>1, <3>2 DEF Failover
    <3> QED BY <3>1, <3>3, <3>4, GoesOn
  <2> QED BY <2>1, <2>2
<1>7. ASSUME NEW signals \in BOOLEAN, RepairAnswers(signals) PROVE Calling'
  BY <1>7, <1>n DEF RepairAnswers
<1>8. ASSUME NEW verdict \in {"PASS", "REPAIR", "ESCALATE"}, NEW keys \in Findings \cup {{}},
             ReviewAnswers(verdict, keys)
      PROVE  Calling'
  <2>1. /\ flight # NoFlight /\ UNCHANGED <<phase, due>> /\ due \in Reviews
        /\ flight' = [flight EXCEPT !.verdict = verdict, !.keys = keys] /\ Returns
        /\ verdict = "REPAIR" <=> keys # {}
    BY <1>8 DEF ReviewAnswers, Returns, Running
  <2>2. DOMAIN flight = {"name", "ranked", "reason", "retry", "tried", "verdict", "keys"}
    BY <1>0, <2>1 DEF Calling
  <2>3. due \in Reviews => writers' = writers
    BY <2>1, ReturnsIs DEF Effects, Reviews
  <2>4. /\ DOMAIN flight' = DOMAIN flight /\ flight'.name = flight.name
        /\ flight'.ranked = flight.ranked
        /\ flight'.verdict = verdict /\ flight'.keys = keys
    BY <2>1, <2>2
  <2>5. flight'.verdict = "REPAIR" => flight'.keys \in Findings
    BY <1>8, <2>1, <2>4
  <2> QED BY <2>1, <2>3, <2>4, <2>5, GoesOn
<1>9. ASSUME NEW failing \in Findings \cup {{}}, SelfVerify(failing) PROVE Calling'
  <2>1. flight = NoFlight
    BY <1>9, Phases DEF SelfVerify, Typed, Placed
  <2>2. flight' = NoFlight
    BY <1>9, <2>1 DEF SelfVerify, BeginRepair
  <2> QED BY <1>n, <2>2
<1>10. CASE ReviewPasses
  BY <1>10, <1>n DEF ReviewPasses
<1>11. CASE FinalReviewPasses
  BY <1>11, <1>n DEF FinalReviewPasses
<1>12. CASE ReviewRepairs
  BY <1>12, <1>n DEF ReviewRepairs, BeginRepair
<1>13. CASE ReviewEscalates
  BY <1>13, <1>e DEF ReviewEscalates
<1>14. CASE CrashInEffects
  BY <1>14, <1>e DEF CrashInEffects
<1>15. CASE CrashInReview
  BY <1>15, <1>n DEF CrashInReview
<1>16. CASE CrashInHandler
  BY <1>16, <1>k DEF CrashInHandler, Crash
<1>17. ASSUME NEW failing \in Findings, CrashInSelfVerify(failing) PROVE Calling'
  BY <1>17, <1>k DEF CrashInSelfVerify, Crash
<1>18. CASE Observe
  BY <1>18, <1>k DEF Observe, state
<1>19. CASE TimePasses
  BY <1>19, <1>k DEF TimePasses, state
<1>20. CASE Rest
  BY <1>20, <1>k DEF Rest, vars, state
<1> QED BY <1>1, <1>2, <1>3, <1>4, <1>5, <1>6, <1>7, <1>8, <1>9, <1>10, <1>11, <1>12, <1>13,
           <1>14, <1>15, <1>16, <1>17, <1>18, <1>19, <1>20 DEF Next

-----------------------------------------------------------------------------
(* WHAT A FINDING LEADS TO.                                                 *)
Fresh(keys) == repairs # <<>> /\ FullyNew(LastRepair.keys, keys)
Moved(keys) == repairs # <<>> /\ ~Fresh(keys) /\ Progressed(LastRepair.keys, keys, LastRepair.signals)
Stepped(keys) == NextStep(IF Fresh(keys) THEN NewLadder ELSE ladder, Moved(keys),
                          IF repairs # <<>> THEN LastRepair.profile ELSE NoOne)
Stops(keys) == Stepped(keys).action = "EXHAUSTED" \/ AtLimit(Stepped(keys).ladder.step)

\* Consider, in the terms of the definitions above.
LEMMA ConsiderAs ==
  ASSUME NEW keys
  PROVE  Consider(keys) = Consequence(Fresh(keys), Stepped(keys).ladder, Stops(keys))
BY Zenon DEF Consider, Fresh, Moved, Stepped, Stops

LEMMA StopsIs ==
  ASSUME NEW keys, NEW found, found = Consider(keys)
  PROVE  found.ladder = Stepped(keys).ladder /\ (found.stops <=> Stops(keys))
<1>1. found = Consequence(Fresh(keys), Stepped(keys).ladder, Stops(keys))
  BY ConsiderAs
<1>2. found.ladder = Stepped(keys).ladder
  BY <1>1 DEF Consequence
<1>3. found.stops = Stops(keys)
  <2>1. PICK fresh, next, stops : /\ fresh = Fresh(keys) /\ next = Stepped(keys).ladder
                                  /\ stops = Stops(keys)
    OBVIOUS
  <2>2. found = Consequence(fresh, next, stops)
    BY <1>1, <2>1, Zenon
  <2>3. found.stops = stops
    BY <2>2 DEF Consequence
  <2> QED BY <2>1, <2>3, Zenon
<1>4. Stops(keys) \in BOOLEAN
  BY DEF Stops
<1> QED BY <1>2, <1>3, <1>4

LEMMA LastIs ==
  ASSUME Typed, repairs # <<>>
  PROVE  Len(repairs) \in DOMAIN repairs /\ LastRepair \in Row
<1>1. repairs \in Seq(Row)
  BY DEF Typed, Posed
<1>2. Len(repairs) \in DOMAIN repairs
  BY <1>1
<1> HIDE DEF Row
<1> QED BY <1>1, <1>2 DEF LastRepair

\* The ladder after a finding, as against the one before.
LEMMA SteppedIs ==
  ASSUME Typed, NEW keys \in Findings, NEW l, l = Stepped(keys).ladder
  PROVE  /\ LadderType(l)
         /\ ~Stops(keys) =>
              /\ l.stage # NoOne /\ ~AtLimit(l.step)
              /\ \/ repairs # <<>> /\ FullyNew(LastRepair.keys, keys)
                 \/ ladder.stage = NoOne
                 \/ /\ ladder.stage # NoOne /\ repairs # <<>>
                    /\ Progressed(LastRepair.keys, keys, LastRepair.signals)
                    /\ l.stage = ladder.stage /\ l.effort = ladder.effort
                    /\ l.attempts = ladder.attempts + 1
                 \/ /\ ladder.stage # NoOne
                    /\ \/ Place(l.stage) > Place(ladder.stage)
                       \/ l.stage = ladder.stage /\ l.effort > ladder.effort
<1> DEFINE from == IF Fresh(keys) THEN NewLadder ELSE ladder
           who == IF repairs # <<>> THEN LastRepair.profile ELSE NoOne
           n == Stepped(keys)
<1>1. LadderType(from)
  BY NewLadderIs DEF Typed, Posed
<1>2. who \in Someone
  BY LastIs DEF Row, Someone
<1>3. n = NextStep(from, Moved(keys), who)
  BY DEF Stepped
<1> HIDE DEF from, who, n
<1>4. /\ LadderType(n.ladder)
      /\ n.action # "EXHAUSTED" =>
           /\ n.ladder.stage # NoOne
           /\ \/ from.stage = NoOne
              \/ /\ from.stage # NoOne /\ Moved(keys)
                 /\ n.ladder.stage = from.stage /\ n.ladder.effort = from.effort
                 /\ n.ladder.attempts = from.attempts + 1
              \/ /\ from.stage # NoOne
                 /\ \/ Place(n.ladder.stage) > Place(from.stage)
                    \/ n.ladder.stage = from.stage /\ n.ladder.effort > from.effort
  BY <1>1, <1>2, <1>3, NextStepIs
<1>5. l = n.ladder
  BY DEF n
<1>6. ~Stops(keys) => n.action # "EXHAUSTED" /\ ~AtLimit(l.step)
  BY DEF Stops, n
<1>7. CASE Fresh(keys)
  BY <1>4, <1>5, <1>6, <1>7 DEF Fresh
<1>8. CASE ~Fresh(keys)
  <2>1. from = ladder
    BY <1>8 DEF from
  <2>2. Moved(keys) => repairs # <<>> /\ Progressed(LastRepair.keys, keys, LastRepair.signals)
    BY DEF Moved
  <2> QED BY <1>4, <1>5, <1>6, <2>1, <2>2
<1> QED BY <1>7, <1>8

\* The assessment changes nothing else about a repair.
LEMMA AssessedIs ==
  ASSUME Typed, NEW R, R = Assessed
  PROVE  /\ R \in Seq(Row) /\ Len(R) = Len(repairs) /\ (R = <<>> <=> repairs = <<>>)
         /\ \A i \in DOMAIN repairs : /\ R[i].stage = repairs[i].stage /\ R[i].effort = repairs[i].effort
                                      /\ R[i].keys = repairs[i].keys /\ R[i].id = repairs[i].id
         /\ \A i \in DOMAIN repairs : R[i].signals = repairs[i].signals
<1>1. repairs \in Seq(Row)
  BY DEF Typed, Posed
<1>2. CASE repairs = <<>>
  BY <1>1, <1>2 DEF Assessed
<1>3. CASE repairs # <<>>
  <2>1. PICK last : last = [LastRepair EXCEPT !.assessed = TRUE]
    OBVIOUS
  <2>2. LastRepair \in Row /\ Len(repairs) \in DOMAIN repairs
    BY <1>3, LastIs
  <2>3. /\ last \in Row /\ last.stage = LastRepair.stage /\ last.effort = LastRepair.effort
        /\ last.keys = LastRepair.keys /\ last.id = LastRepair.id
    BY <2>1, <2>2 DEF Row
  <2>4. last.signals = LastRepair.signals
    BY <2>1, <2>2 DEF Row
  <2>5. R = [repairs EXCEPT ![Len(repairs)] = last]
    BY <1>3, <2>1 DEF LastRepair, Assessed
  <2> HIDE DEF Row
  <2>6. R \in Seq(Row) /\ Len(R) = Len(repairs) /\ R # <<>>
    <3>1. Len(repairs) \in 1..Len(repairs)
      BY <1>1, <2>2
    <3>2. R \in Seq(Row) /\ Len(R) = Len(repairs)
      <4>1. last \in Row
        BY <2>3
      <4>2. PICK n \in Nat : n = Len(repairs)
        BY <1>1
      <4> DEFINE At(k) == IF k = n THEN last ELSE repairs[k]
      <4>3. R = [k \in 1..n |-> At(k)]
        <5>1. DOMAIN repairs = 1..n
          BY <1>1, <4>2
        <5>2. R = [k \in DOMAIN repairs |-> At(k)]
          BY <2>5, <4>2
        <5> QED BY <5>1, <5>2
      <4>4. \A k \in 1..n : At(k) \in Row
        BY <1>1, <4>1, <4>2
      <4> HIDE DEF At
      <4> QED BY <4>2, <4>3, <4>4
    <3>3. R # <<>>
      BY <3>1, <3>2
    <3> QED BY <3>2, <3>3
  <2>7. \A i \in DOMAIN repairs : R[i] = IF i = Len(repairs) THEN last ELSE repairs[i]
    BY <1>1, <2>5
  <2>8. LastRepair = repairs[Len(repairs)]
    BY DEF LastRepair
  <2> HIDE DEF LastRepair
  <2>9. \A i \in DOMAIN repairs : /\ R[i].stage = repairs[i].stage /\ R[i].effort = repairs[i].effort
                                  /\ R[i].keys = repairs[i].keys /\ R[i].id = repairs[i].id
    BY <2>3, <2>7, <2>8
  <2>10. \A i \in DOMAIN repairs : R[i].signals = repairs[i].signals
    <3> SUFFICES ASSUME NEW i \in DOMAIN repairs PROVE R[i].signals = repairs[i].signals
      OBVIOUS
    <3>1. CASE i = Len(repairs)
      BY <2>4, <2>7, <2>8, <3>1
    <3>2. CASE i # Len(repairs)
      BY <2>7, <3>2
    <3> QED BY <3>1, <3>2
  <2> QED BY <1>3, <2>6, <2>9, <2>10
<1> QED BY <1>2, <1>3

\* The repair that is recorded is the one that was due.
LEMMA RepairRow ==
  ASSUME Typed, NEW signals \in BOOLEAN, Repairs(signals)
  PROVE  \E r \in Row : /\ r.stage = origin.step.stage /\ r.effort = ladder.effort
                        /\ r.keys = origin.keys /\ r.id = origin.id
                        /\ repairs' = Append(repairs, r)
<1>1. Server \in Profiles
  BY ServerIs DEF Repairs
<1>2. origin.step.stage \in OnLadder /\ ladder.effort \in Nat /\ origin.keys \in SUBSET Keys /\ origin.id \in Nat
  BY DEF Typed, Posed, StepType, LadderType
<1>3. PICK r : r = [stage |-> origin.step.stage, effort |-> ladder.effort,
                    keys |-> origin.keys, profile |-> Server, signals |-> signals,
                    id |-> origin.id, assessed |-> FALSE]
  OBVIOUS
<1>4. r \in Row
  BY <1>1, <1>2, <1>3 DEF Row
<1>5. repairs' = Append(repairs, r)
  BY <1>3 DEF Repairs, RepairAnswers
<1> QED BY <1>3, <1>4, <1>5

\* Ladder, origin and repairs keep their types.
LEMMA PosedStep ==
  ASSUME Typed, Next
  PROVE  Posed'
<1>1. Posed
  BY DEF Typed
<1>2. ASSUME Spared, due' = "diagnose" => due = "diagnose", Ended => Ended' PROVE Posed'
  BY <1>1, <1>2 DEF Spared, Posed, Ended
<1>3. CASE Halts
  BY <1>2, <1>3 DEF Halts, Escalate, Ended
<1>4. CASE Moves
  BY <1>2, <1>4, Phases DEF Moves, Onward, Ended
<1>5. CASE Closes
  BY <1>2, <1>5 DEF Closes, Ended
<1>6. ASSUME NEW signals \in BOOLEAN, Repairs(signals) PROVE Posed'
  <2>1. PICK r \in Row : repairs' = Append(repairs, r)
    BY <1>6, RepairRow
  <2>2. repairs \in Seq(Row)
    BY <1>1 DEF Posed
  <2>3. repairs' \in Seq(Row)
    <3> HIDE DEF Row
    <3> QED BY <2>1, <2>2
  <2>4. ladder' = ladder /\ origin' = origin /\ due' = "none" /\ ~Ended
    BY <1>6, Phases DEF Repairs, RepairAnswers
  <2> QED BY <1>1, <2>3, <2>4 DEF Posed
<1>7. ASSUME NEW keys \in Findings, Begins(keys) PROVE Posed'
  <2>1. PICK found : /\ found = Consider(keys)
                     /\ repairs' = Assessed
                     /\ ladder' = found.ladder
                     /\ found.stops => phase' = "AWAITING_HUMAN" /\ due' = "none" /\ origin' = origin
                     /\ ~found.stops =>
                          /\ phase' = "REPAIR"
                          /\ origin' = [keys |-> keys, step |-> found.ladder.step, id |-> found.id]
                          /\ due' = IF found.ladder.step.diagnoses = NoOne THEN "repair" ELSE "diagnose"
    BY <1>7, BeginsAs
  <2>2. repairs' \in Seq(Row)
    BY <2>1, AssessedIs
  <2>3. LadderType(ladder')
    BY <2>1, StopsIs, SteppedIs
  <2>4. CASE found.stops
    BY <1>1, <2>1, <2>2, <2>3, <2>4 DEF Posed, Ended
  <2>5. CASE ~found.stops
    <3>1. found.id \in Nat
      <4>1. found.id \in {0, 1 + Cardinality({i \in DOMAIN file : file[i].kind = "ESCALATION"})}
        BY <2>1, ConsiderAs DEF Consequence
      <4>2. Cardinality({i \in DOMAIN file : file[i].kind = "ESCALATION"}) \in Nat
        <5>1. DOMAIN file = 1..Len(file) /\ Len(file) \in Nat
          BY DEF Typed, Recorded
        <5>2. IsFiniteSet(DOMAIN file)
          BY <5>1, FS_Interval
        <5> QED BY <5>2, FS_Subset, FS_CardinalityType
      <4> QED BY <4>1, <4>2
    <3>2. keys \in SUBSET Keys
      BY RunAssumption
    <3>3. origin' = [keys |-> keys, step |-> ladder'.step, id |-> found.id]
      BY <2>1, <2>5
    <3>4. StepType(ladder'.step)
      BY <2>3 DEF LadderType
    <3>5. due' = "diagnose" => ladder'.step.diagnoses # NoOne
      BY <2>1, <2>5
    <3> QED BY <2>2, <2>3, <3>1, <3>2, <3>3, <3>4, <3>5 DEF Posed
  <2> QED BY <2>4, <2>5
<1>8. CASE Tears
  BY <1>2, <1>8 DEF Tears, Ended
<1> QED BY <1>3, <1>4, <1>5, <1>6, <1>7, <1>8, Shapes

-----------------------------------------------------------------------------
(* LINES OF THE LEDGER.                                                     *)
LEMMA PendingIs ==
  ASSUME Recorded
  PROVE  /\ IsFiniteSet(Pending) /\ Cardinality(Pending) \in Nat
         /\ Pending \subseteq DOMAIN escalations /\ Pending \subseteq Nat
         /\ DOMAIN escalations = 1..Len(escalations) /\ Len(escalations) \in Nat
<1>1. DOMAIN escalations = 1..Len(escalations) /\ Len(escalations) \in Nat
  BY DEF Recorded
<1>2. IsFiniteSet(DOMAIN escalations)
  BY <1>1, FS_Interval
<1>3. Pending \in SUBSET DOMAIN escalations
  BY DEF Pending
<1>4. IsFiniteSet(Pending)
  BY <1>2, <1>3, FS_Subset
<1> QED BY <1>1, <1>3, <1>4, FS_CardinalityType

\* There is one line for every pending escalation.
LEMMA LinesAre ==
  ASSUME Recorded, NEW d
  PROVE  \E f : /\ DOMAIN f = 1..Cardinality(Pending)
                /\ \A n \in DOMAIN f : f[n] \in Pending
                /\ \A i \in Pending : \E n \in DOMAIN f : f[n] = i
                /\ \A m, n \in DOMAIN f : f[m] = f[n] => m = n
                /\ DispositionLines(d) = [n \in DOMAIN f |-> Line(escalations[f[n]].id, d)]
<1> DEFINE S == Pending
           Before(i) == {j \in S : j < i}
           pre == [i \in S |-> Before(i)]
           k == Cardinality(S)
           Nth(n) == CHOOSE i \in S : Cardinality(Before(i)) = n - 1
<1>1. IsFiniteSet(S) /\ k \in Nat /\ S \subseteq Nat
  BY PendingIs
<1>2. DispositionLines(d) = [n \in 1..k |-> Line(escalations[Nth(n)].id, d)]
  BY DEF DispositionLines
<1> HIDE DEF S
<1>3. pre \in [S -> SUBSET S] /\ \A i \in S : i \notin pre[i]
  BY <1>1
<1>4. \A i \in S : \A j \in pre[i] : pre[j] \subseteq pre[i]
  <2> SUFFICES ASSUME NEW i \in S, NEW j \in pre[i], NEW h \in pre[j] PROVE h \in pre[i]
    OBVIOUS
  <2>1. j \in S /\ h \in S
    OBVIOUS
  <2> QED BY <1>1, <2>1
<1>5. \A i, j \in S : i # j => i \in pre[j] \/ j \in pre[i]
  BY <1>1
<1>6. /\ \A n \in 1..k : \E i \in S : Cardinality(pre[i]) = n - 1
      /\ \A i \in S : Cardinality(pre[i]) \in 0..(k - 1)
      /\ \A i, j \in S : i # j => Cardinality(pre[i]) # Cardinality(pre[j])
  <2> HIDE DEF pre
  <2> QED BY <1>1, <1>3, <1>4, <1>5, Lineup, Places
<1>7. \A i \in S : pre[i] = Before(i)
  OBVIOUS
<1> HIDE DEF pre, k, Before
<1>8. \A n \in 1..k : Nth(n) \in S /\ Cardinality(Before(Nth(n))) = n - 1
  <2> SUFFICES ASSUME NEW n \in 1..k PROVE Nth(n) \in S /\ Cardinality(Before(Nth(n))) = n - 1
    OBVIOUS
  <2>1. \E i \in S : Cardinality(Before(i)) = n - 1
    BY <1>6, <1>7
  <2> QED BY <2>1
<1> HIDE DEF Nth
<1>9. PICK f : f = [n \in 1..k |-> Nth(n)]
  OBVIOUS
<1>10. DOMAIN f = 1..k /\ \A n \in 1..k : f[n] = Nth(n) /\ f[n] \in S
  BY <1>8, <1>9
<1>11. \A m, n \in 1..k : f[m] = f[n] => m = n
  <2> SUFFICES ASSUME NEW m \in 1..k, NEW n \in 1..k, f[m] = f[n] PROVE m = n
    OBVIOUS
  <2>1. Cardinality(Before(f[m])) = m - 1 /\ Cardinality(Before(f[n])) = n - 1
    BY <1>8, <1>10
  <2>2. m - 1 = n - 1
    BY <2>1
  <2> QED BY <1>1, <2>2
<1>12. \A i \in S : \E n \in 1..k : f[n] = i
  <2> SUFFICES ASSUME NEW i \in S PROVE \E n \in 1..k : f[n] = i
    OBVIOUS
  <2>1. PICK c : c = Cardinality(Before(i))
    OBVIOUS
  <2>2. c \in 0..(k - 1)
    BY <1>6, <1>7, <2>1
  <2>3. c + 1 \in 1..k /\ (c + 1) - 1 = c
    BY <1>1, <2>2
  <2>4. Cardinality(Before(f[c + 1])) = c /\ f[c + 1] \in S
    BY <1>8, <1>10, <2>3
  <2>5. f[c + 1] = i
    BY <1>6, <1>7, <2>1, <2>4
  <2> QED BY <2>3, <2>5
<1>13. DispositionLines(d) = [n \in 1..k |-> Line(escalations[f[n]].id, d)]
  BY <1>2, <1>10
<1>14. k = Cardinality(Pending) /\ S = Pending
  BY DEF S, k
<1>15. /\ DOMAIN f = 1..Cardinality(Pending)
       /\ \A n \in DOMAIN f : f[n] \in Pending
       /\ \A i \in Pending : \E n \in DOMAIN f : f[n] = i
       /\ \A m, n \in DOMAIN f : f[m] = f[n] => m = n
  BY <1>10, <1>11, <1>12, <1>14
<1>16. DispositionLines(d) = [n \in DOMAIN f |-> Line(escalations[f[n]].id, d)]
  BY <1>10, <1>13
<1> QED BY <1>15, <1>16

\* Lines that give dispositions to pending escalations only, and those that
\* give a last one to every such escalation.
Bears(L) == \A n \in DOMAIN L : L[n].kind \in Dispositions => \E i \in Pending : L[n].id = escalations[i].id
Discharges(L, d) ==
  \A i \in Pending :
    \E n \in DOMAIN L : /\ L[n] = Line(escalations[i].id, d)
                        /\ \A m \in DOMAIN L : m > n /\ L[m].id = escalations[i].id
                                                 => L[m].kind \notin Dispositions

\* The elements of two joined sequences.
LEMMA Joining ==
  ASSUME NEW S, NEW s \in Seq(S), NEW t \in Seq(S), NEW u, u = s \o t
  PROVE  /\ u \in Seq(S) /\ Len(u) = Len(s) + Len(t) /\ DOMAIN u = 1..(Len(s) + Len(t))
         /\ \A n \in DOMAIN s : n \in DOMAIN u /\ u[n] = s[n]
         /\ \A n \in DOMAIN t : Len(s) + n \in DOMAIN u /\ u[Len(s) + n] = t[n]
         /\ \A n \in DOMAIN u : n \in DOMAIN s \/ (n > Len(s) /\ n - Len(s) \in DOMAIN t /\ u[n] = t[n - Len(s)])
         /\ Len(s) \in Nat /\ DOMAIN s = 1..Len(s) /\ DOMAIN t = 1..Len(t) /\ Len(t) \in Nat
OBVIOUS

\* The lines of a disposition give one to every pending escalation.
LEMMA DispositionLinesAre ==
  ASSUME Recorded, Distinct(escalations), NEW d \in Dispositions, NEW L, L = DispositionLines(d)
  PROVE  L \in Seq(Mark) /\ Bears(L) /\ Discharges(L, d) /\ Marked(L) = {}
<1>1. PICK f : /\ DOMAIN f = 1..Cardinality(Pending)
               /\ \A n \in DOMAIN f : f[n] \in Pending
               /\ \A i \in Pending : \E n \in DOMAIN f : f[n] = i
               /\ \A m, n \in DOMAIN f : f[m] = f[n] => m = n
               /\ DispositionLines(d) = [n \in DOMAIN f |-> Line(escalations[f[n]].id, d)]
  BY LinesAre
<1>2. Cardinality(Pending) \in Nat /\ Pending \subseteq DOMAIN escalations
  BY PendingIs
<1>3. \A i \in Pending : escalations[i].id \in Nat
  <2>1. \A i \in DOMAIN escalations : escalations[i] \in Entry
    BY DEF Recorded
  <2>2. \A e \in Entry : e.id \in Nat
    BY DEF Entry
  <2> QED BY <1>2, <2>1, <2>2
<1>4. \A n \in DOMAIN f : Line(escalations[f[n]].id, d) \in Mark
  BY <1>1, <1>3 DEF Line, Mark, Dispositions
<1>5. L \in Seq(Mark)
  <2> DEFINE At(n) == Line(escalations[f[n]].id, d)
             k == Cardinality(Pending)
  <2>1. L = [n \in 1..k |-> At(n)] /\ \A n \in 1..k : At(n) \in Mark
    BY <1>1, <1>4
  <2>2. k \in Nat
    BY <1>2
  <2> HIDE DEF At, k
  <2> QED BY <2>1, <2>2
<1>6. DOMAIN L = DOMAIN f /\ \A n \in DOMAIN f : /\ L[n] = Line(escalations[f[n]].id, d)
                                                /\ L[n].id = escalations[f[n]].id /\ L[n].kind = d
  BY <1>1 DEF Line
<1>7. Bears(L)
  BY <1>1, <1>6 DEF Bears
<1>8. Discharges(L, d)
  <2> SUFFICES ASSUME NEW i \in Pending
               PROVE  \E n \in DOMAIN L : /\ L[n] = Line(escalations[i].id, d)
                                          /\ \A m \in DOMAIN L : m > n /\ L[m].id = escalations[i].id
                                                                   => L[m].kind \notin Dispositions
    BY DEF Discharges
  <2>1. PICK n \in DOMAIN f : f[n] = i
    BY <1>1
  <2>2. ASSUME NEW m \in DOMAIN f, L[m].id = escalations[i].id PROVE m = n
    <3>1. f[m] \in DOMAIN escalations /\ i \in DOMAIN escalations
      BY <1>1, <1>2
    <3>2. escalations[f[m]].id = escalations[i].id
      BY <1>6, <2>2
    <3>3. f[m] = i
      BY <3>1, <3>2 DEF Distinct
    <3> QED BY <1>1, <2>1, <3>3
  <2>3. n \in Nat
    BY <1>1
  <2>4. \A m \in DOMAIN L : ~(m > n /\ L[m].id = escalations[i].id)
    BY <1>6, <2>2, <2>3
  <2> QED BY <1>6, <2>1, <2>4
<1>9. Marked(L) = {}
  BY <1>6 DEF Marked, Dispositions
<1> QED BY <1>5, <1>7, <1>8, <1>9

\* Lines without dispositions change nothing of that, before or after.
Silent(L) == \A n \in DOMAIN L : L[n].kind \notin Dispositions

LEMMA SilentBears ==
  ASSUME NEW A \in Seq(Mark), Silent(A), NEW B \in Seq(Mark), Bears(B), NEW C, C = A \o B \/ C = B \o A
  PROVE  /\ C \in Seq(Mark) /\ Bears(C)
         /\ \A d : Discharges(B, d) => Discharges(C, d)
<1>1. CASE C = A \o B
  <2>1. /\ C \in Seq(Mark) /\ Len(A) \in Nat
        /\ \A n \in DOMAIN A : n \in DOMAIN C /\ C[n] = A[n]
        /\ \A n \in DOMAIN B : Len(A) + n \in DOMAIN C /\ C[Len(A) + n] = B[n]
        /\ \A n \in DOMAIN C : n \in DOMAIN A \/ (n > Len(A) /\ n - Len(A) \in DOMAIN B /\ C[n] = B[n - Len(A)])
        /\ DOMAIN C \subseteq Nat /\ DOMAIN B \subseteq Nat /\ \A n \in DOMAIN A : n <= Len(A)
    BY <1>1, Joining
  <2>2. Bears(C)
    <3> SUFFICES ASSUME NEW n \in DOMAIN C, C[n].kind \in Dispositions
                 PROVE  \E i \in Pending : C[n].id = escalations[i].id
      BY DEF Bears
    <3>1. n \notin DOMAIN A
      BY <2>1 DEF Silent
    <3>2. n - Len(A) \in DOMAIN B /\ C[n] = B[n - Len(A)]
      BY <2>1, <3>1
    <3> QED BY <3>2 DEF Bears
  <2>3. ASSUME NEW d, Discharges(B, d) PROVE Discharges(C, d)
    <3> SUFFICES ASSUME NEW i \in Pending
                 PROVE  \E n \in DOMAIN C : /\ C[n] = Line(escalations[i].id, d)
                                            /\ \A m \in DOMAIN C : m > n /\ C[m].id = escalations[i].id
                                                                     => C[m].kind \notin Dispositions
      BY DEF Discharges
    <3>1. PICK n \in DOMAIN B : /\ B[n] = Line(escalations[i].id, d)
                                /\ \A m \in DOMAIN B : m > n /\ B[m].id = escalations[i].id
                                                         => B[m].kind \notin Dispositions
      BY <2>3 DEF Discharges
    <3>2. Len(A) + n \in DOMAIN C /\ C[Len(A) + n] = Line(escalations[i].id, d)
      BY <2>1, <3>1
    <3>3. ASSUME NEW m \in DOMAIN C, m > Len(A) + n, C[m].id = escalations[i].id
          PROVE  C[m].kind \notin Dispositions
      <4>1. m \notin DOMAIN A
        BY <2>1, <3>3
      <4>2. m - Len(A) \in DOMAIN B /\ C[m] = B[m - Len(A)]
        BY <2>1, <4>1
      <4>3. m - Len(A) > n
        BY <2>1, <3>3
      <4> QED BY <3>1, <3>3, <4>2, <4>3
    <3> QED BY <3>2, <3>3
  <2> QED BY <2>1, <2>2, <2>3
<1>2. CASE C = B \o A
  <2>1. /\ C \in Seq(Mark) /\ Len(B) \in Nat
        /\ \A n \in DOMAIN B : n \in DOMAIN C /\ C[n] = B[n]
        /\ \A n \in DOMAIN C : n \in DOMAIN B \/ (n > Len(B) /\ n - Len(B) \in DOMAIN A /\ C[n] = A[n - Len(B)])
    BY <1>2, Joining
  <2>2. Bears(C)
    BY <2>1 DEF Bears, Silent
  <2>3. \A d : Discharges(B, d) => Discharges(C, d)
    BY <2>1 DEF Discharges, Silent
  <2> QED BY <2>1, <2>2, <2>3
<1> QED BY <1>1, <1>2

Disposing(known, X) ==
  /\ X \in Seq(Mark) /\ Bears(X) /\ Marked(X) = {}
  /\ known = escalations \/ \E d \in Dispositions : known = Disposed(d) /\ Discharges(X, d)

NewId == 1 + Cardinality(Marked(file))

\* What beginning a repair writes: a result, a disposition of whatever is
\* pending if the problem is another one or nothing is left to try, and a new
\* escalation above the first stage.
LEMMA FoundTells ==
  ASSUME Typed, Distinct(escalations), NEW keys \in Findings, NEW found, found = Consider(keys)
  PROVE  \E known, X :
           /\ Disposing(known, X)
           /\ \/ /\ found.escalations = known /\ found.lines = X /\ found.id = 0
                 /\ ~found.stops => found.ladder.step.stage = "CURRENT"
                 /\ found.stops => known # escalations \/ Pending = {}
              \/ /\ ~found.stops
                 /\ found.id = NewId
                 /\ found.escalations = Append(known, [id |-> NewId, disposition |-> "PENDING"])
                 /\ found.lines = X \o <<Line(NewId, "ESCALATION")>>
<1>1. PICK fresh, next, stops : /\ fresh = Fresh(keys) /\ next = Stepped(keys).ladder
                                /\ stops = Stops(keys)
  OBVIOUS
<1>2. fresh \in BOOLEAN /\ stops \in BOOLEAN
  BY <1>1 DEF Fresh, Stops
<1> DEFINE result == IF repairs # <<>> /\ ~LastRepair.assessed /\ LastRepair.id # 0
                     THEN <<Line(LastRepair.id, "RESULT")>> ELSE <<>>
           known == IF fresh THEN Disposed("RESOLVED") ELSE escalations
           told == result \o (IF fresh THEN DispositionLines("RESOLVED") ELSE <<>>)
           climbs == ~stops /\ next.step.stage # "CURRENT"
           entry == [id |-> NewId, disposition |-> "PENDING"]
           after == IF climbs THEN Append(known, entry)
                    ELSE IF stops /\ ~fresh THEN Disposed("HUMAN_GATE") ELSE known
           lines == told \o (IF climbs THEN <<Line(NewId, "ESCALATION")>>
                             ELSE IF stops /\ ~fresh THEN DispositionLines("HUMAN_GATE") ELSE <<>>)
<1>3. found = Consequence(fresh, next, stops)
  BY <1>1, ConsiderAs, Zenon
<1>4. /\ found.escalations = after /\ found.lines = lines /\ found.ladder = next
      /\ found.id = IF climbs THEN NewId ELSE 0
  <2>1. found = [stops |-> stops, ladder |-> next, id |-> IF climbs THEN NewId ELSE 0,
                 escalations |-> after, lines |-> lines]
    BY <1>3, Zenon DEF Consequence, NewId, Marked
  <2> HIDE DEF after, lines, climbs
  <2> QED BY <2>1
<1>5. found.stops <=> stops
  BY <1>1, StopsIs
<1>6. result \in Seq(Mark) /\ Silent(result) /\ Marked(result) = {}
  <2>1. CASE repairs # <<>> /\ ~LastRepair.assessed /\ LastRepair.id # 0
    <3>1. PICK line : line = Line(LastRepair.id, "RESULT")
      OBVIOUS
    <3>2. line \in Mark /\ line.kind = "RESULT"
      <4>1. LastRepair.id \in Nat
        BY <2>1, LastIs DEF Row
      <4> QED BY <3>1, <4>1 DEF Line, Mark
    <3>3. result = <<line>>
      BY <2>1, <3>1
    <3> HIDE DEF result
    <3> QED BY <3>2, <3>3 DEF Silent, Marked, Dispositions
  <2>2. CASE ~(repairs # <<>> /\ ~LastRepair.assessed /\ LastRepair.id # 0)
    <3>1. result = <<>>
      BY <2>2
    <3> HIDE DEF result
    <3> QED BY <3>1 DEF Silent, Marked
  <2> QED BY <2>1, <2>2
<1> HIDE DEF result
<1>7. Recorded
  BY DEF Typed
<1>8. /\ DispositionLines("RESOLVED") \in Seq(Mark) /\ Bears(DispositionLines("RESOLVED"))
      /\ Discharges(DispositionLines("RESOLVED"), "RESOLVED") /\ Marked(DispositionLines("RESOLVED")) = {}
  BY <1>7, DispositionLinesAre DEF Dispositions
<1>9. /\ DispositionLines("HUMAN_GATE") \in Seq(Mark) /\ Bears(DispositionLines("HUMAN_GATE"))
      /\ Discharges(DispositionLines("HUMAN_GATE"), "HUMAN_GATE") /\ Marked(DispositionLines("HUMAN_GATE")) = {}
  BY <1>7, DispositionLinesAre DEF Dispositions
<1>10. ASSUME NEW B \in Seq(Mark), Marked(B) = {} PROVE Marked(result \o B) = {}
  <2> DEFINE C == result \o B
  <2>1. /\ \A n \in DOMAIN result : C[n] = result[n]
        /\ \A n \in DOMAIN C : n \in DOMAIN result \/ (n - Len(result) \in DOMAIN B /\ C[n] = B[n - Len(result)])
    BY <1>6, <1>10, Joining
  <2> HIDE DEF C
  <2> SUFFICES Marked(C) = {}
    BY DEF C
  <2> QED BY <1>6, <1>10, <2>1 DEF Marked
<1>11. Silent(<<>>) /\ <<>> \in Seq(Mark) /\ Bears(<<>>) /\ Marked(<<>>) = {}
  BY DEF Silent, Bears, Marked
<1>12. Disposing(known, told)
  <2>1. CASE fresh
    <3>1. known = Disposed("RESOLVED") /\ told = result \o DispositionLines("RESOLVED")
      BY <2>1
    <3> HIDE DEF known, told
    <3>2. told \in Seq(Mark) /\ Bears(told) /\ Discharges(told, "RESOLVED")
      BY <1>6, <1>8, <3>1, SilentBears
    <3>3. Marked(told) = {}
      BY <1>8, <1>10, <3>1
    <3> QED BY <3>1, <3>2, <3>3 DEF Disposing, Dispositions
  <2>2. CASE ~fresh
    <3>1. known = escalations /\ told = result
      BY <1>6, <2>2
    <3> HIDE DEF known, told
    <3> QED BY <1>6, <3>1 DEF Disposing, Bears, Silent
  <2> QED BY <2>1, <2>2
<1>13. told \in Seq(Mark)
  BY <1>12 DEF Disposing
<1> HIDE DEF entry
<1>14. CASE climbs
  <2>1. /\ found.escalations = Append(known, entry) /\ found.id = NewId /\ ~found.stops
        /\ found.lines = told \o <<Line(NewId, "ESCALATION")>>
    BY <1>4, <1>5, <1>14
  <2> HIDE DEF known, told, climbs
  <2> QED BY <1>12, <2>1 DEF entry
<1>15. CASE ~climbs /\ stops /\ ~fresh
  <2>1. /\ found.escalations = Disposed("HUMAN_GATE") /\ found.id = 0 /\ found.stops
        /\ found.lines = result \o DispositionLines("HUMAN_GATE")
    <3>1. told = result
      BY <1>6, <1>15
    <3> HIDE DEF told
    <3> QED BY <1>4, <1>5, <1>15, <3>1
  <2>2. PICK X : X = result \o DispositionLines("HUMAN_GATE")
    OBVIOUS
  <2>3. X \in Seq(Mark) /\ Bears(X) /\ Discharges(X, "HUMAN_GATE")
    BY <1>6, <1>9, <2>2, SilentBears
  <2>4. Marked(X) = {}
    BY <1>9, <1>10, <2>2
  <2>5. Disposing(Disposed("HUMAN_GATE"), X)
    BY <2>3, <2>4 DEF Disposing, Dispositions
  <2>6. Disposed("HUMAN_GATE") # escalations \/ Pending = {}
    <3> SUFFICES ASSUME NEW i \in Pending PROVE Disposed("HUMAN_GATE")[i] # escalations[i]
      BY DEF Pending
    <3>1. i \in DOMAIN escalations /\ escalations[i].disposition = "PENDING" /\ escalations[i] \in Entry
      BY <1>7 DEF Pending, Recorded
    <3>2. Disposed("HUMAN_GATE")[i] = [escalations[i] EXCEPT !.disposition = "HUMAN_GATE"]
      BY <3>1 DEF Disposed
    <3>3. Disposed("HUMAN_GATE")[i].disposition = "HUMAN_GATE"
      BY <3>1, <3>2 DEF Entry
    <3> QED BY <3>1, <3>3
  <2> QED BY <2>1, <2>2, <2>5, <2>6
<1>16. CASE ~climbs /\ ~(stops /\ ~fresh)
  <2>1. found.escalations = known /\ found.id = 0 /\ found.lines = told
    <3>1. lines = told \o <<>>
      BY <1>16
    <3>2. told \o <<>> = told
      <4> HIDE DEF told
      <4> QED BY <1>13
    <3> HIDE DEF told, known
    <3> QED BY <1>4, <1>16, <3>1, <3>2
  <2>2. ~found.stops => found.ladder.step.stage = "CURRENT"
    BY <1>4, <1>5, <1>16
  <2>3. found.stops => known # escalations \/ Pending = {}
    <3> SUFFICES ASSUME found.stops, NEW i \in Pending PROVE known[i] # escalations[i]
      BY DEF Pending
    <3>1. i \in DOMAIN escalations /\ escalations[i].disposition = "PENDING" /\ escalations[i] \in Entry
      BY <1>7 DEF Pending, Recorded
    <3>2. known[i] = [escalations[i] EXCEPT !.disposition = "RESOLVED"]
      BY <1>5, <1>16, <3>1 DEF Disposed
    <3>3. known[i].disposition = "RESOLVED"
      BY <3>1, <3>2 DEF Entry
    <3> QED BY <3>1, <3>3
  <2> HIDE DEF known, told, climbs
  <2> QED BY <1>12, <2>1, <2>2, <2>3
<1> QED BY <1>14, <1>15, <1>16

\* A disposition is given to every pending escalation and changes no id.
LEMMA DisposedIs ==
  ASSUME Recorded, NEW d \in Dispositions, NEW E, E = Disposed(d)
  PROVE  /\ E \in Seq(Entry) /\ Len(E) = Len(escalations) /\ DOMAIN E = DOMAIN escalations
         /\ \A i \in DOMAIN E : E[i].id = escalations[i].id /\ E[i].disposition # "PENDING"
         /\ \A i \in DOMAIN E : IF i \in Pending THEN E[i].disposition = d ELSE E[i] = escalations[i]
<1> DEFINE At(i) == IF escalations[i].disposition = "PENDING"
                    THEN [escalations[i] EXCEPT !.disposition = d] ELSE escalations[i]
<1>1. PICK n \in Nat : n = Len(escalations) /\ DOMAIN escalations = 1..n
  BY DEF Recorded
<1>2. E = [i \in 1..n |-> At(i)]
  BY <1>1 DEF Disposed
<1>3. ASSUME NEW i \in 1..n
      PROVE  /\ At(i) \in Entry /\ At(i).id = escalations[i].id /\ At(i).disposition # "PENDING"
             /\ IF i \in Pending THEN At(i).disposition = d ELSE At(i) = escalations[i]
  <2>1. escalations[i] \in Entry
    BY <1>1 DEF Recorded
  <2> QED BY <1>1, <2>1 DEF Entry, Dispositions, Pending
<1> HIDE DEF At
<1>4. DOMAIN E = 1..n /\ \A i \in 1..n : E[i] = At(i)
  BY <1>2
<1>5. E \in Seq(Entry) /\ Len(E) = n
  BY <1>2, <1>3
<1> QED BY <1>1, <1>3, <1>4, <1>5

LEMMA LineIs ==
  ASSUME Recorded, NEW kind \in {"ESCALATION", "RESULT", "RESOLVED", "HUMAN_GATE"}, NEW id \in Nat
  PROVE  Line(id, kind) \in Mark /\ Line(id, kind).id = id /\ Line(id, kind).kind = kind
BY DEF Line, Mark

LEMMA MarkedIs ==
  ASSUME NEW F \in Seq(Mark)
  PROVE  IsFiniteSet(Marked(F)) /\ Cardinality(Marked(F)) \in Nat /\ Marked(F) \subseteq 1..Len(F)
<1>1. DOMAIN F = 1..Len(F) /\ Len(F) \in Nat
  OBVIOUS
<1>2. IsFiniteSet(1..Len(F))
  BY <1>1, FS_Interval
<1>3. Marked(F) \in SUBSET (1..Len(F))
  BY <1>1 DEF Marked
<1> QED BY <1>2, <1>3, FS_Subset, FS_CardinalityType

\* What the escalations are after such lines.
LEMMA DisposingIs ==
  ASSUME Recorded, NEW known, NEW X, Disposing(known, X)
  PROVE  /\ known \in Seq(Entry) /\ DOMAIN known = DOMAIN escalations /\ Len(known) = Len(escalations)
         /\ \A i \in DOMAIN known : known[i].id = escalations[i].id
         /\ \A i \in DOMAIN known : known[i].disposition # "PENDING" /\ i \in Pending
              => Discharges(X, known[i].disposition)
         /\ \A i \in DOMAIN known : i \notin Pending => known[i] = escalations[i]
<1>1. CASE known = escalations
  BY <1>1 DEF Recorded, Pending
<1>2. ASSUME NEW d \in Dispositions, known = Disposed(d), Discharges(X, d)
      PROVE  /\ known \in Seq(Entry) /\ DOMAIN known = DOMAIN escalations /\ Len(known) = Len(escalations)
             /\ \A i \in DOMAIN known : known[i].id = escalations[i].id
             /\ \A i \in DOMAIN known : known[i].disposition # "PENDING" /\ i \in Pending
                  => Discharges(X, known[i].disposition)
             /\ \A i \in DOMAIN known : i \notin Pending => known[i] = escalations[i]
  <2>1. /\ known \in Seq(Entry) /\ Len(known) = Len(escalations) /\ DOMAIN known = DOMAIN escalations
        /\ \A i \in DOMAIN known : known[i].id = escalations[i].id /\ known[i].disposition # "PENDING"
        /\ \A i \in DOMAIN known : IF i \in Pending THEN known[i].disposition = d ELSE known[i] = escalations[i]
    BY <1>2, DisposedIs
  <2> QED BY <1>2, <2>1
<1> QED BY <1>1, <1>2 DEF Disposing

\* What a step writes: dispositions, then perhaps an escalation that the state
\* learns of, or a crash keeps from it.
Wrote(E, F) ==
  \E known, X :
    /\ Disposing(known, X)
    /\ \/ E = known /\ F = file \o X
       \/ /\ E = Append(known, [id |-> NewId, disposition |-> "PENDING"])
          /\ F = file \o (X \o <<Line(NewId, "ESCALATION")>>)
Lost(E, F) ==
  \E X : /\ X \in Seq(Mark) /\ Bears(X) /\ Marked(X) = {}
         /\ E = escalations
         /\ F = file \o X \/ F = file \o (X \o <<Line(NewId, "ESCALATION")>>)

\* Every step writes lines of one of these two kinds.
LEMMA Writes ==
  ASSUME Typed, Distinct(escalations), Next
  PROVE  \/ Wrote(escalations', file') /\ spent'.crashes \in {spent.crashes, spent.crashes + 1}
         \/ Lost(escalations', file') /\ spent'.crashes = spent.crashes + 1
<1>0. Recorded
  BY DEF Typed
<1>1. ASSUME NEW d \in Dispositions, escalations' = Disposed(d), file' = file \o DispositionLines(d)
      PROVE  Wrote(escalations', file')
  <2>1. PICK X : X = DispositionLines(d)
    OBVIOUS
  <2>2. X \in Seq(Mark) /\ Bears(X) /\ Discharges(X, d) /\ Marked(X) = {}
    BY <1>0, <2>1, DispositionLinesAre
  <2>3. Disposing(escalations', X)
    BY <1>1, <2>2 DEF Disposing
  <2> QED BY <1>1, <2>1, <2>3 DEF Wrote
<1>2. Marked(<<>>) = {} /\ Bears(<<>>) /\ <<>> \in Seq(Mark) /\ file \o <<>> = file
  <2>1. file \in Seq(Mark)
    BY <1>0 DEF Recorded
  <2>2. file \o <<>> = file
    BY <2>1
  <2> QED BY <2>2 DEF Marked, Bears
<1>3. CASE Halts
  BY <1>1, <1>3 DEF Halts, Escalate, Dispositions
<1>4. ASSUME UNCHANGED <<escalations, file>> PROVE Wrote(escalations', file')
  <2>1. Disposing(escalations, <<>>)
    BY <1>2 DEF Disposing
  <2> QED BY <1>2, <1>4, <2>1 DEF Wrote
<1>5. CASE Moves
  BY <1>4, <1>5 DEF Moves, NoCrash
<1>6. CASE Closes
  BY <1>1, <1>6 DEF Closes, Dispositions, NoCrash
<1>7. ASSUME NEW signals \in BOOLEAN, Repairs(signals)
      PROVE  Wrote(escalations', file') /\ spent'.crashes = spent.crashes
  BY <1>4, <1>7 DEF Repairs, RepairAnswers, NoCrash
<1>8. ASSUME NEW keys \in Findings, Begins(keys)
      PROVE  Wrote(escalations', file') /\ spent'.crashes = spent.crashes
  <2>1. PICK found : /\ found = Consider(keys)
                     /\ escalations' = found.escalations /\ file' = file \o found.lines
    BY <1>8, BeginsAs
  <2>2. PICK known, X :
           /\ Disposing(known, X)
           /\ \/ found.escalations = known /\ found.lines = X
              \/ /\ found.escalations = Append(known, [id |-> NewId, disposition |-> "PENDING"])
                 /\ found.lines = X \o <<Line(NewId, "ESCALATION")>>
    BY <2>1, FoundTells
  <2>3. Wrote(escalations', file')
    BY <2>1, <2>2 DEF Wrote
  <2> QED BY <1>8, <2>3 DEF Begins, NoCrash
<1>9. CASE Tears
  <2>1. CASE file' = file
    <3>1. Lost(escalations', file')
      BY <1>2, <1>9, <2>1 DEF Tears, Lost
    <3> QED BY <1>9, <3>1 DEF Tears
  <2>2. ASSUME NEW d \in Dispositions, file' = file \o DispositionLines(d)
        PROVE  Lost(escalations', file')
    <3>1. PICK X : X = DispositionLines(d)
      OBVIOUS
    <3>2. X \in Seq(Mark) /\ Bears(X) /\ Marked(X) = {}
      BY <1>0, <3>1, DispositionLinesAre
    <3> QED BY <1>9, <2>2, <3>1, <3>2 DEF Tears, Lost
  <2>3. ASSUME NEW keys \in Findings, file' = file \o Consider(keys).lines
        PROVE  Lost(escalations', file')
    <3>1. PICK found : found = Consider(keys)
      OBVIOUS
    <3>2. PICK known, X :
             /\ Disposing(known, X)
             /\ found.lines = X \/ found.lines = X \o <<Line(NewId, "ESCALATION")>>
      BY <3>1, FoundTells
    <3>3. X \in Seq(Mark) /\ Bears(X) /\ Marked(X) = {}
      BY <3>2 DEF Disposing
    <3> QED BY <1>9, <2>3, <3>1, <3>2, <3>3 DEF Tears, Lost
  <2> QED BY <1>9, <2>1, <2>2, <2>3 DEF Tears, Dispositions
<1> QED BY <1>3, <1>5, <1>6, <1>7, <1>8, <1>9, Shapes DEF NoCrash, Halts, Moves, Closes

-----------------------------------------------------------------------------
(* WHAT THE LEDGER TELLS of any escalations, when lines are appended.      *)
LEMMA SaidFirst ==
  ASSUME NEW F \in Seq(Mark), NEW X \in Seq(Mark), NEW G, G = F \o X, NEW id, NEW d, Said(F, id, d),
         \A n \in DOMAIN X : X[n].id = id => X[n].kind \notin Dispositions
  PROVE  Said(G, id, d)
<1>1. PICK n \in DOMAIN F : /\ F[n] = Line(id, d)
                            /\ \A m \in DOMAIN F : m > n /\ F[m].id = id => F[m].kind \notin Dispositions
  BY DEF Said
<1>2. /\ \A m \in DOMAIN F : m \in DOMAIN G /\ G[m] = F[m]
      /\ \A m \in DOMAIN G : m \in DOMAIN F \/ (m - Len(F) \in DOMAIN X /\ G[m] = X[m - Len(F)])
  BY Joining
<1>3. ASSUME NEW m \in DOMAIN G, m > n, G[m].id = id PROVE G[m].kind \notin Dispositions
  <2>1. CASE m \in DOMAIN F
    BY <1>1, <1>2, <1>3, <2>1
  <2>2. CASE m \notin DOMAIN F
    BY <1>2, <1>3, <2>2
  <2> QED BY <2>1, <2>2
<1>4. n \in DOMAIN G /\ G[n] = Line(id, d)
  BY <1>1, <1>2
<1> QED BY <1>3, <1>4 DEF Said

\* A pending escalation is told by the lines that discharge it.
LEMMA SaidLast ==
  ASSUME NEW F \in Seq(Mark), NEW X \in Seq(Mark), NEW G, G = F \o X, NEW d, Discharges(X, d),
         NEW i \in Pending
  PROVE  Said(G, escalations[i].id, d)
<1>1. PICK n \in DOMAIN X : /\ X[n] = Line(escalations[i].id, d)
                            /\ \A m \in DOMAIN X : m > n /\ X[m].id = escalations[i].id
                                                     => X[m].kind \notin Dispositions
  BY DEF Discharges
<1>2. /\ Len(F) \in Nat /\ \A m \in DOMAIN F : m <= Len(F)
      /\ \A m \in DOMAIN X : Len(F) + m \in DOMAIN G /\ G[Len(F) + m] = X[m]
      /\ \A m \in DOMAIN G : m \in DOMAIN F \/ (m - Len(F) \in DOMAIN X /\ G[m] = X[m - Len(F)])
      /\ DOMAIN G \subseteq Nat /\ DOMAIN X \subseteq Nat
      /\ \A m \in DOMAIN X : m > 0
  BY Joining
<1>3. ASSUME NEW m \in DOMAIN G, m > Len(F) + n, G[m].id = escalations[i].id
      PROVE  G[m].kind \notin Dispositions
  <2>1. m \notin DOMAIN F
    BY <1>1, <1>2, <1>3
  <2>2. m - Len(F) \in DOMAIN X /\ G[m] = X[m - Len(F)]
    BY <1>2, <2>1
  <2>3. m - Len(F) > n
    BY <1>2, <1>3
  <2> QED BY <1>1, <1>3, <2>2, <2>3
<1>4. Len(F) + n \in DOMAIN G /\ G[Len(F) + n] = Line(escalations[i].id, d)
  BY <1>1, <1>2
<1> QED BY <1>3, <1>4 DEF Said

\* Lines without an escalation leave the escalations of the file as they were.
LEMMA Unmarked ==
  ASSUME NEW F \in Seq(Mark), NEW X \in Seq(Mark), Marked(X) = {}, NEW G, G = F \o X
  PROVE  G \in Seq(Mark) /\ Marked(G) = Marked(F) /\ \A n \in Marked(F) : G[n] = F[n]
<1>1. /\ G \in Seq(Mark)
      /\ \A m \in DOMAIN F : m \in DOMAIN G /\ G[m] = F[m]
      /\ \A m \in DOMAIN G : m \in DOMAIN F \/ (m - Len(F) \in DOMAIN X /\ G[m] = X[m - Len(F)])
  BY Joining
<1>2. Marked(G) = Marked(F)
  BY <1>1 DEF Marked
<1>3. \A n \in Marked(F) : G[n] = F[n]
  BY <1>1 DEF Marked
<1> QED BY <1>1, <1>2, <1>3

\* Lines of dispositions keep what the ledger tells.
LEMMA Settled ==
  ASSUME Recorded, Tells(escalations, file), NEW known, NEW X, Disposing(known, X), NEW F, F = file \o X
  PROVE  /\ known \in Seq(Entry) /\ F \in Seq(Mark) /\ Tells(known, F) /\ Ids(known) = Ids(escalations)
         /\ Marked(F) = Marked(file) /\ \A ids : Orphans(F, ids) = Orphans(file, ids)
<1>1. file \in Seq(Mark) /\ X \in Seq(Mark) /\ Bears(X) /\ Marked(X) = {}
  BY DEF Recorded, Disposing
<1>2. F \in Seq(Mark) /\ Marked(F) = Marked(file) /\ \A ids : Orphans(F, ids) = Orphans(file, ids)
  <2>1. PICK f \in Seq(Mark) : f = file
    BY <1>1
  <2>2. F = f \o X
    BY <2>1
  <2>3. F \in Seq(Mark)
    BY <1>1, <2>2, Unmarked
  <2>4. Marked(F) = Marked(f)
    BY <1>1, <2>2, Unmarked
  <2>5. \A n \in DOMAIN f : F[n] = f[n]
    <3> HIDE DEF Mark
    <3> QED BY <1>1, <2>2, Joining
  <2>6. ASSUME NEW ids PROVE Orphans(F, ids) = Orphans(f, ids)
    BY <2>4, <2>5 DEF Orphans, Marked
  <2> QED BY <2>1, <2>3, <2>4, <2>6
<1>3. /\ known \in Seq(Entry) /\ DOMAIN known = DOMAIN escalations
      /\ \A i \in DOMAIN known : known[i].id = escalations[i].id
      /\ \A i \in DOMAIN known : known[i].disposition # "PENDING" /\ i \in Pending
              => Discharges(X, known[i].disposition)
      /\ \A i \in DOMAIN known : i \notin Pending => known[i] = escalations[i]
  BY DisposingIs
<1>4. Ids(known) = Ids(escalations)
  BY <1>3 DEF Ids
<1>5. Distinct(known) /\ \A i \in DOMAIN known : known[i].id <= Cardinality(Marked(F))
  BY <1>2, <1>3 DEF Tells, Distinct
<1>6. ASSUME NEW i \in DOMAIN known, known[i].disposition # "PENDING"
      PROVE  Said(F, known[i].id, known[i].disposition)
  <2>1. CASE i \in Pending
    <3>1. Discharges(X, known[i].disposition)
      BY <1>3, <1>6, <2>1
    <3>2. Said(F, escalations[i].id, known[i].disposition)
      BY <1>1, <2>1, <3>1, SaidLast
    <3> QED BY <1>3, <3>2
  <2>2. CASE i \notin Pending
    <3>1. known[i] = escalations[i] /\ i \in DOMAIN escalations
      BY <1>3, <2>2
    <3>2. Said(file, escalations[i].id, escalations[i].disposition)
      BY <1>6, <3>1 DEF Tells
    <3>3. \A n \in DOMAIN X : X[n].id = escalations[i].id => X[n].kind \notin Dispositions
      <4> SUFFICES ASSUME NEW n \in DOMAIN X, X[n].kind \in Dispositions, X[n].id = escalations[i].id
                   PROVE  FALSE
        OBVIOUS
      <4>1. PICK j \in Pending : X[n].id = escalations[j].id
        BY <1>1 DEF Bears
      <4>2. j \in DOMAIN escalations
        BY DEF Pending
      <4>3. j = i
        BY <3>1, <4>1, <4>2 DEF Tells, Distinct
      <4> QED BY <2>2, <4>3
    <3>4. Said(F, escalations[i].id, escalations[i].disposition)
      BY <1>1, <3>2, <3>3, SaidFirst
    <3> QED BY <3>1, <3>4
  <2> QED BY <2>1, <2>2
<1> QED BY <1>2, <1>3, <1>4, <1>5, <1>6 DEF Tells

\* An escalation as the state and as the file keep it.
Raised(E, id) == Append(E, [id |-> id, disposition |-> "PENDING"])
Marks(F, id) == F \o <<Line(id, "ESCALATION")>>

\* A line about an escalation keeps it too, and makes an orphan of it at most.
LEMMA Marking ==
  ASSUME NEW E \in Seq(Entry), NEW F \in Seq(Mark), Tells(E, F), NEW id \in Nat,
         NEW G, G = Marks(F, id)
  PROVE  /\ G \in Seq(Mark) /\ Tells(E, G)
         /\ Cardinality(Marked(G)) = Cardinality(Marked(F)) + 1
         /\ \A ids : /\ id \in ids => Orphans(G, ids) \subseteq Orphans(F, ids)
                     /\ Orphans(G, ids) \subseteq Orphans(F, ids) \cup {Len(F) + 1}
<1>1. PICK l : l = Line(id, "ESCALATION")
  OBVIOUS
<1>2. l \in Mark /\ l.kind = "ESCALATION" /\ l.id = id
  BY <1>1 DEF Line, Mark
<1>3. PICK X : X = <<l>>
  OBVIOUS
<1>4. X \in Seq(Mark) /\ DOMAIN X = {1} /\ X[1] = l /\ Len(X) = 1
  <2> HIDE DEF Mark
  <2> QED BY <1>2, <1>3
<1>5. G = F \o X
  BY <1>1, <1>3 DEF Marks
<1>6. /\ G \in Seq(Mark) /\ DOMAIN G = 1..(Len(F) + 1) /\ DOMAIN F = 1..Len(F) /\ Len(F) \in Nat
      /\ \A m \in DOMAIN F : m \in DOMAIN G /\ G[m] = F[m]
      /\ G[Len(F) + 1] = l
  <2>1. /\ G \in Seq(Mark) /\ DOMAIN G = 1..(Len(F) + Len(X)) /\ DOMAIN F = 1..Len(F) /\ Len(F) \in Nat
        /\ \A m \in DOMAIN F : m \in DOMAIN G /\ G[m] = F[m]
        /\ \A m \in DOMAIN X : G[Len(F) + m] = X[m]
    <3>1. PICK H : H = F \o X
      OBVIOUS
    <3> HIDE DEF Mark
    <3>2. /\ H \in Seq(Mark) /\ DOMAIN H = 1..(Len(F) + Len(X)) /\ DOMAIN F = 1..Len(F) /\ Len(F) \in Nat
          /\ \A m \in DOMAIN F : m \in DOMAIN H /\ H[m] = F[m]
          /\ \A m \in DOMAIN X : H[Len(F) + m] = X[m]
      <4>1. X \in Seq(Mark)
        BY <1>4
      <4> QED BY <3>1, <4>1, Joining
    <3> QED BY <1>5, <3>1, <3>2
  <2> QED BY <1>4, <2>1
<1>7. Marked(G) = Marked(F) \cup {Len(F) + 1} /\ Len(F) + 1 \notin Marked(F)
  <2>1. \A m \in DOMAIN G : m \in DOMAIN F \/ m = Len(F) + 1
    BY <1>6
  <2> QED BY <1>2, <1>6, <2>1 DEF Marked
<1>8. IsFiniteSet(Marked(F)) /\ Cardinality(Marked(F)) \in Nat
  BY MarkedIs
<1>9. Cardinality(Marked(G)) = Cardinality(Marked(F)) + 1
  BY <1>7, <1>8, FS_AddElement
<1>10. \A i \in DOMAIN E : E[i].id \in Nat
  <2>1. \A i \in DOMAIN E : E[i] \in Entry
    OBVIOUS
  <2> QED BY <2>1 DEF Entry
<1>11. Tells(E, G)
  <2>1. \A i \in DOMAIN E : E[i].id <= Cardinality(Marked(G))
    BY <1>8, <1>9, <1>10 DEF Tells
  <2>2. \A n \in DOMAIN X : X[n].kind \notin Dispositions
    BY <1>2, <1>4 DEF Dispositions
  <2>3. \A i \in DOMAIN E : E[i].disposition # "PENDING" => Said(G, E[i].id, E[i].disposition)
    BY <1>4, <1>5, <2>2, SaidFirst DEF Tells
  <2> QED BY <2>1, <2>3 DEF Tells
<1>12. ASSUME NEW ids
       PROVE  /\ id \in ids => Orphans(G, ids) \subseteq Orphans(F, ids)
              /\ Orphans(G, ids) \subseteq Orphans(F, ids) \cup {Len(F) + 1}
  <2>1. \A m \in DOMAIN G : m \in DOMAIN F \/ m = Len(F) + 1
    BY <1>6
  <2> QED BY <1>2, <1>6, <2>1 DEF Orphans
<1> QED BY <1>6, <1>9, <1>11, <1>12

LEMMA Appending ==
  ASSUME NEW S, NEW s \in Seq(S), NEW e \in S, NEW t, t = Append(s, e)
  PROVE  /\ t \in Seq(S) /\ DOMAIN t = 1..(Len(s) + 1) /\ DOMAIN s = 1..Len(s) /\ Len(s) \in Nat
         /\ \A i \in DOMAIN s : t[i] = s[i]
         /\ t[Len(s) + 1] = e
OBVIOUS

\* No orphan, if the state has learnt of the escalation.
LEMMA Raising ==
  ASSUME NEW E \in Seq(Entry), NEW F \in Seq(Mark), Tells(E, F), NEW id, id = 1 + Cardinality(Marked(F)),
         NEW D, D = Raised(E, id), NEW G, G = Marks(F, id)
  PROVE  /\ D \in Seq(Entry) /\ G \in Seq(Mark) /\ Tells(D, G)
         /\ Ids(D) = Ids(E) \cup {id} /\ Orphans(G, Ids(D)) \subseteq Orphans(F, Ids(E))
<1>1. id \in Nat /\ Cardinality(Marked(F)) \in Nat
  BY MarkedIs
<1>2. /\ G \in Seq(Mark) /\ Tells(E, G) /\ Cardinality(Marked(G)) = id
      /\ \A ids : id \in ids => Orphans(G, ids) \subseteq Orphans(F, ids)
  <2>1. /\ G \in Seq(Mark) /\ Tells(E, G) /\ Cardinality(Marked(G)) = Cardinality(Marked(F)) + 1
        /\ \A ids : id \in ids => Orphans(G, ids) \subseteq Orphans(F, ids)
    BY <1>1, Marking
  <2> QED BY <1>1, <2>1
<1>3. PICK e : e = [id |-> id, disposition |-> "PENDING"]
  OBVIOUS
<1>4. e \in Entry /\ e.id = id /\ e.disposition = "PENDING"
  BY <1>1, <1>3 DEF Entry
<1>5. D = Append(E, e)
  BY <1>3 DEF Raised
<1>6. /\ D \in Seq(Entry) /\ DOMAIN D = 1..(Len(E) + 1) /\ DOMAIN E = 1..Len(E) /\ Len(E) \in Nat
      /\ \A i \in DOMAIN E : D[i] = E[i]
      /\ D[Len(E) + 1] = e
  <2>1. PICK T : T = Append(E, e)
    OBVIOUS
  <2> HIDE DEF Entry
  <2>2. E \in Seq(Entry) /\ e \in Entry
    BY <1>4
  <2>3. /\ T \in Seq(Entry) /\ DOMAIN T = 1..(Len(E) + 1) /\ DOMAIN E = 1..Len(E) /\ Len(E) \in Nat
        /\ \A i \in DOMAIN E : T[i] = E[i]
        /\ T[Len(E) + 1] = e
    BY <2>1, <2>2, Appending
  <2> QED BY <1>5, <2>1, <2>3
<1>7. \A i \in DOMAIN D : i \in DOMAIN E \/ i = Len(E) + 1
  BY <1>6
<1>8. \A i \in DOMAIN E : E[i].id \in Nat /\ E[i].id < id
  <2>1. \A i \in DOMAIN E : E[i] \in Entry
    OBVIOUS
  <2>2. \A i \in DOMAIN E : E[i].id \in Nat /\ E[i].id <= Cardinality(Marked(F))
    BY <2>1 DEF Entry, Tells
  <2> QED BY <1>1, <2>2
<1>9. Distinct(D)
  <2> SUFFICES ASSUME NEW i \in DOMAIN D, NEW j \in DOMAIN D, D[i].id = D[j].id PROVE i = j
    BY DEF Distinct
  <2>1. CASE i \in DOMAIN E /\ j \in DOMAIN E
    BY <1>6, <2>1 DEF Tells, Distinct
  <2>2. CASE i \notin DOMAIN E \/ j \notin DOMAIN E
    BY <1>1, <1>4, <1>6, <1>7, <1>8, <2>2
  <2> QED BY <2>1, <2>2
<1>10. \A i \in DOMAIN D : D[i].id <= Cardinality(Marked(G))
  BY <1>1, <1>2, <1>4, <1>6, <1>7, <1>8
<1>11. \A i \in DOMAIN D : D[i].disposition # "PENDING" => Said(G, D[i].id, D[i].disposition)
  BY <1>2, <1>4, <1>6, <1>7 DEF Tells
<1>12. Ids(D) = Ids(E) \cup {id}
  BY <1>4, <1>6, <1>7 DEF Ids
<1>13. Orphans(G, Ids(D)) \subseteq Orphans(F, Ids(D)) /\ Orphans(F, Ids(D)) \subseteq Orphans(F, Ids(E))
  BY <1>2, <1>12 DEF Orphans
<1> QED BY <1>2, <1>6, <1>9, <1>10, <1>11, <1>12, <1>13 DEF Tells

LEMMA Chained ==
  ASSUME NEW S, NEW s \in Seq(S), NEW t \in Seq(S), NEW x \in S
  PROVE  s \o (t \o <<x>>) = (s \o t) \o <<x>>
<1>1. s \o t \in Seq(S) /\ t \o <<x>> \in Seq(S) /\ <<x>> \in Seq(S)
  OBVIOUS
<1>2. s \o (t \o <<x>>) \in Seq(S) /\ (s \o t) \o <<x>> \in Seq(S)
  BY <1>1
<1> QED BY <1>1, <1>2

\* What a step writes keeps what the ledger tells ...
LEMMA WroteIs ==
  ASSUME Recorded, Tells(escalations, file), NEW E, NEW F, Wrote(E, F)
  PROVE  /\ E \in Seq(Entry) /\ F \in Seq(Mark) /\ Tells(E, F) /\ Ids(escalations) \subseteq Ids(E)
         /\ Orphans(F, Ids(E)) \subseteq Orphans(file, Ids(escalations))
<1>1. PICK known, X :
         /\ Disposing(known, X)
         /\ \/ E = known /\ F = file \o X
            \/ /\ E = Append(known, [id |-> NewId, disposition |-> "PENDING"])
               /\ F = file \o (X \o <<Line(NewId, "ESCALATION")>>)
  BY DEF Wrote
<1>2. PICK G : G = file \o X
  OBVIOUS
<1>3. /\ known \in Seq(Entry) /\ G \in Seq(Mark) /\ Tells(known, G) /\ Ids(known) = Ids(escalations)
      /\ Marked(G) = Marked(file)
  BY <1>1, <1>2, Settled
<1>4. Orphans(G, Ids(known)) = Orphans(file, Ids(escalations))
  <2>1. \A ids : Orphans(G, ids) = Orphans(file, ids)
    BY <1>1, <1>2, Settled
  <2> QED BY <1>3, <2>1
<1>5. CASE E = known /\ F = G
  BY <1>3, <1>4, <1>5
<1>6. CASE /\ E = Append(known, [id |-> NewId, disposition |-> "PENDING"])
           /\ F = file \o (X \o <<Line(NewId, "ESCALATION")>>)
  <2>1. NewId \in Nat /\ NewId = 1 + Cardinality(Marked(G)) /\ file \in Seq(Mark) /\ X \in Seq(Mark)
    <3>1. file \in Seq(Mark) /\ X \in Seq(Mark)
      BY <1>1 DEF Recorded, Disposing
    <3> QED BY <1>3, <3>1, MarkedIs DEF NewId
  <2>2. Line(NewId, "ESCALATION") \in Mark
    BY <2>1, LineIs
  <2>3. F = G \o <<Line(NewId, "ESCALATION")>>
    <3>1. PICK l \in Mark : l = Line(NewId, "ESCALATION")
      BY <2>2
    <3> HIDE DEF Mark
    <3>2. file \o (X \o <<l>>) = (file \o X) \o <<l>>
      BY <2>1, <3>1, Chained
    <3> QED BY <1>2, <1>6, <3>1, <3>2
  <2>4. PICK id : id = NewId
    OBVIOUS
  <2>5. /\ E \in Seq(Entry) /\ F \in Seq(Mark) /\ Tells(E, F) /\ Ids(E) = Ids(known) \cup {id}
        /\ Orphans(F, Ids(E)) \subseteq Orphans(G, Ids(known))
    <3>1. E = Raised(known, id) /\ F = Marks(G, id) /\ id = 1 + Cardinality(Marked(G))
      BY <1>6, <2>1, <2>3, <2>4 DEF Raised, Marks
    <3>2. known \in Seq(Entry) /\ G \in Seq(Mark) /\ Tells(known, G)
      BY <1>3
    <3> HIDE DEF Mark, Entry
    <3> QED BY <3>1, <3>2, Raising
  <2> QED BY <1>3, <1>4, <2>5
<1> QED BY <1>1, <1>2, <1>5, <1>6

\* ... and what a crash leaves adds one orphan at most.
LEMMA LostIs ==
  ASSUME Recorded, Tells(escalations, file), NEW E, NEW F, Lost(E, F)
  PROVE  /\ E \in Seq(Entry) /\ F \in Seq(Mark) /\ Tells(E, F) /\ Ids(escalations) \subseteq Ids(E)
         /\ \E x : Orphans(F, Ids(E)) \subseteq Orphans(file, Ids(escalations)) \cup {x}
<1>1. PICK X : /\ X \in Seq(Mark) /\ Bears(X) /\ Marked(X) = {}
               /\ E = escalations
               /\ F = file \o X \/ F = file \o (X \o <<Line(NewId, "ESCALATION")>>)
  BY DEF Lost
<1>2. Disposing(escalations, X)
  BY <1>1 DEF Disposing
<1>3. PICK G : G = file \o X
  OBVIOUS
<1>4. E \in Seq(Entry) /\ G \in Seq(Mark) /\ Tells(E, G) /\ Marked(G) = Marked(file)
  BY <1>1, <1>2, <1>3, Settled
<1>5. Orphans(G, Ids(E)) = Orphans(file, Ids(escalations))
  <2>1. \A ids : Orphans(G, ids) = Orphans(file, ids)
    BY <1>2, <1>3, Settled
  <2> QED BY <1>1, <2>1
<1>6. CASE F = G
  BY <1>1, <1>4, <1>5, <1>6
<1>7. CASE F = file \o (X \o <<Line(NewId, "ESCALATION")>>)
  <2>1. NewId \in Nat /\ file \in Seq(Mark)
    <3>1. file \in Seq(Mark)
      BY DEF Recorded
    <3> QED BY <3>1, MarkedIs DEF NewId
  <2>2. Line(NewId, "ESCALATION") \in Mark
    BY <2>1, LineIs
  <2>3. PICK id \in Nat : id = NewId
    BY <2>1
  <2>4. F = Marks(G, id)
    <3>1. PICK l \in Mark : l = Line(NewId, "ESCALATION")
      BY <2>2
    <3> HIDE DEF Mark
    <3>2. file \o (X \o <<l>>) = (file \o X) \o <<l>>
      BY <1>1, <2>1, <3>1, Chained
    <3> QED BY <1>3, <1>7, <2>3, <3>1, <3>2 DEF Marks
  <2>5. /\ F \in Seq(Mark) /\ Tells(E, F)
        /\ \A ids : Orphans(F, ids) \subseteq Orphans(G, ids) \cup {Len(G) + 1}
    <3>1. E \in Seq(Entry) /\ G \in Seq(Mark) /\ Tells(E, G)
      BY <1>4
    <3> HIDE DEF Mark, Entry
    <3> QED BY <2>4, <3>1, Marking
  <2>6. Orphans(F, Ids(E)) \subseteq Orphans(G, Ids(E)) \cup {Len(G) + 1}
    BY <2>5
  <2> QED BY <1>1, <1>4, <1>5, <2>5, <2>6
<1> QED BY <1>1, <1>3, <1>6, <1>7

\* One more makes at most one more.
LEMMA OneMore ==
  ASSUME NEW A, IsFiniteSet(A), NEW x, NEW B, B \subseteq A \cup {x}
  PROVE  Cardinality(B) \in Nat /\ Cardinality(A) \in Nat /\ Cardinality(B) <= Cardinality(A) + 1
<1>1. IsFiniteSet(A \cup {x}) /\ Cardinality(A \cup {x}) <= Cardinality(A) + 1 /\ Cardinality(A) \in Nat
  <2>1. Cardinality(A) \in Nat
    BY FS_CardinalityType
  <2>2. /\ IsFiniteSet(A \cup {x})
        /\ Cardinality(A \cup {x}) = IF x \in A THEN Cardinality(A) ELSE Cardinality(A) + 1
    BY FS_AddElement
  <2> QED BY <2>1, <2>2
<1>2. Cardinality(A \cup {x}) \in Nat
  BY <1>1, FS_CardinalityType
<1>3. IsFiniteSet(B) /\ Cardinality(B) <= Cardinality(A \cup {x})
  BY <1>1, FS_Subset
<1>4. Cardinality(B) \in Nat
  BY <1>3, FS_CardinalityType
<1> QED BY <1>1, <1>2, <1>3, <1>4

LEMMA OrphansAre ==
  ASSUME NEW F \in Seq(Mark), NEW ids
  PROVE  IsFiniteSet(Orphans(F, ids)) /\ Cardinality(Orphans(F, ids)) \in Nat
<1>1. IsFiniteSet(Marked(F))
  BY MarkedIs
<1>2. Orphans(F, ids) \subseteq Marked(F)
  BY DEF Orphans, Marked
<1> QED BY <1>1, <1>2, FS_Subset, FS_CardinalityType

\* The ledger goes on telling what the state knows, and crashes pay for orphans.
LEMMA TellingStep ==
  ASSUME Typed, Tells(escalations, file),
         Cardinality(Orphans(file, Ids(escalations))) <= spent.crashes, Next
  PROVE  /\ Recorded' /\ Tells(escalations', file') /\ Ids(escalations) \subseteq Ids(escalations')
         /\ Cardinality(Orphans(file', Ids(escalations'))) <= spent'.crashes
<1>0. Recorded /\ Distinct(escalations) /\ spent.crashes \in Nat
  BY DEF Typed, World, Tells
<1>1. PICK A : A = Orphans(file, Ids(escalations))
  OBVIOUS
<1>2. IsFiniteSet(A) /\ Cardinality(A) \in Nat
  <2>1. file \in Seq(Mark)
    BY <1>0 DEF Recorded
  <2> QED BY <1>1, <2>1, OrphansAre
<1>3. CASE Wrote(escalations', file') /\ spent'.crashes \in {spent.crashes, spent.crashes + 1}
  <2>1. /\ escalations' \in Seq(Entry) /\ file' \in Seq(Mark) /\ Tells(escalations', file')
        /\ Ids(escalations) \subseteq Ids(escalations')
        /\ Orphans(file', Ids(escalations')) \subseteq A
    BY <1>0, <1>1, <1>3, WroteIs
  <2>2. /\ Cardinality(Orphans(file', Ids(escalations'))) \in Nat
        /\ Cardinality(Orphans(file', Ids(escalations'))) <= Cardinality(A)
    BY <1>2, <2>1, FS_Subset, FS_CardinalityType
  <2>3. Cardinality(Orphans(file', Ids(escalations'))) <= spent'.crashes
    BY <1>0, <1>1, <1>2, <1>3, <2>2
  <2> QED BY <2>1, <2>3 DEF Recorded
<1>4. CASE Lost(escalations', file') /\ spent'.crashes = spent.crashes + 1
  <2>1. /\ escalations' \in Seq(Entry) /\ file' \in Seq(Mark) /\ Tells(escalations', file')
        /\ Ids(escalations) \subseteq Ids(escalations')
        /\ \E x : Orphans(file', Ids(escalations')) \subseteq A \cup {x}
    BY <1>0, <1>1, <1>4, LostIs
  <2>2. /\ Cardinality(Orphans(file', Ids(escalations'))) \in Nat
        /\ Cardinality(Orphans(file', Ids(escalations'))) <= Cardinality(A) + 1
    BY <1>2, <2>1, OneMore
  <2>3. Cardinality(Orphans(file', Ids(escalations'))) <= spent'.crashes
    BY <1>0, <1>1, <1>2, <1>4, <2>2
  <2> QED BY <2>1, <2>3 DEF Recorded
<1> QED BY <1>0, <1>3, <1>4, Writes

LEMMA RetryStep ==
  ASSUME Typed, Next
  PROVE  retryOf' \in BOOLEAN
<1>1. retryOf \in BOOLEAN
  BY DEF Typed
<1>2. CASE Route
  BY <1>1, <1>2 DEF Route, Dispatch
<1>3. CASE RoleUnavailable
  BY <1>1, <1>3 DEF RoleUnavailable
<1>4. ASSUME NEW class \in FailureClasses \cup {"none"}, NEW retryable \in BOOLEAN, NEW touched \in BOOLEAN,
             CallFails(class, retryable, touched)
      PROVE  retryOf' \in BOOLEAN
  BY <1>1, <1>4 DEF CallFails
<1>5. CASE AnswerRefused \/ ExecuteAnswers \/ DiagnoseAnswers
  BY <1>1, <1>5 DEF AnswerRefused, ExecuteAnswers, DiagnoseAnswers
<1>6. ASSUME NEW signals \in BOOLEAN, RepairAnswers(signals) PROVE retryOf' \in BOOLEAN
  BY <1>1, <1>6 DEF RepairAnswers
<1>7. ASSUME NEW verdict, NEW keys, ReviewAnswers(verdict, keys) PROVE retryOf' \in BOOLEAN
  BY <1>1, <1>7 DEF ReviewAnswers
<1>8. ASSUME UNCHANGED Unmoved PROVE retryOf' \in BOOLEAN
  BY <1>1, <1>8 DEF Unmoved
<1>9. ASSUME NEW failing, SelfVerify(failing) PROVE retryOf' \in BOOLEAN
  BY <1>8, <1>9 DEF SelfVerify
<1>10. CASE ReviewPasses \/ FinalReviewPasses \/ ReviewRepairs \/ ReviewEscalates
  BY <1>8, <1>10 DEF ReviewPasses, FinalReviewPasses, ReviewRepairs, ReviewEscalates
<1>11. CASE CrashInEffects \/ CrashInReview \/ CrashInHandler
  BY <1>1, <1>11 DEF CrashInEffects, CrashInReview, CrashInHandler
<1>12. ASSUME NEW failing, CrashInSelfVerify(failing) PROVE retryOf' \in BOOLEAN
  BY <1>1, <1>12 DEF CrashInSelfVerify
<1>13. CASE Observe \/ TimePasses \/ Rest
  BY <1>1, <1>13 DEF Observe, TimePasses, Rest, vars, state
<1> QED BY <1>2, <1>3, <1>4, <1>5, <1>6, <1>7, <1>9, <1>10, <1>11, <1>12, <1>13 DEF Next

\* Nothing is pending once the escalations have a disposition.
LEMMA NonePending ==
  ASSUME Recorded, NEW d \in Dispositions, escalations' = Disposed(d)
  PROVE  Pending' = {}
<1>1. \A i \in DOMAIN escalations' : escalations'[i].disposition # "PENDING"
  <2>1. PICK E : E = Disposed(d)
    OBVIOUS
  <2>2. \A i \in DOMAIN E : E[i].disposition # "PENDING"
    BY <2>1, DisposedIs
  <2> QED BY <2>1, <2>2
<1> QED BY <1>1 DEF Pending

\* Where the iteration ends, nothing is pending.
LEMMA PendingStep ==
  ASSUME Typed, Ledger, Next, Ended', ~LightReview
  PROVE  Pending' = {}
<1>0. Recorded /\ Distinct(escalations)
  BY DEF Typed, Ledger, Tells
<1>1. CASE Halts
  <2>1. escalations' = Disposed("HUMAN_GATE")
    BY <1>1 DEF Halts, Escalate
  <2> QED BY <1>0, <2>1, NonePending DEF Dispositions
<1>2. ASSUME UNCHANGED <<phase, escalations>> PROVE Pending' = {}
  BY <1>2 DEF Ledger, Ended, Pending
<1>3. CASE Moves
  <2>1. phase' = phase /\ escalations' = escalations
    BY <1>3 DEF Moves, Onward, Ended
  <2> QED BY <1>2, <2>1
<1>4. CASE Closes
  <2>1. escalations' = Disposed("RESOLVED")
    BY <1>4 DEF Closes
  <2> QED BY <1>0, <2>1, NonePending DEF Dispositions
<1>5. ASSUME NEW signals \in BOOLEAN, Repairs(signals) PROVE Pending' = {}
  BY <1>5 DEF Repairs, RepairAnswers, Ended
<1>6. ASSUME NEW keys \in Findings, Begins(keys) PROVE Pending' = {}
  <2>1. PICK found : /\ found = Consider(keys) /\ escalations' = found.escalations
                     /\ ~found.stops => phase' = "REPAIR"
    BY <1>6, BeginsAs
  <2>2. found.stops
    BY <2>1 DEF Ended
  <2>3. PICK known, X :
           /\ Disposing(known, X) /\ found.escalations = known
           /\ known # escalations \/ Pending = {}
    BY <1>0, <2>1, <2>2, FoundTells
  <2>4. CASE known = escalations
    BY <2>1, <2>3, <2>4 DEF Pending
  <2>5. CASE known # escalations
    <3>1. PICK d \in Dispositions : known = Disposed(d)
      BY <2>3, <2>5 DEF Disposing
    <3> QED BY <1>0, <2>1, <2>3, <3>1, NonePending
  <2> QED BY <2>4, <2>5
<1>7. CASE Tears
  BY <1>2, <1>7 DEF Tears
<1> QED BY <1>1, <1>3, <1>4, <1>5, <1>6, <1>7, Shapes

\* A repair above the first stage has the escalation that was written for it.
LEMMA NamedStep ==
  ASSUME Typed, Ledger, Next
  PROVE  /\ \A i \in DOMAIN repairs' : repairs'[i].stage # "CURRENT" => repairs'[i].id \in Ids(escalations')
         /\ origin'.step.stage # "CURRENT" => origin'.id \in Ids(escalations')
<1>0. Recorded /\ Distinct(escalations) /\ Ids(escalations) \subseteq Ids(escalations')
  BY TellingStep DEF Typed, Ledger, Tells
<1>1. ASSUME UNCHANGED repairs
      PROVE  \A i \in DOMAIN repairs' : repairs'[i].stage # "CURRENT" => repairs'[i].id \in Ids(escalations')
  BY <1>0, <1>1 DEF Ledger
<1>2. ASSUME UNCHANGED origin
      PROVE  origin'.step.stage # "CURRENT" => origin'.id \in Ids(escalations')
  BY <1>0, <1>2 DEF Ledger
<1>3. CASE Halts \/ Moves \/ Closes \/ Tears
  BY <1>1, <1>2, <1>3 DEF Halts, Moves, Closes, Tears, Spared
<1>4. ASSUME NEW signals \in BOOLEAN, Repairs(signals)
      PROVE  /\ \A i \in DOMAIN repairs' : repairs'[i].stage # "CURRENT" => repairs'[i].id \in Ids(escalations')
             /\ origin'.step.stage # "CURRENT" => origin'.id \in Ids(escalations')
  <2>1. PICK r \in Row : /\ r.stage = origin.step.stage /\ r.id = origin.id
                         /\ repairs' = Append(repairs, r)
    BY <1>4, RepairRow
  <2>2. PICK R : R = repairs'
    OBVIOUS
  <2>3. /\ DOMAIN R = 1..(Len(repairs) + 1) /\ DOMAIN repairs = 1..Len(repairs) /\ Len(repairs) \in Nat
        /\ \A i \in DOMAIN repairs : R[i] = repairs[i]
        /\ R[Len(repairs) + 1] = r
    <3>1. repairs \in Seq(Row)
      BY DEF Typed, Posed
    <3> HIDE DEF Row
    <3> QED BY <2>1, <2>2, <3>1, Appending
  <2>4. ASSUME NEW i \in DOMAIN R, R[i].stage # "CURRENT" PROVE R[i].id \in Ids(escalations')
    <3>1. CASE i \in DOMAIN repairs
      BY <1>0, <2>3, <2>4, <3>1 DEF Ledger
    <3>2. CASE i = Len(repairs) + 1
      BY <1>0, <2>1, <2>3, <2>4, <3>2 DEF Ledger
    <3> QED BY <2>3, <3>1, <3>2
  <2>5. UNCHANGED origin
    BY <1>4 DEF Repairs, RepairAnswers
  <2> QED BY <1>2, <2>2, <2>4, <2>5
<1>5. ASSUME NEW keys \in Findings, Begins(keys)
      PROVE  /\ \A i \in DOMAIN repairs' : repairs'[i].stage # "CURRENT" => repairs'[i].id \in Ids(escalations')
             /\ origin'.step.stage # "CURRENT" => origin'.id \in Ids(escalations')
  <2>1. PICK found : /\ found = Consider(keys) /\ escalations' = found.escalations
                     /\ repairs' = Assessed
                     /\ found.stops => origin' = origin
                     /\ ~found.stops =>
                          origin' = [keys |-> keys, step |-> found.ladder.step, id |-> found.id]
    BY <1>5, BeginsAs
  <2>2. PICK R : R = Assessed
    OBVIOUS
  <2>3. \A i \in DOMAIN R : R[i].stage # "CURRENT" => R[i].id \in Ids(escalations')
    <3>1. /\ R \in Seq(Row) /\ Len(R) = Len(repairs) /\ repairs \in Seq(Row)
          /\ \A i \in DOMAIN repairs : R[i].stage = repairs[i].stage /\ R[i].id = repairs[i].id
      BY <2>2, AssessedIs DEF Typed, Posed
    <3>2. DOMAIN R = DOMAIN repairs
      BY <3>1
    <3> QED BY <1>0, <3>1, <3>2 DEF Ledger
  <2>4. CASE found.stops
    BY <1>2, <2>1, <2>2, <2>3, <2>4
  <2>5. CASE ~found.stops
    <3>1. origin'.step.stage = found.ladder.step.stage /\ origin'.id = found.id
      BY <2>1, <2>5
    <3>2. CASE found.ladder.step.stage = "CURRENT"
      BY <2>1, <2>2, <2>3, <3>1, <3>2
    <3>3. CASE found.ladder.step.stage # "CURRENT"
      <4>1. PICK known, X :
               /\ Disposing(known, X)
               /\ found.id = NewId
               /\ found.escalations = Append(known, [id |-> NewId, disposition |-> "PENDING"])
        BY <1>0, <2>1, <2>5, <3>3, FoundTells
      <4>2. PICK E : E = Append(known, [id |-> NewId, disposition |-> "PENDING"])
        OBVIOUS
      <4>3. known \in Seq(Entry)
        BY <1>0, <4>1, DisposingIs
      <4>4. Len(known) + 1 \in DOMAIN E /\ E[Len(known) + 1].id = NewId
        BY <4>2, <4>3
      <4>5. found.id \in Ids(escalations')
        BY <2>1, <4>1, <4>2, <4>4 DEF Ids
      <4> QED BY <2>1, <2>2, <2>3, <3>1, <4>5
    <3> QED BY <3>2, <3>3
  <2> QED BY <2>4, <2>5
<1> QED BY <1>3, <1>4, <1>5, Shapes

LEMMA LedgerStep ==
  ASSUME Typed, Ledger, Next
  PROVE  Ledger'
<1>1. /\ Tells(escalations', file')
      /\ Cardinality(Orphans(file', Ids(escalations'))) <= spent'.crashes
  BY TellingStep DEF Ledger
<1>2. Ended' /\ ~LightReview => Pending' = {}
  BY PendingStep
<1>3. /\ \A i \in DOMAIN repairs' : repairs'[i].stage # "CURRENT" => repairs'[i].id \in Ids(escalations')
      /\ origin'.step.stage # "CURRENT" => origin'.id \in Ids(escalations')
  BY NamedStep
<1> QED BY <1>1, <1>2, <1>3 DEF Ledger

-----------------------------------------------------------------------------
(* REPAIRS THAT CLIMB.                                                      *)
Lined(R) == DOMAIN R = 1..Len(R) /\ Len(R) \in Nat /\ (R = <<>> <=> Len(R) = 0)

\* Repairs that differ in nothing the climb depends on: in no problem and no
\* rung, and in no progress but the last one's.
Alike(Q, R) ==
  /\ Lined(Q) /\ Lined(R) /\ Len(Q) = Len(R)
  /\ \A i \in DOMAIN R : /\ Q[i].stage = R[i].stage /\ Q[i].effort = R[i].effort
                         /\ Q[i].keys = R[i].keys
  /\ \A i \in 1..(Len(R) - 1) : Q[i].signals = R[i].signals

\* The climb does not depend on anything else.
LEMMA AlikeClimbs ==
  ASSUME NEW Q, NEW R, Alike(Q, R), Climbs(R), NEW l, NEW keys
  PROVE  Climbs(Q) /\ (Stands(R, l, keys) => Stands(Q, l, keys))
<1>1. /\ DOMAIN R = 1..Len(R) /\ DOMAIN Q = 1..Len(R) /\ Len(R) \in Nat /\ Len(Q) = Len(R)
      /\ (Q = <<>> <=> R = <<>>) /\ (R = <<>> <=> Len(R) = 0)
  BY DEF Alike, Lined
<1>2. \A i \in DOMAIN R : Rung(Q[i]) = Rung(R[i]) /\ Q[i].keys = R[i].keys /\ Q[i].stage = R[i].stage
  BY DEF Alike, Rung
<1>3. \A i \in 1..(Len(R) - 1) : Linked(Q[i], Q[i + 1])
  <2> SUFFICES ASSUME NEW i \in 1..(Len(R) - 1) PROVE Linked(Q[i], Q[i + 1])
    OBVIOUS
  <2>1. i \in DOMAIN R /\ i + 1 \in DOMAIN R
    BY <1>1
  <2>2. Linked(R[i], R[i + 1])
    BY DEF Climbs
  <2>3. Q[i].signals = R[i].signals
    BY DEF Alike
  <2> QED BY <1>2, <2>1, <2>2, <2>3 DEF Linked, Below
<1>4. ASSUME NEW i \in DOMAIN R, NEW j \in DOMAIN R, Streak(Q, i, j) PROVE Streak(R, i, j)
  <2> SUFFICES ASSUME NEW k \in i..(j - 1)
               PROVE  Rung(R[k]) = Rung(R[j]) /\ ~FullyNew(R[k].keys, R[k + 1].keys)
    BY DEF Streak
  <2>1. k \in DOMAIN R /\ k + 1 \in DOMAIN R
    BY <1>1
  <2>2. Rung(Q[k]) = Rung(Q[j]) /\ ~FullyNew(Q[k].keys, Q[k + 1].keys)
    BY <1>4 DEF Streak
  <2> QED BY <1>2, <2>1, <2>2
<1>5. Plain(Q) = Plain(R)
  BY <1>1, <1>2 DEF Plain
<1>6. Climbs(Q)
  <2>1. \A i \in DOMAIN Q, j \in DOMAIN Q : i < j /\ Streak(Q, i, j) => j - i < MaxAttempts
    BY <1>1, <1>4 DEF Climbs
  <2> QED BY <1>1, <1>3, <1>5, <2>1 DEF Climbs
<1>7. ASSUME Stands(R, l, keys) PROVE Stands(Q, l, keys)
  <2>1. CASE R = <<>>
    BY <1>1, <1>7, <2>1 DEF Stands
  <2>2. CASE R # <<>>
    <3>1. Len(R) \in DOMAIN R
      BY <1>1, <2>2
    <3>2. Q[Len(R)].stage = l.stage /\ Q[Len(R)].effort = l.effort /\ Q[Len(R)].keys = keys
      BY <1>7, <2>2, <3>1 DEF Stands, Alike
    <3>3. \A i \in 1..(Len(R) - 1) : Streak(Q, i, Len(R)) => Len(R) - i < l.attempts
      <4> SUFFICES ASSUME NEW i \in 1..(Len(R) - 1), Streak(Q, i, Len(R)) PROVE Len(R) - i < l.attempts
        OBVIOUS
      <4>1. i \in DOMAIN R
        BY <1>1
      <4>2. Streak(R, i, Len(R))
        BY <1>4, <3>1, <4>1
      <4> QED BY <1>7, <2>2, <4>2 DEF Stands
    <3> QED BY <1>1, <1>7, <2>2, <3>2, <3>3 DEF Stands
  <2> QED BY <2>1, <2>2
<1> QED BY <1>6, <1>7

\* The ladder's next step, as the repair b of the finding keys.
Climbed(R, old, l, b, keys) ==
  /\ b.stage = l.stage /\ b.effort = l.effort /\ b.keys = keys
  /\ \/ R # <<>> /\ FullyNew(R[Len(R)].keys, keys)
     \/ old.stage = NoOne
     \/ /\ R # <<>>
        /\ Progressed(R[Len(R)].keys, keys, R[Len(R)].signals)
        /\ l.stage = old.stage /\ l.effort = old.effort
        /\ l.attempts = old.attempts + 1
     \/ Place(l.stage) > Place(old.stage)
     \/ l.stage = old.stage /\ l.effort > old.effort

\* A repair on the ladder's next step continues the climb: the streak on its
\* rung ends with it, or counts one attempt more on ladder and streak.
LEMMA ClimbExtends ==
  ASSUME NEW R, Lined(R), NEW old, NEW l, LadderType(old), LadderType(l), l.stage # NoOne,
         NEW before, Climbs(R), Stands(R, old, before),
         NEW b, NEW keys, Climbed(R, old, l, b, keys),
         b.stage = "CURRENT" => Cardinality(Plain(R)) < RepairLimit,
         NEW T, Lined(T), Len(T) = Len(R) + 1, \A i \in DOMAIN R : T[i] = R[i], T[Len(R) + 1] = b
  PROVE  Climbs(T) /\ Stands(T, l, keys)
<1> DEFINE n == Len(R)
<1>1. /\ n \in Nat /\ DOMAIN R = 1..n /\ DOMAIN T = 1..(n + 1) /\ Len(T) = n + 1 /\ T # <<>>
      /\ (R = <<>> <=> n = 0)
      /\ \A i \in 1..n : T[i] = R[i]
      /\ T[n + 1] = b
  BY DEF Lined
<1>2. n # 0 => /\ old.stage # NoOne /\ old.stage \in OnLadder /\ old.attempts \in Nat /\ old.attempts >= 1
               /\ R[n].stage = old.stage /\ R[n].effort = old.effort
               /\ \A i \in 1..(n - 1) : Streak(R, i, n) => n - i < old.attempts
  BY <1>1 DEF Stands, LadderType
<1>3. old.effort \in Nat /\ l.effort \in Nat /\ l.attempts \in 0..MaxAttempts /\ l.attempts \in Nat
      /\ MaxAttempts \in Nat
  BY LadderAssumption DEF LadderType
<1> HIDE DEF n
<1>4. ASSUME n # 0 PROVE Linked(R[n], b)
  <2>1. CASE FullyNew(R[n].keys, keys)
    BY <2>1 DEF Linked, Climbed
  <2>2. CASE /\ Progressed(R[n].keys, keys, R[n].signals)
             /\ l.stage = old.stage /\ l.effort = old.effort
    <3>1. Rung(R[n]) = Rung(b)
      BY <1>2, <1>4, <2>2 DEF Rung, Climbed
    <3> QED BY <2>2, <3>1 DEF Linked, Climbed
  <2>3. CASE Place(l.stage) > Place(old.stage) \/ (l.stage = old.stage /\ l.effort > old.effort)
    <3>1. /\ Rung(R[n])[1] = Place(old.stage) /\ Rung(R[n])[2] = old.effort
          /\ Rung(b)[1] = Place(l.stage) /\ Rung(b)[2] = l.effort
      BY <1>2, <1>4 DEF Rung, Climbed
    <3> QED BY <1>3, <2>3, <3>1 DEF Linked, Below
  <2> QED BY <1>1, <1>2, <1>4, <2>1, <2>2, <2>3 DEF Climbed, n
<1>5. ASSUME NEW i \in 1..n, NEW j \in 1..n, Streak(T, i, j) PROVE Streak(R, i, j)
  BY <1>1, <1>5 DEF Streak
<1>6. ASSUME NEW i \in 1..n, Streak(T, i, n + 1) PROVE n + 1 - i < l.attempts
  <2>1. n \in i..((n + 1) - 1) /\ n # 0 /\ n \in 1..n
    BY <1>1
  <2>2. Rung(R[n]) = Rung(b) /\ ~FullyNew(R[n].keys, b.keys)
    BY <1>1, <1>6, <2>1 DEF Streak
  <2>3. Rung(R[n])[1] = Rung(b)[1] /\ Rung(R[n])[2] = Rung(b)[2]
    BY <2>2
  <2>4. Place(l.stage) = Place(old.stage) /\ l.effort = old.effort
    BY <1>2, <2>1, <2>3 DEF Rung, Climbed
  <2>5. l.attempts = old.attempts + 1
    <3>1. Place(old.stage) \in Nat
      BY <1>2, <2>1, PlaceIs
    <3> QED BY <1>1, <1>2, <1>3, <2>1, <2>2, <2>4, <3>1 DEF Climbed, n
  <2>6. CASE i = n
    BY <1>1, <1>2, <2>1, <2>5, <2>6
  <2>7. CASE i # n
    <3>1. i \in 1..(n - 1)
      BY <1>1, <2>7
    <3>2. Streak(R, i, n)
      <4> SUFFICES ASSUME NEW k \in i..(n - 1)
                   PROVE  Rung(R[k]) = Rung(R[n]) /\ ~FullyNew(R[k].keys, R[k + 1].keys)
        BY DEF Streak
      <4>1. k \in i..((n + 1) - 1) /\ k \in 1..n /\ k + 1 \in 1..n
        BY <1>1
      <4>2. Rung(T[k]) = Rung(T[n + 1]) /\ ~FullyNew(T[k].keys, T[k + 1].keys)
        BY <1>6, <4>1 DEF Streak
      <4> QED BY <1>1, <2>2, <4>1, <4>2
    <3>3. n - i < old.attempts
      BY <1>2, <2>1, <3>1, <3>2
    <3> QED BY <1>1, <1>2, <2>1, <2>5, <3>3
  <2> QED BY <2>6, <2>7
<1>7. \A i \in 1..(Len(T) - 1) : Linked(T[i], T[i + 1])
  <2> SUFFICES ASSUME NEW i \in 1..n PROVE Linked(T[i], T[i + 1])
    BY <1>1
  <2>1. CASE i = n
    BY <1>1, <1>4, <2>1
  <2>2. CASE i # n
    <3>1. i \in 1..(n - 1) /\ i + 1 \in 1..n
      BY <1>1, <2>2
    <3>2. Linked(R[i], R[i + 1])
      BY <3>1 DEF Climbs, n
    <3> QED BY <1>1, <3>1, <3>2
  <2> QED BY <2>1, <2>2
<1>8. \A i \in DOMAIN T, j \in DOMAIN T : i < j /\ Streak(T, i, j) => j - i < MaxAttempts
  <2> SUFFICES ASSUME NEW i \in DOMAIN T, NEW j \in DOMAIN T, i < j, Streak(T, i, j)
               PROVE  j - i < MaxAttempts
    OBVIOUS
  <2>1. CASE j = n + 1
    <3>1. i \in 1..n
      BY <1>1, <2>1
    <3>2. n + 1 - i < l.attempts
      BY <1>6, <2>1, <3>1
    <3> QED BY <1>1, <1>3, <2>1, <3>1, <3>2
  <2>2. CASE j # n + 1
    <3>1. i \in 1..n /\ j \in 1..n
      BY <1>1, <2>2
    <3>2. Streak(R, i, j)
      BY <1>5, <3>1
    <3> QED BY <1>1, <3>1, <3>2 DEF Climbs
  <2> QED BY <2>1, <2>2
<1>9. Cardinality(Plain(T)) <= RepairLimit
  <2>1. IsFiniteSet(Plain(R)) /\ Cardinality(Plain(R)) \in Nat
    <3>1. IsFiniteSet(1..n)
      BY <1>1, FS_Interval
    <3>2. Plain(R) \subseteq 1..n
      BY <1>1 DEF Plain
    <3> QED BY <3>1, <3>2, FS_Subset, FS_CardinalityType
  <2>2. RepairLimit \in Nat
    BY RunAssumption
  <2>3. CASE b.stage = "CURRENT"
    <3>1. Plain(T) = Plain(R) \cup {n + 1} /\ n + 1 \notin Plain(R)
      BY <1>1, <2>3 DEF Plain
    <3>2. Cardinality(Plain(T)) = Cardinality(Plain(R)) + 1
      BY <2>1, <3>1, FS_AddElement
    <3> QED BY <2>1, <2>2, <2>3, <3>2
  <2>4. CASE b.stage # "CURRENT"
    <3>1. Plain(T) = Plain(R)
      BY <1>1, <2>4 DEF Plain
    <3> QED BY <3>1 DEF Climbs
  <2> QED BY <2>3, <2>4
<1>10. Climbs(T)
  BY <1>7, <1>8, <1>9 DEF Climbs
<1>11. Stands(T, l, keys)
  <2>1. T[Len(T)].stage = l.stage /\ T[Len(T)].effort = l.effort /\ T[Len(T)].keys = keys
    BY <1>1 DEF Climbed
  <2>2. \A i \in 1..(Len(T) - 1) : Streak(T, i, Len(T)) => Len(T) - i < l.attempts
    BY <1>1, <1>6
  <2> QED BY <1>1, <2>1, <2>2 DEF Stands
<1> QED BY <1>10, <1>11

LEMMA RepairsLined ==
  ASSUME Typed
  PROVE  Lined(repairs) /\ Lined(Assessed) /\ Alike(Assessed, repairs)
<1>1. PICK R : R = Assessed
  OBVIOUS
<1>2. /\ R \in Seq(Row) /\ Len(R) = Len(repairs) /\ repairs \in Seq(Row)
      /\ \A i \in DOMAIN repairs : /\ R[i].stage = repairs[i].stage /\ R[i].effort = repairs[i].effort
                                   /\ R[i].keys = repairs[i].keys
      /\ \A i \in DOMAIN repairs : R[i].signals = repairs[i].signals
  BY <1>1, AssessedIs DEF Typed, Posed
<1>3. Lined(R) /\ Lined(repairs)
  <2>1. ASSUME NEW s \in Seq(Row) PROVE Lined(s)
    BY <2>1 DEF Lined
  <2> QED BY <1>2, <2>1
<1>4. \A i \in 1..(Len(repairs) - 1) : R[i].signals = repairs[i].signals
  BY <1>2, <1>3 DEF Lined
<1>5. Alike(R, repairs)
  BY <1>2, <1>3, <1>4 DEF Alike
<1> QED BY <1>1, <1>3, <1>5

OneAfter(t, s, e) == t = Append(s, e)

LEMMA AppendLined ==
  ASSUME NEW s \in Seq(Row), NEW e, NEW t, OneAfter(t, s, e)
  PROVE  /\ Lined(t) /\ Len(t) = Len(s) + 1 /\ t[Len(s) + 1] = e
         /\ \A i \in DOMAIN s : t[i] = s[i]
<1>1. PICK S : S = Row \cup {e}
  OBVIOUS
<1>2. s \in Seq(S) /\ e \in S
  <2> HIDE DEF Row
  <2> QED BY <1>1
<1>3. t \in Seq(S) /\ Len(t) = Len(s) + 1 /\ t[Len(s) + 1] = e /\ \A i \in DOMAIN s : t[i] = s[i]
  BY <1>2 DEF OneAfter
<1> QED BY <1>3 DEF Lined

\* The repair that is done takes the place of the one that was due.
LEMMA RepairKeepsClimbing ==
  ASSUME Typed, Climbing, NEW signals \in BOOLEAN, Repairs(signals)
  PROVE  Climbing'
<1>1. phase = "REPAIR" /\ phase' = "SELF_VERIFY" /\ ladder' = ladder /\ origin' = origin
  BY Phases DEF Repairs, RepairAnswers
<1>2. PICK r \in Row : /\ r.stage = origin.step.stage /\ r.effort = ladder.effort
                       /\ r.keys = origin.keys
                       /\ repairs' = Append(repairs, r)
  BY RepairRow
<1>3. repairs \in Seq(Row)
  BY DEF Typed, Posed
<1>4. PICK c : c = Coming
  OBVIOUS
<1>5. c.stage = origin.step.stage /\ c.effort = ladder.effort /\ c.keys = origin.keys
  BY <1>4 DEF Coming
<1>6. PICK T : T = Append(repairs, c)
  OBVIOUS
<1>7. PICK Q : Q = Append(repairs, r)
  OBVIOUS
<1>8. /\ Lined(T) /\ Len(T) = Len(repairs) + 1 /\ T[Len(repairs) + 1] = c
      /\ \A i \in DOMAIN repairs : T[i] = repairs[i]
  <2>1. OneAfter(T, repairs, c)
    BY <1>6 DEF OneAfter
  <2> QED BY <1>3, <2>1, AppendLined
<1>9. /\ Lined(Q) /\ Len(Q) = Len(repairs) + 1 /\ Q[Len(repairs) + 1] = r
      /\ \A i \in DOMAIN repairs : Q[i] = repairs[i]
  <2>1. OneAfter(Q, repairs, r)
    BY <1>7 DEF OneAfter
  <2> QED BY <1>3, <2>1, AppendLined
<1>10. DOMAIN repairs = 1..Len(repairs) /\ Len(repairs) \in Nat
  BY <1>3
<1>11. Alike(Q, T)
  <2>1. ASSUME NEW i \in DOMAIN T
        PROVE  Q[i].stage = T[i].stage /\ Q[i].effort = T[i].effort /\ Q[i].keys = T[i].keys
    <3>1. i \in DOMAIN repairs \/ i = Len(repairs) + 1
      BY <1>8, <1>10 DEF Lined
    <3> QED BY <1>2, <1>5, <1>8, <1>9, <3>1
  <2>2. \A i \in 1..(Len(T) - 1) : Q[i].signals = T[i].signals
    BY <1>8, <1>9, <1>10
  <2> QED BY <1>8, <1>9, <2>1, <2>2 DEF Alike
<1>12. Climbs(T) /\ Stands(T, ladder, origin.keys)
  BY <1>1, <1>4, <1>6 DEF Climbing
<1>13. Climbs(Q) /\ Stands(Q, ladder, origin.keys)
  BY <1>11, <1>12, AlikeClimbs
<1> QED BY <1>1, <1>2, <1>7, <1>13 DEF Climbing

\* The repair that is begun is the ladder's next step.
LEMMA BeginKeepsClimbing ==
  ASSUME Typed, Climbing, NEW keys \in Findings, Begins(keys)
  PROVE  Climbing'
<1>1. PICK found : /\ found = Consider(keys)
                   /\ repairs' = Assessed
                   /\ ladder' = found.ladder
                   /\ found.stops => phase' = "AWAITING_HUMAN"
                   /\ ~found.stops =>
                        /\ phase' = "REPAIR"
                        /\ origin' = [keys |-> keys, step |-> found.ladder.step, id |-> found.id]
  BY BeginsAs
<1>2. PICK R : R = Assessed
  OBVIOUS
<1>3. Climbs(repairs) /\ Stands(repairs, ladder, origin.keys)
  BY DEF Climbing, Begins
<1>4. Lined(R) /\ Lined(repairs) /\ Alike(R, repairs)
  BY <1>2, RepairsLined
<1>5. Climbs(R) /\ Stands(R, ladder, origin.keys)
  BY <1>3, <1>4, AlikeClimbs
<1>6. CASE found.stops
  BY <1>1, <1>2, <1>5, <1>6 DEF Climbing
<1>7. CASE ~found.stops
  <2>1. PICK l : l = Stepped(keys).ladder
    OBVIOUS
  <2>2. found.ladder = l /\ ~Stops(keys)
    BY <1>1, <1>7, <2>1, StopsIs
  <2>3. PICK c : c = Coming'
    OBVIOUS
  <2>4. /\ LadderType(l) /\ l.stage # NoOne /\ ~AtLimit(l.step)
        /\ \/ repairs # <<>> /\ FullyNew(LastRepair.keys, keys)
           \/ ladder.stage = NoOne
           \/ /\ ladder.stage # NoOne /\ repairs # <<>>
              /\ Progressed(LastRepair.keys, keys, LastRepair.signals)
              /\ l.stage = ladder.stage /\ l.effort = ladder.effort
              /\ l.attempts = ladder.attempts + 1
           \/ /\ ladder.stage # NoOne
              /\ \/ Place(l.stage) > Place(ladder.stage)
                 \/ l.stage = ladder.stage /\ l.effort > ladder.effort
    BY <2>1, <2>2, SteppedIs
  <2>5. origin'.step = l.step /\ origin'.keys = keys /\ ladder' = l /\ phase' = "REPAIR"
    BY <1>1, <1>7, <2>2
  <2>6. c.stage = l.step.stage /\ c.effort = l.effort /\ c.keys = keys
    BY <2>3, <2>5 DEF Coming
  <2>7. c.stage = l.stage
    BY <2>4, <2>6 DEF LadderType
  <2>8. LadderType(ladder) /\ R \in Seq(Row)
    BY <1>2, AssessedIs DEF Typed, Posed
  <2>9. /\ Len(R) = Len(repairs) /\ (R = <<>> <=> repairs = <<>>)
        /\ repairs # <<>> => /\ R[Len(R)].keys = LastRepair.keys
                             /\ R[Len(R)].signals = LastRepair.signals
    <3>1. Len(R) = Len(repairs) /\ (R = <<>> <=> repairs = <<>>)
      BY <1>2, AssessedIs
    <3>2. ASSUME repairs # <<>>
          PROVE  R[Len(R)].keys = LastRepair.keys /\ R[Len(R)].signals = LastRepair.signals
      <4>1. Len(repairs) \in DOMAIN repairs
        BY <3>2, LastIs
      <4>2. /\ \A i \in DOMAIN repairs : R[i].keys = repairs[i].keys
            /\ \A i \in DOMAIN repairs : R[i].signals = repairs[i].signals
        BY <1>2, AssessedIs
      <4> QED BY <3>1, <4>1, <4>2 DEF LastRepair
    <3> QED BY <3>1, <3>2
  <2>10. Climbed(R, ladder, l, c, keys)
    BY <2>4, <2>6, <2>7, <2>9 DEF Climbed
  <2>11. c.stage = "CURRENT" => Cardinality(Plain(R)) < RepairLimit
    <3>1. Plain(R) = Plain(repairs)
      BY <1>4 DEF Plain, Alike, Lined
    <3>2. IsFiniteSet(Plain(repairs)) /\ Cardinality(Plain(repairs)) \in Nat
      <4>1. Len(repairs) \in Nat /\ Plain(repairs) \subseteq 1..Len(repairs)
        BY <1>4 DEF Plain, Lined
      <4>2. IsFiniteSet(1..Len(repairs))
        BY <4>1, FS_Interval
      <4> QED BY <4>1, <4>2, FS_Subset, FS_CardinalityType
    <3>3. RepairLimit \in Nat
      BY RunAssumption
    <3>4. l.step.stage = "CURRENT" => ~(Cardinality(Plain(repairs)) >= RepairLimit)
      BY <2>4 DEF AtLimit, StandardRepairs, Plain
    <3> QED BY <2>6, <3>1, <3>2, <3>3, <3>4
  <2>12. PICK T : T = Append(R, c)
    OBVIOUS
  <2>13. /\ Lined(T) /\ Len(T) = Len(R) + 1 /\ T[Len(R) + 1] = c
         /\ \A i \in DOMAIN R : T[i] = R[i]
    <3>1. OneAfter(T, R, c)
      BY <2>12 DEF OneAfter
    <3> QED BY <2>8, <3>1, AppendLined
  <2>14. Climbs(T) /\ Stands(T, l, keys)
    <3>1. LadderType(l) /\ l.stage # NoOne
      BY <2>4
    <3> QED BY <1>4, <1>5, <2>8, <2>10, <2>11, <2>13, <3>1, ClimbExtends
  <2>15. Append(repairs', Coming') = T
    BY <1>1, <1>2, <2>3, <2>12
  <2> QED BY <1>1, <1>2, <1>5, <2>5, <2>14, <2>15 DEF Climbing
<1> QED BY <1>6, <1>7

LEMMA ClimbingStep ==
  ASSUME Typed, Climbing, Next
  PROVE  Climbing'
<1>1. ASSUME Spared, phase' = phase \/ phase' \in {"ACCEPTED", "AWAITING_HUMAN"} PROVE Climbing'
  BY <1>1 DEF Spared, Climbing, Coming
<1>2. CASE Halts
  BY <1>1, <1>2 DEF Halts, Escalate
<1>3. CASE Closes
  BY <1>1, <1>3 DEF Closes
<1>4. CASE Tears
  BY <1>1, <1>4 DEF Tears
<1>5. CASE Moves
  <2>1. CASE phase' = phase \/ phase' = "ACCEPTED"
    BY <1>1, <1>5, <2>1 DEF Moves
  <2>2. CASE phase \in {"EXECUTE", "SELF_VERIFY", "REVIEW"} /\ phase' \in {"SELF_VERIFY", "REVIEW", "FINAL_REVIEW"}
    BY <1>5, <2>2 DEF Moves, Spared, Climbing
  <2> QED BY <1>5, <2>1, <2>2 DEF Moves, Onward
<1> QED BY <1>2, <1>3, <1>4, <1>5, Shapes, RepairKeepsClimbing, BeginKeepsClimbing

-----------------------------------------------------------------------------
(* THE INVARIANT.                                                           *)
Inv == Typed /\ Climbing /\ Ledger

\* The iteration starts that way.
LEMMA InitTyped ==
  ASSUME Init
  PROVE  Typed
<1>1. World
  <2>1. RouterState(router)
    BY DEF Init, EmptyState, RouterState
  <2>2. Reports(telemetry)
    BY FS_EmptySet DEF Init, Reports
  <2>3. spent \in [{"ticks", "failures", "crashes", "turns"} -> Nat]
    BY DEF Init
  <2> QED BY <2>1, <2>2, <2>3 DEF Init, World, Someone
<1>2. Placed /\ Calling
  BY DEF Init, Placed, Calling
<1>3. Posed
  <2>1. ladder = NewLadder /\ LadderType(ladder) /\ repairs = <<>> /\ due = "execute"
    BY NewLadderIs DEF Init
  <2>2. DOMAIN origin = {"keys", "step", "id"} /\ origin.keys = {} /\ origin.id = 0
        /\ origin.step = ladder.step
    BY DEF Init
  <2>3. StepType(origin.step)
    BY <2>1, <2>2 DEF LadderType
  <2> QED BY <2>1, <2>2, <2>3 DEF Posed
<1>4. Recorded
  <2>1. escalations = <<>> /\ file = <<>>
    BY DEF Init
  <2> QED BY <2>1 DEF Recorded
<1>5. retryOf \in BOOLEAN
  BY DEF Init
<1> QED BY <1>1, <1>2, <1>3, <1>4, <1>5 DEF Typed

LEMMA InitClimbing ==
  ASSUME Init
  PROVE  Climbing
<1>1. repairs = <<>> /\ phase = "EXECUTE" /\ ladder.stage = NoOne
  BY DEF Init, NewLadder
<1>2. Plain(repairs) = {} /\ DOMAIN repairs = {} /\ Len(repairs) = 0
  BY <1>1 DEF Plain
<1>3. Cardinality(Plain(repairs)) <= RepairLimit
  BY <1>2, FS_EmptySet, RunAssumption
<1>4. Climbs(repairs)
  BY <1>2, <1>3 DEF Climbs
<1> QED BY <1>1, <1>4 DEF Climbing, Stands

LEMMA InitLedger ==
  ASSUME Init
  PROVE  Ledger
<1>1. escalations = <<>> /\ file = <<>> /\ repairs = <<>> /\ spent.crashes = 0
      /\ phase = "EXECUTE" /\ origin.step.stage = "CURRENT"
  BY DEF Init, NewLadder, StepOf
<1>2. Tells(escalations, file)
  BY <1>1 DEF Tells, Distinct
<1>3. Orphans(file, Ids(escalations)) = {}
  BY <1>1 DEF Orphans
<1>4. Cardinality(Orphans(file, Ids(escalations))) <= spent.crashes
  BY <1>1, <1>3, FS_EmptySet
<1> QED BY <1>1, <1>2, <1>4 DEF Ledger, Ended

\* Every step keeps the types.
LEMMA TypedStep ==
  ASSUME Typed, Ledger, Next
  PROVE  Typed'
<1>1. Recorded'
  BY TellingStep DEF Ledger
<1> QED BY <1>1, WorldStep, PlacedStep, CallingStep, PosedStep, RetryStep DEF Typed

LEMMA Unchanged ==
  ASSUME Inv, UNCHANGED vars
  PROVE  Inv'
<1>1. Typed'
  BY DEF Inv, Typed, vars, state, World, Reports, Placed, Calling, Innocent, Posed, Ended, Recorded
<1>2. Climbing'
  BY DEF Inv, vars, state, Climbing, Coming
<1>3. Ledger'
  BY DEF Inv, vars, state, Ledger, Ended, Pending
<1> QED BY <1>1, <1>2, <1>3 DEF Inv

\* Whatever the providers do, the iteration is where its phase says, its
\* repairs climb and its ledger tells what the state knows.
THEOREM InvHolds == Spec => []Inv
<1>1. Init => Inv
  BY InitTyped, InitClimbing, InitLedger DEF Inv
<1>2. Inv /\ [Next]_vars => Inv'
  BY TypedStep, ClimbingStep, LedgerStep, Unchanged DEF Inv
<1> QED BY <1>1, <1>2, PTL DEF Spec

\* The state keeps its types (autonomy_state.json, repair_escalation_ledger.jsonl).
THEOREM TypeCorrect == Spec => []TypeOK
<1>1. Inv => TypeOK
  <2> SUFFICES ASSUME Inv PROVE TypeOK
    OBVIOUS
  <2>0. Typed /\ World /\ Placed /\ Calling /\ Posed /\ Recorded /\ retryOf \in BOOLEAN
    BY DEF Inv, Typed
  <2>1. due \in Effects \cup Reviews \cup {"diagnose", "none"}
    BY <2>0, Phases
  <2>2. router \in [demoted : [Pools -> Nat \cup {None}], health : [HealthKeys -> Nat \cup {None}]]
    BY <2>0 DEF World, RouterState
  <2>3. \A i \in DOMAIN repairs : repairs[i].keys \subseteq Keys /\ repairs[i].stage \in StageNames
    <3>1. \A i \in DOMAIN repairs : repairs[i] \in Row
      BY <2>0 DEF Posed
    <3> QED BY <3>1, OnLadderIs DEF Row
  <2>4. ladder.stage \in StageNames \cup {NoOne} /\ ladder.attempts \in 0..MaxAttempts
        /\ origin.keys \subseteq Keys
    BY <2>0, OnLadderIs DEF Posed, LadderType
  <2>5. /\ \A i \in DOMAIN escalations :
             escalations[i].disposition \in {"PENDING", "RESOLVED", "HUMAN_GATE"}
        /\ \A i \in DOMAIN file : file[i].kind \in {"ESCALATION", "RESULT", "RESOLVED", "HUMAN_GATE"}
    <3>1. /\ \A i \in DOMAIN escalations : escalations[i] \in Entry
          /\ \A i \in DOMAIN file : file[i] \in Mark
      BY <2>0 DEF Recorded
    <3> QED BY <3>1 DEF Entry, Mark
  <2>6. flight.name \in Effects \cup Reviews \cup {"diagnose", "none"}
    BY <2>0, <2>1 DEF Calling, NoFlight
  <2>7. /\ phase \in {"EXECUTE", "SELF_VERIFY", "REVIEW", "REPAIR", "FINAL_REVIEW", "ACCEPTED",
                      "AWAITING_HUMAN"}
        /\ lastPool \in Pools \cup {"none"}
        /\ writers \subseteq {Traits[p].model : p \in Profiles}
        /\ implementer \in Profiles \cup {NoOne}
    BY <2>0 DEF World, Placed, Someone
  <2> QED BY <2>0, <2>1, <2>2, <2>3, <2>4, <2>5, <2>6, <2>7 DEF TypeOK
<1> QED BY <1>1, InvHolds, PTL

\* No review is dispatched to a model that executed or repaired anything of the
\* candidate, nor does it fail over to one (_route, _call_once).
THEOREM ReviewIndependentHolds == Spec => []ReviewIndependent
<1>1. Inv => ReviewIndependent
  <2> SUFFICES ASSUME Inv, Running, due \in Reviews PROVE Traits[Server].model \notin writers
    BY DEF ReviewIndependent
  <2>1. flight.ranked \in Seq(Profiles) /\ flight.ranked # <<>> /\ Innocent(flight.ranked)
    BY DEF Inv, Typed, Calling, Running
  <2>2. 1 \in DOMAIN flight.ranked /\ Server = flight.ranked[1]
    BY <2>1 DEF Server
  <2> QED BY <2>1, <2>2 DEF Innocent
<1> QED BY <1>1, InvHolds, PTL

\* However findings come, go and turn, repairs climb the ladder within its
\* bounds and the mandate's (repair_escalation.next_step, _begin_repair).
THEOREM RepairsClimbHolds == Spec => []RepairsClimb
<1>1. Inv => RepairsClimb
  <2> SUFFICES ASSUME Inv PROVE RepairsClimb
    OBVIOUS
  <2>1. Climbs(repairs)
    BY DEF Inv, Climbing
  <2>2. \A i \in 1..(Len(repairs) - 1) : Linked(repairs[i], repairs[i + 1])
    BY <2>1 DEF Climbs
  <2>3. \A i \in DOMAIN repairs, j \in DOMAIN repairs :
          i < j /\ Streak(repairs, i, j) => j - i < MaxAttempts
    BY <2>1 DEF Climbs
  <2>4. StandardRepairs <= RepairLimit
    BY <2>1 DEF Climbs, StandardRepairs, Plain
  <2> QED BY <2>2, <2>3, <2>4 DEF RepairsClimb, Linked, Streak
<1> QED BY <1>1, InvHolds, PTL

\* Once the iteration is over the ledger file tells how every escalation ended,
\* whatever crashed (_begin_repair, _close_escalations); a provisional
\* acceptance closes none, hence the hypothesis.
THEOREM LedgerToldHolds ==
  ASSUME LightReview = FALSE
  PROVE  Spec => []LedgerTold
<1>1. Inv => LedgerTold
  <2> SUFFICES ASSUME Inv, Ended PROVE LedgerTold
    BY DEF LedgerTold
  <2>1. Pending = {} /\ Tells(escalations, file)
    BY DEF Inv, Ledger
  <2>2. ASSUME NEW i \in DOMAIN escalations
        PROVE  /\ escalations[i].disposition # "PENDING"
               /\ ToldLast(escalations[i].id, escalations[i].disposition)
    <3>1. escalations[i].disposition # "PENDING"
      BY <2>1 DEF Pending
    <3>2. Said(file, escalations[i].id, escalations[i].disposition)
      BY <2>1, <3>1 DEF Tells
    <3> QED BY <3>1, <3>2 DEF Said, ToldLast, Dispositions
  <2>3. \A i \in DOMAIN repairs :
          repairs[i].stage # "CURRENT" => repairs[i].id \in {escalations[j].id : j \in DOMAIN escalations}
    BY DEF Inv, Ledger, Ids
  <2>4. Cardinality({i \in DOMAIN file :
                       /\ file[i].kind = "ESCALATION"
                       /\ file[i].id \notin {escalations[j].id : j \in DOMAIN escalations}})
          <= spent.crashes
    BY DEF Inv, Ledger, Orphans, Ids
  <2> QED BY <2>2, <2>3, <2>4 DEF LedgerTold
<1> QED BY <1>1, InvHolds, PTL

=============================================================================
