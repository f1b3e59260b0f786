---------------------- MODULE RequestTargetScopeProofs ----------------------
(***************************************************************************)
(* What parseSAScope makes of the scopes it is meant for: the documented   *)
(* spellings of an account, and the labels tokens are listed with, for any *)
(* names and audiences, white space and separators within them included.   *)
(***************************************************************************)
EXTENDS RequestTargetProofs

-----------------------------------------------------------------------------
(* Trim                                                                    *)

White(x) == x = " "

Ends(s) == ~White(s[1]) /\ ~White(s[Len(s)])

\* Trimming takes a part of a text, from its first to its last token that is no
\* white space.
LEMMA TrimPart ==
    ASSUME NEW s \in Seq(Tokens), \E x \in DOMAIN s : ~White(s[x])
    PROVE  \E m \in 1..Len(s), n \in 1..Len(s) :
             /\ ~White(s[m]) /\ ~White(s[n])
             /\ \A i \in DOMAIN s : ~White(s[i]) => m <= i /\ i <= n
             /\ Trim(s) = SubSeq(s, m, n)
<1> DEFINE solid == { i \in DOMAIN s : s[i] # " " }
<1>1. Len(s) \in Nat /\ DOMAIN s = 1..Len(s)
  BY LenProperties
<1>2. solid # {} /\ Trim(s) = SubSeq(s, Min(solid), Max(solid))
  BY DEF Trim, White
<1>3. /\ solid \in SUBSET (1..Len(s))
      /\ \A i \in DOMAIN s : i \in solid <=> ~White(s[i])
  BY <1>1, Zenon DEF White
<1> HIDE DEF solid
<1>4. /\ Min(solid) \in solid /\ Max(solid) \in solid
      /\ \A i \in solid : Min(solid) <= i /\ i <= Max(solid)
  BY <1>1, <1>2, <1>3, FirstAndLast
<1>5. Min(solid) \in 1..Len(s) /\ Max(solid) \in 1..Len(s)
  BY <1>3, <1>4
<1>6. QED
  BY <1>1, <1>2, <1>3, <1>4, <1>5

\* What is trimmed is empty, or neither begins nor ends with white space; and
\* nothing is in it that was not there.
LEMMA TrimmedEnds ==
    ASSUME NEW s \in Seq(Tokens), Trim(s) # <<>>
    PROVE  /\ Ends(Trim(s)) /\ Len(Trim(s)) > 0
           /\ \A i \in DOMAIN Trim(s) : \E j \in DOMAIN s : Trim(s)[i] = s[j]
<1>1. Len(s) \in Nat /\ DOMAIN s = 1..Len(s)
  BY LenProperties
<1>2. \E x \in DOMAIN s : ~White(s[x])
  BY DEF Trim, White
<1>3. PICK m \in 1..Len(s), n \in 1..Len(s) :
        ~White(s[m]) /\ ~White(s[n]) /\ m <= n /\ Trim(s) = SubSeq(s, m, n)
  BY <1>1, <1>2, TrimPart
<1>4. /\ Trim(s) \in Seq(Tokens) /\ Len(Trim(s)) = n - m + 1
      /\ \A i \in 1..n - m + 1 : Trim(s)[i] = s[m + i - 1]
  <2>1. m \in Int /\ n \in Int /\ \A i \in m..n : s[i] \in Tokens
    BY <1>1
  <2>2. QED
    BY <1>3, <2>1, SubSeqProperties
<1>5. Ends(Trim(s))
  <2>1. 1 \in 1..n - m + 1 /\ n - m + 1 \in 1..n - m + 1
    BY <1>1, <1>3
  <2>2. m + 1 - 1 = m /\ m + (n - m + 1) - 1 = n
    BY <1>1
  <2>3. QED
    BY <1>3, <1>4, <2>1, <2>2 DEF Ends
<1>6. \A i \in 1..n - m + 1 : m + i - 1 \in DOMAIN s
  BY <1>1
<1>7. DOMAIN Trim(s) = 1..n - m + 1
  BY <1>4
<1>8. n - m + 1 > 0
  BY <1>1, <1>3
<1>9. QED
  BY <1>4, <1>5, <1>6, <1>7, <1>8

\* A text that neither begins nor ends with white space is trimmed already.
LEMMA SolidTrim ==
    ASSUME NEW s \in Seq(Tokens), Len(s) > 0, Ends(s)
    PROVE  Trim(s) = s
<1>1. Len(s) \in Nat /\ DOMAIN s = 1..Len(s) /\ 1 \in DOMAIN s /\ Len(s) \in DOMAIN s
  OBVIOUS
<1>2. \E x \in DOMAIN s : ~White(s[x])
  BY <1>1 DEF Ends
<1>3. PICK m \in 1..Len(s), n \in 1..Len(s) :
        m <= 1 /\ Len(s) <= n /\ Trim(s) = SubSeq(s, m, n)
  BY <1>1, <1>2, TrimPart DEF Ends
<1>4. m = 1 /\ n = Len(s)
  <2>1. m <= 1 /\ Len(s) <= n
    BY <1>3
  <2>2. m \in 1..Len(s) /\ n \in 1..Len(s) /\ Len(s) \in Nat
    BY <1>1
  <2>3. \A k \in Nat : \A i, j \in 1..k : i <= 1 /\ k <= j => i = 1 /\ j = k
    OBVIOUS
  <2>4. QED
    BY <2>1, <2>2, <2>3
<1>5. Trim(s) = SubSeq(s, 1, Len(s)) /\ \A i \in 1..Len(s) : s[i] \in Tokens
  BY <1>3, <1>4
<1>6. Len(Trim(s)) = Len(s) /\ \A i \in 1..Len(s) : Trim(s)[i] = s[i]
  <2>1. /\ Len(Trim(s)) = Len(s) - 1 + 1
        /\ \A i \in 1..Len(s) - 1 + 1 : Trim(s)[i] = s[1 + i - 1]
    BY <1>1, <1>5, SubSeqProperties
  <2>2. QED
    BY <1>1, <2>1
<1>7. QED
  BY <1>6, TrimType, SeqEqual

LEMMA TrimEmpty == Trim(<<>>) = <<>>
  BY DEF Trim

\* Trimming again changes nothing.
LEMMA TrimOnce ==
    ASSUME NEW s \in Seq(Tokens)
    PROVE  Trim(Trim(s)) = Trim(s)
<1>1. CASE Trim(s) = <<>>
  BY <1>1, TrimEmpty
<1>2. CASE Trim(s) # <<>>
  <2>1. Trim(s) \in Seq(Tokens) /\ Len(Trim(s)) > 0 /\ Ends(Trim(s))
    BY <1>2, TrimType, TrimmedEnds
  <2>2. QED
    BY <2>1, SolidTrim
<1>3. QED
  BY <1>1, <1>2

-----------------------------------------------------------------------------
(* Cutting a text where it was joined                                      *)

\* A text with a token before it.
LEMMA AddFirst ==
    ASSUME NEW S, NEW s \in Seq(S), NEW x \in S
    PROVE  /\ <<x>> \o s \in Seq(S) /\ Len(<<x>> \o s) = 1 + Len(s)
           /\ (<<x>> \o s)[1] = x
           /\ \A i \in 1..Len(s) : (<<x>> \o s)[1 + i] = s[i]
<1>1. <<x>> \in Seq(S) /\ Len(<<x>>) = 1 /\ <<x>>[1] = x /\ Len(s) \in Nat
  OBVIOUS
<1> DEFINE t == <<x>>
<1> HIDE DEF t
<1>2. /\ t \o s \in Seq(S) /\ Len(t \o s) = Len(t) + Len(s)
      /\ \A i \in 1 .. Len(t) + Len(s) :
           (t \o s)[i] = IF i <= Len(t) THEN t[i] ELSE s[i - Len(t)]
  BY <1>1, ConcatProperties, Zenon DEF t
<1>3. Len(t) = 1 /\ t[1] = x
  BY <1>1 DEF t
<1>4. (t \o s)[1] = x
  <2>1. 1 \in 1 .. 1 + Len(s) /\ 1 <= 1
    BY <1>1
  <2>2. QED
    BY <1>2, <1>3, <2>1
<1>5. ASSUME NEW i \in 1..Len(s) PROVE (t \o s)[1 + i] = s[i]
  <2>1. 1 + i \in 1 .. 1 + Len(s) /\ ~(1 + i <= 1) /\ 1 + i - 1 = i
    BY <1>1
  <2>2. QED
    BY <1>2, <1>3, <2>1
<1>6. QED
  BY <1>2, <1>3, <1>4, <1>5 DEF t

\* A part of a text.
LEMMA PartFacts ==
    ASSUME NEW s \in Seq(Tokens), NEW m \in Nat \ {0}, NEW k \in Nat, m + k - 1 <= Len(s)
    PROVE  /\ SubSeq(s, m, m + k - 1) \in Seq(Tokens)
           /\ Len(SubSeq(s, m, m + k - 1)) = k
           /\ \A i \in 1..k : SubSeq(s, m, m + k - 1)[i] = s[m + i - 1]
<1> DEFINE n == m + k - 1
<1>1. n \in Int /\ m \in Int /\ n - m + 1 = k /\ (m <= n \/ (k = 0 /\ ~(m <= n)))
  OBVIOUS
<1>2. \A i \in m..n : s[i] \in Tokens
  BY LenProperties, ElementOfSeq
<1> HIDE DEF n
<1>3. /\ SubSeq(s, m, n) \in Seq(Tokens)
      /\ Len(SubSeq(s, m, n)) = IF m <= n THEN n - m + 1 ELSE 0
      /\ \A i \in 1 .. n - m + 1 : SubSeq(s, m, n)[i] = s[m + i - 1]
  BY <1>1, <1>2, SubSeqProperties
<1>4. Len(SubSeq(s, m, n)) = k
  BY <1>1, <1>3
<1>5. \A i \in 1..k : SubSeq(s, m, n)[i] = s[m + i - 1]
  BY <1>1, <1>3
<1>6. QED
  BY <1>3, <1>4, <1>5 DEF n

\* Two texts that a token joins can be told apart where it stands.
LEMMA CutWhereJoined ==
    ASSUME NEW ref \in Seq(Tokens), NEW aud \in Seq(Tokens), NEW at \in Tokens
    PROVE  LET w == ref \o (<<at>> \o aud)
               p == Len(ref) + 1
           IN  /\ w \in Seq(Tokens) /\ Len(w) = p + Len(aud) /\ w[p] = at
               /\ \A i \in 1..Len(ref) : w[i] = ref[i]
               /\ \A i \in 1..Len(aud) : w[p + i] = aud[i]
               /\ Before(w, p) = ref /\ After(w, p) = aud
<1> DEFINE t == <<at>> \o aud
           w == ref \o t
           m == Len(ref)
           k == Len(aud)
           p == m + 1
<1>1. /\ t \in Seq(Tokens) /\ Len(t) = 1 + k /\ t[1] = at
      /\ \A i \in 1..k : t[1 + i] = aud[i]
  BY AddFirst
<1>2. m \in Nat /\ k \in Nat
  BY LenProperties
<1> HIDE DEF t, w, m, k
<1>3. /\ w \in Seq(Tokens) /\ Len(w) = m + (1 + k)
      /\ \A i \in 1 .. m + (1 + k) : w[i] = IF i <= m THEN ref[i] ELSE t[i - m]
  <2>1. t \in Seq(Tokens)
    BY <1>1
  <2>2. /\ ref \o t \in Seq(Tokens)
        /\ Len(ref \o t) = Len(ref) + Len(t)
        /\ \A i \in 1 .. Len(ref) + Len(t) :
             (ref \o t)[i] = IF i <= Len(ref) THEN ref[i] ELSE t[i - Len(ref)]
    BY <2>1, ConcatProperties, Zenon
  <2>3. QED
    BY <1>1, <2>2, Zenon DEF w, m
<1>4. Len(w) = p + k
  BY <1>1, <1>2, <1>3
<1>5. \A i \in 1..m : w[i] = ref[i]
  <2>1. \A i \in 1..m : i \in 1 .. m + (1 + k) /\ i <= m
    BY <1>2
  <2>2. QED
    BY <1>1, <1>3, <2>1
<1>6. w[p] = at
  <2>1. p \in 1 .. m + (1 + k) /\ ~(p <= m) /\ p - m = 1
    BY <1>2
  <2>2. QED
    BY <1>1, <1>3, <2>1
<1>7. \A i \in 1..k : w[p + i] = aud[i]
  <2>1. \A i \in 1..k : p + i \in 1 .. m + (1 + k) /\ ~(p + i <= m) /\ p + i - m = 1 + i
    BY <1>2
  <2>2. \A i \in 1..k : w[p + i] = t[p + i - m]
    BY <1>2, <1>3, <2>1
  <2>3. QED
    BY <1>1, <2>1, <2>2
<1>8. Before(w, p) = ref
  <2>1. 1 + m - 1 = p - 1 /\ 1 + m - 1 <= Len(w) /\ \A i \in 1..m : 1 + i - 1 = i
    BY <1>2, <1>4
  <2>2. /\ SubSeq(w, 1, p - 1) \in Seq(Tokens) /\ Len(SubSeq(w, 1, p - 1)) = m
        /\ \A i \in 1..m : SubSeq(w, 1, p - 1)[i] = w[1 + i - 1]
    BY <1>2, <1>3, <2>1, PartFacts
  <2>3. \A i \in 1..m : SubSeq(w, 1, p - 1)[i] = ref[i]
    BY <1>5, <2>1, <2>2
  <2>4. QED
    BY <2>2, <2>3, SeqEqual DEF Before, m
<1>9. After(w, p) = aud
  <2>1. /\ p + 1 + k - 1 = p + k /\ p + 1 + k - 1 <= Len(w) /\ p + 1 \in Nat \ {0}
        /\ \A i \in 1..k : p + 1 + i - 1 = p + i
    BY <1>2, <1>4
  <2>2. /\ SubSeq(w, p + 1, p + k) \in Seq(Tokens) /\ Len(SubSeq(w, p + 1, p + k)) = k
        /\ \A i \in 1..k : SubSeq(w, p + 1, p + k)[i] = w[p + 1 + i - 1]
    BY <1>2, <1>3, <2>1, PartFacts
  <2>3. \A i \in 1..k : SubSeq(w, p + 1, p + k)[i] = aud[i]
    BY <1>7, <2>1, <2>2
  <2>4. QED
    BY <1>4, <2>2, <2>3, SeqEqual DEF After, k
<1>10. QED
  BY <1>3, <1>4, <1>5, <1>6, <1>7, <1>8, <1>9 DEF w, t, m, k

Without(s, x) == Positions(s, x) = {}

\* A token that is in neither of them stands there only.
LEMMA JoinedOnce ==
    ASSUME NEW ref \in Seq(Tokens), NEW aud \in Seq(Tokens), NEW at \in Tokens,
           Without(ref, at), Without(aud, at)
    PROVE  Positions(ref \o (<<at>> \o aud), at) = {Len(ref) + 1}
<1> DEFINE w == ref \o (<<at>> \o aud)
           m == Len(ref)
           k == Len(aud)
           p == m + 1
<1>1. /\ w \in Seq(Tokens) /\ Len(w) = p + k /\ w[p] = at
      /\ \A i \in 1..m : w[i] = ref[i]
      /\ \A i \in 1..k : w[p + i] = aud[i]
  BY CutWhereJoined
<1>2. m \in Nat /\ k \in Nat /\ DOMAIN ref = 1..m /\ DOMAIN aud = 1..k
  BY LenProperties
<1> HIDE DEF w, m, k
<1>3. DOMAIN w = 1..p + k
  BY <1>1, LenProperties
<1>4. \A i \in 1..m : ref[i] # at
  BY <1>2 DEF Without, Positions
<1>5. \A i \in 1..k : aud[i] # at
  BY <1>2 DEF Without, Positions
<1>6. \A i \in 1..p + k : i \in 1..m \/ i = p \/ \E j \in 1..k : i = p + j
  <2>1. ASSUME NEW i \in 1..p + k, ~(i \in 1..m), i # p
        PROVE  i - p \in 1..k /\ i = p + (i - p)
    BY <1>2, <2>1
  <2>2. QED
    BY <2>1
<1>7. ASSUME NEW i \in 1..p + k
      PROVE  w[i] = at <=> i = p
  <2>1. CASE i \in 1..m
    <3>1. i # p
      BY <1>2, <2>1
    <3>2. w[i] # at
      BY <1>1, <1>4, <2>1
    <3>3. QED
      BY <3>1, <3>2
  <2>2. CASE i = p
    BY <1>1, <2>2
  <2>3. CASE \E j \in 1..k : i = p + j
    <3>1. PICK j \in 1..k : i = p + j
      BY <2>3
    <3>2. w[i] # at
      BY <1>1, <1>5, <3>1
    <3>3. i # p
      BY <1>2, <3>1
    <3>4. QED
      BY <3>2, <3>3
  <2>4. QED
    BY <1>6, <2>1, <2>2, <2>3
<1>8. p \in 1..p + k
  BY <1>2
<1>9. QED
  BY <1>3, <1>7, <1>8 DEF Positions, w, m

-----------------------------------------------------------------------------
(* Reading a scope                                                         *)

\* The steps of parseSAScope once the scope is trimmed.
AudienceOf(s) ==
    IF Positions(s, "@") = {} THEN <<>> ELSE Trim(After(s, Max(Positions(s, "@"))))

ReferenceOf(s) ==
    IF Positions(s, "@") = {} THEN s ELSE Trim(Before(s, Max(Positions(s, "@"))))

PartsOf(ref) ==
    IF ref # <<>> /\ ref[1] = Canonical THEN CanonicalParts(ref) ELSE ShorthandParts(ref)

\* A scope whose reference has one reading, with both parts, names that account.
LEMMA ReadAs ==
    ASSUME NEW scope, NEW x, NEW y, x # <<>>, y # <<>>,
           PartsOf(ReferenceOf(Trim(scope))) = {<<x, y>>}
    PROVE  parseSAScope(scope) = [ns |-> x, sa |-> y, aud |-> AudienceOf(Trim(scope))]
<1> DEFINE parts == PartsOf(ReferenceOf(Trim(scope)))
           valid == { p \in parts : p[1] # <<>> /\ p[2] # <<>> }
           q     == CHOOSE p \in valid : TRUE
<1>1. parseSAScope(scope) = IF valid = {} THEN None
                            ELSE [ns |-> q[1], sa |-> q[2], aud |-> AudienceOf(Trim(scope))]
  BY DEF parseSAScope, PartsOf, ReferenceOf, AudienceOf
<1>2. <<x, y>>[1] = x /\ <<x, y>>[2] = y
  OBVIOUS
<1>3. \A p : p \in valid <=> p = <<x, y>>
  <2> HIDE DEF parts
  <2>1. parts = {<<x, y>>}
    BY DEF parts
  <2>2. QED
    BY <1>2, <2>1
<1> HIDE DEF valid
<1>4. valid # {} /\ q = <<x, y>>
  BY <1>3
<1> HIDE DEF q
<1>5. QED
  BY <1>1, <1>2, <1>4

\* An audience after its reference.
AudienceTail(aud) == IF aud = <<>> THEN <<>> ELSE <<"@">> \o aud

\* The last @ ends the reference: an audience that is trimmed and holds no @ is
\* found again, and so is the reference before it.
LEMMA AudienceFoundAgain ==
    ASSUME NEW ref \in Seq(Tokens), Len(ref) > 0, Ends(ref), Without(ref, "@"),
           NEW aud \in Seq(Tokens), Trim(aud) = aud, Without(aud, "@")
    PROVE  LET s == ref \o AudienceTail(aud)
           IN  Trim(s) = s /\ AudienceOf(s) = aud /\ ReferenceOf(s) = ref
<1> DEFINE s == ref \o AudienceTail(aud)
<1>1. CASE aud = <<>>
  <2>1. s = ref
    BY <1>1, ConcatEmptySeq DEF AudienceTail
  <2> HIDE DEF s
  <2>2. Trim(s) = s
    BY <2>1, SolidTrim
  <2>3. QED
    BY <1>1, <2>1, <2>2 DEF AudienceOf, ReferenceOf, Without, s
<1>2. CASE aud # <<>>
  <2> DEFINE p == Len(ref) + 1
             k == Len(aud)
  <2>1. "@" \in Tokens
    BY DEF Tokens, Separators
  <2>2. s = ref \o (<<"@">> \o aud)
    BY <1>2 DEF AudienceTail
  <2>3. /\ s \in Seq(Tokens) /\ Len(s) = p + k /\ s[p] = "@"
        /\ \A i \in 1..Len(ref) : s[i] = ref[i]
        /\ \A i \in 1..k : s[p + i] = aud[i]
        /\ Before(s, p) = ref /\ After(s, p) = aud
    BY <2>1, <2>2, CutWhereJoined
  <2> HIDE DEF s
  <2>4. Ends(aud) /\ k > 0
    BY <1>2, TrimmedEnds
  <2>5. Len(ref) \in Nat \ {0} /\ k \in Nat \ {0}
    BY <2>4, LenProperties
  <2>6. Ends(s) /\ Len(s) > 0
    <3>1. 1 \in 1..Len(ref) /\ k \in 1..k
      BY <2>5
    <3>2. s[1] = ref[1] /\ s[Len(s)] = aud[k]
      BY <2>3, <3>1
    <3>3. QED
      BY <2>3, <2>4, <2>5, <3>2 DEF Ends
  <2>7. Trim(s) = s
    BY <2>3, <2>6, SolidTrim
  <2>8. Positions(s, "@") = {p}
    BY <2>1, <2>2, JoinedOnce
  <2>9. Max({p}) = p
    BY <2>5 DEF Max
  <2>10. Trim(ref) = ref
    BY SolidTrim
  <2>11. QED
    BY <2>3, <2>7, <2>8, <2>9, <2>10 DEF AudienceOf, ReferenceOf, s
<1>3. QED
  BY <1>1, <1>2

\* What follows the last @ holds none.
LEMMA AfterLast ==
    ASSUME NEW s \in Seq(Tokens), NEW at \in Tokens, Positions(s, at) # {}
    PROVE  /\ After(s, Max(Positions(s, at))) \in Seq(Tokens)
           /\ Without(After(s, Max(Positions(s, at))), at)
<1> DEFINE P == Positions(s, at)
           q == Max(P)
           k == Len(s)
<1>1. k \in Nat /\ DOMAIN s = 1..k
  BY LenProperties
<1>2. P \in SUBSET (1..k)
  BY <1>1 DEF Positions
<1> HIDE DEF P
<1>3. q \in P /\ \A j \in P : j <= q
  BY <1>1, <1>2, FirstAndLast DEF P
<1>4. \A i \in 1..k : s[i] = at <=> i \in P
  BY <1>1 DEF P, Positions
<1> HIDE DEF q, k
<1>5. q \in 1..k
  BY <1>2, <1>3
<1>6. /\ q + 1 \in Nat \ {0} /\ k - q \in Nat
      /\ q + 1 + (k - q) - 1 = k /\ q + 1 + (k - q) - 1 <= k
      /\ \A i \in 1..k - q : q + 1 + i - 1 = q + i
  BY <1>1, <1>5
<1>7. /\ SubSeq(s, q + 1, k) \in Seq(Tokens) /\ Len(SubSeq(s, q + 1, k)) = k - q
      /\ \A i \in 1..k - q : SubSeq(s, q + 1, k)[i] = s[q + 1 + i - 1]
  <2> DEFINE d == k - q
             n == q + 1 + d - 1
  <2>1. n = k /\ n <= Len(s) /\ d \in Nat /\ q + 1 \in Nat \ {0}
    BY <1>6 DEF k
  <2> HIDE DEF d
  <2>2. /\ SubSeq(s, q + 1, n) \in Seq(Tokens) /\ Len(SubSeq(s, q + 1, n)) = d
        /\ \A i \in 1..d : SubSeq(s, q + 1, n)[i] = s[q + 1 + i - 1]
    BY <2>1, PartFacts
  <2> HIDE DEF n
  <2>3. QED
    BY <2>1, <2>2 DEF d
<1>8. ASSUME NEW i \in 1..k - q PROVE SubSeq(s, q + 1, k)[i] # at
  <2>1. q + i \in 1..k /\ ~(q + i <= q)
    BY <1>1, <1>5
  <2>2. s[q + i] # at
    BY <1>3, <1>4, <2>1
  <2>3. QED
    BY <1>6, <1>7, <2>2
<1>9. DOMAIN SubSeq(s, q + 1, k) = 1..k - q
  BY <1>7, LenProperties
<1>10. Without(SubSeq(s, q + 1, k), at)
  BY <1>8, <1>9 DEF Without, Positions
<1>11. QED
  BY <1>7, <1>10 DEF After, P, q, k

\* The audience that is read is a trimmed text without an @.
LEMMA AudienceFacts ==
    ASSUME NEW s \in Seq(Tokens)
    PROVE  /\ AudienceOf(s) \in Seq(Tokens)
           /\ Trim(AudienceOf(s)) = AudienceOf(s) /\ Without(AudienceOf(s), "@")
<1>1. "@" \in Tokens
  BY DEF Tokens, Separators
<1>2. <<>> \in Seq(Tokens) /\ Without(<<>>, "@")
  BY DEF Without, Positions
<1>3. CASE Positions(s, "@") = {}
  BY <1>2, <1>3, TrimEmpty DEF AudienceOf
<1>4. CASE Positions(s, "@") # {}
  <2> DEFINE t == After(s, Max(Positions(s, "@")))
  <2>1. t \in Seq(Tokens) /\ Without(t, "@")
    BY <1>1, <1>4, AfterLast
  <2>2. AudienceOf(s) = Trim(t)
    BY <1>4 DEF AudienceOf
  <2> HIDE DEF t
  <2>3. Without(Trim(t), "@")
    <3>1. CASE Trim(t) = <<>>
      BY <1>2, <3>1
    <3>2. CASE Trim(t) # <<>>
      BY <2>1, <3>2, TrimmedEnds DEF Without, Positions
    <3>3. QED
      BY <3>1, <3>2
  <2>4. QED
    BY <2>1, <2>2, <2>3, TrimType, TrimOnce
<1>5. QED
  BY <1>3, <1>4

LEMMA ReadAudience ==
    ASSUME NEW scope \in Seq(Tokens), parseSAScope(scope) # None
    PROVE  parseSAScope(scope).aud = AudienceOf(Trim(scope))
<1> DEFINE parts == PartsOf(ReferenceOf(Trim(scope)))
           valid == { p \in parts : p[1] # <<>> /\ p[2] # <<>> }
           q     == CHOOSE p \in valid : TRUE
<1>1. parseSAScope(scope) = IF valid = {} THEN None
                            ELSE [ns |-> q[1], sa |-> q[2], aud |-> AudienceOf(Trim(scope))]
  BY DEF parseSAScope, PartsOf, ReferenceOf, AudienceOf
<1> HIDE DEF valid, q
<1>2. QED
  BY <1>1

-----------------------------------------------------------------------------
(* The two forms of a reference                                            *)

LEMMA NameFacts ==
    \A n \in Names : /\ n \in Tokens /\ ~White(n)
                     /\ n # "/" /\ n # ":" /\ n # "@" /\ n # Canonical
  BY NamesAssumption DEF Tokens, Separators, White

\* A name alone is a text that is trimmed already.
LEMMA NameText ==
    ASSUME NEW n \in Names
    PROVE  <<n>> \in Seq(Tokens) /\ <<n>> # <<>> /\ Trim(<<n>>) = <<n>> /\ Without(<<n>>, "@")
<1>1. n \in Tokens /\ ~White(n) /\ n # "@"
  BY NameFacts
<1>2. <<n>> \in Seq(Tokens) /\ Len(<<n>>) = 1 /\ <<n>>[1] = n /\ <<n>> # <<>>
  BY <1>1
<1>3. Ends(<<n>>)
  BY <1>1, <1>2 DEF Ends
<1>4. Trim(<<n>>) = <<n>>
  <2>1. Len(<<n>>) > 0
    BY <1>2
  <2>2. QED
    BY <1>2, <1>3, <2>1, SolidTrim
<1>5. Without(<<n>>, "@")
  BY <1>1, <1>2 DEF Without, Positions
<1>6. QED
  BY <1>2, <1>4, <1>5

Begins(s, x) == s[1] = x

\* A token between two names.
LEMMA Between ==
    ASSUME NEW n \in Names, NEW a \in Names, NEW by \in Tokens, by \notin Names, by # "@"
    PROVE  LET ref == <<n>> \o <<by>> \o <<a>>
           IN  /\ ref \in Seq(Tokens) /\ Len(ref) = 3 /\ Ends(ref) /\ Begins(ref, n)
               /\ Without(ref, "@") /\ Positions(ref, by) = {2}
               /\ Before(ref, 2) = <<n>> /\ After(ref, 2) = <<a>>
<1> DEFINE x == <<n>>
           y == <<a>>
           ref == x \o <<by>> \o y
           w == x \o (<<by>> \o y)
<1>1. n \in Tokens /\ a \in Tokens /\ ~White(n) /\ ~White(a) /\ n # "@" /\ a # "@"
  BY NameFacts
<1>2. /\ x \in Seq(Tokens) /\ Len(x) = 1 /\ x[1] = n
      /\ y \in Seq(Tokens) /\ Len(y) = 1 /\ y[1] = a
  BY <1>1
<1>3. ref = w
  OBVIOUS
<1> HIDE DEF ref, x, y
<1>4. /\ w \in Seq(Tokens) /\ Len(w) = Len(x) + 1 + Len(y) /\ w[Len(x) + 1] = by
      /\ \A i \in 1..Len(x) : w[i] = x[i]
      /\ \A i \in 1..Len(y) : w[Len(x) + 1 + i] = y[i]
      /\ Before(w, Len(x) + 1) = x /\ After(w, Len(x) + 1) = y
  BY <1>2, CutWhereJoined
<1> HIDE DEF w
<1>5. /\ ref \in Seq(Tokens) /\ Len(ref) = 3 /\ DOMAIN ref = 1..3
      /\ ref[1] = n /\ ref[2] = by /\ ref[3] = a
  BY <1>2, <1>3, <1>4
<1>6. Before(ref, 2) = x /\ After(ref, 2) = y
  BY <1>2, <1>3, <1>4
<1>7. \A i \in 1..3 : i = 1 \/ i = 2 \/ i = 3
  OBVIOUS
<1>8. Without(ref, "@")
  BY <1>1, <1>5, <1>7 DEF Without, Positions
<1>9. n # by /\ a # by
  OBVIOUS
<1>10. Positions(ref, by) = {2}
  BY <1>5, <1>7, <1>9 DEF Positions
<1>11. Ends(ref) /\ Begins(ref, n)
  BY <1>1, <1>5 DEF Ends, Begins
<1>12. QED
  BY <1>5, <1>6, <1>8, <1>10, <1>11, Zenon DEF ref, x, y

\* The same with a token before it.
LEMMA Prefixed ==
    ASSUME NEW n \in Names, NEW a \in Names, NEW by \in Tokens, by \notin Names, by # "@",
           NEW pre \in Tokens, pre # by, pre # "@", ~White(pre)
    PROVE  LET ref == <<pre>> \o <<n>> \o <<by>> \o <<a>>
           IN  /\ ref \in Seq(Tokens) /\ Len(ref) = 4 /\ Ends(ref) /\ Begins(ref, pre)
               /\ Without(ref, "@") /\ Positions(ref, by) = {3}
               /\ SubSeq(ref, 2, 3 - 1) = <<n>> /\ After(ref, 3) = <<a>>
<1> DEFINE x == <<pre>> \o <<n>>
           y == <<a>>
           ref == x \o <<by>> \o y
           w == x \o (<<by>> \o y)
<1>1. n \in Tokens /\ a \in Tokens /\ ~White(n) /\ ~White(a) /\ n # "@" /\ a # "@"
  BY NameFacts
<1>2. y \in Seq(Tokens) /\ Len(y) = 1 /\ y[1] = a
  BY <1>1
<1>3. x \in Seq(Tokens) /\ Len(x) = 2 /\ x[1] = pre /\ x[2] = n
  <2> DEFINE z == <<n>>
  <2>1. z \in Seq(Tokens) /\ Len(z) = 1 /\ z[1] = n
    BY <1>1
  <2> HIDE DEF z
  <2>2. /\ <<pre>> \o z \in Seq(Tokens) /\ Len(<<pre>> \o z) = 1 + Len(z)
        /\ (<<pre>> \o z)[1] = pre
        /\ \A i \in 1..Len(z) : (<<pre>> \o z)[1 + i] = z[i]
    BY <2>1, AddFirst, SMTT(30)
  <2>3. x = <<pre>> \o z
    BY DEF z
  <2> HIDE DEF x
  <2>4. QED
    BY <2>1, <2>2, <2>3
<1> HIDE DEF x
<1>4. ref = w
  BY <1>3, <1>2
<1> HIDE DEF ref, y
<1>5. /\ w \in Seq(Tokens) /\ Len(w) = Len(x) + 1 + Len(y) /\ w[Len(x) + 1] = by
      /\ \A i \in 1..Len(x) : w[i] = x[i]
      /\ \A i \in 1..Len(y) : w[Len(x) + 1 + i] = y[i]
      /\ Before(w, Len(x) + 1) = x /\ After(w, Len(x) + 1) = y
  <2>1. x \in Seq(Tokens) /\ y \in Seq(Tokens)
    BY <1>2, <1>3
  <2>2. QED
    BY <2>1, CutWhereJoined
<1> HIDE DEF w
<1>6. /\ ref \in Seq(Tokens) /\ Len(ref) = 4 /\ DOMAIN ref = 1..4
      /\ ref[1] = pre /\ ref[2] = n /\ ref[3] = by /\ ref[4] = a
  BY <1>2, <1>3, <1>4, <1>5
<1>7. After(ref, 3) = y
  BY <1>3, <1>4, <1>5
<1>8. \A i \in 1..4 : i = 1 \/ i = 2 \/ i = 3 \/ i = 4
  OBVIOUS
<1>9. Without(ref, "@")
  BY <1>1, <1>6, <1>8 DEF Without, Positions
<1>10. n # by /\ a # by
  OBVIOUS
<1>11. Positions(ref, by) = {3}
  BY <1>6, <1>8, <1>10 DEF Positions
<1>12. Ends(ref) /\ Begins(ref, pre)
  BY <1>1, <1>6 DEF Ends, Begins
<1>13. SubSeq(ref, 2, 3 - 1) = <<n>>
  <2> DEFINE part == SubSeq(ref, 2, 2 + 1 - 1)
  <2>1. 2 \in Nat \ {0} /\ 1 \in Nat /\ 2 + 1 - 1 <= Len(ref) /\ 2 + 1 - 1 = 3 - 1
    BY <1>6
  <2>2. part \in Seq(Tokens) /\ Len(part) = 1 /\ \A i \in 1..1 : part[i] = ref[2 + i - 1]
    BY <1>6, <2>1, PartFacts
  <2>3. part = SubSeq(ref, 2, 3 - 1)
    BY <2>1
  <2> HIDE DEF part
  <2>4. part[1] = n
    BY <1>6, <2>2
  <2>5. part = <<n>>
    BY <2>2, <2>4
  <2>6. QED
    BY <2>3, <2>5
<1>14. QED
  BY <1>6, <1>7, <1>9, <1>11, <1>12, <1>13, Zenon DEF ref, x, y

\* namespace/account
LEMMA ShorthandReference ==
    ASSUME NEW n \in Names, NEW a \in Names
    PROVE  LET ref == <<n>> \o <<"/">> \o <<a>>
           IN  /\ ref \in Seq(Tokens) /\ Len(ref) > 0 /\ Ends(ref) /\ Without(ref, "@")
               /\ PartsOf(ref) = {<< <<n>>, <<a>> >>}
<1> DEFINE ref == <<n>> \o <<"/">> \o <<a>>
<1>1. "/" \in Tokens /\ "/" \notin Names /\ "/" # "@"
  BY NamesAssumption DEF Tokens, Separators
<1>2. /\ ref \in Seq(Tokens) /\ Len(ref) = 3 /\ Ends(ref) /\ Begins(ref, n)
      /\ Without(ref, "@") /\ Positions(ref, "/") = {2}
      /\ Before(ref, 2) = <<n>> /\ After(ref, 2) = <<a>>
  BY <1>1, Between
<1> HIDE DEF ref
<1>3. ref[1] # Canonical
  BY <1>2, NameFacts DEF Begins
<1>4. ShorthandParts(ref) = {<<Trim(Before(ref, 2)), Trim(After(ref, 2))>>}
  BY <1>2 DEF ShorthandParts
<1>5. Trim(<<n>>) = <<n>> /\ Trim(<<a>>) = <<a>>
  BY NameText
<1>6. PartsOf(ref) = {<< <<n>>, <<a>> >>} /\ Len(ref) > 0
  BY <1>2, <1>3, <1>4, <1>5 DEF PartsOf
<1>7. QED
  BY <1>2, <1>6, Zenon DEF ref

\* system:serviceaccount:namespace:account
LEMMA CanonicalReference ==
    ASSUME NEW n \in Names, NEW a \in Names
    PROVE  LET ref == <<Canonical>> \o <<n>> \o <<":">> \o <<a>>
           IN  /\ ref \in Seq(Tokens) /\ Len(ref) > 0 /\ Ends(ref) /\ Without(ref, "@")
               /\ PartsOf(ref) = {<< <<n>>, <<a>> >>}
<1> DEFINE colon == ":"
           ref == <<Canonical>> \o <<n>> \o <<colon>> \o <<a>>
<1>1. colon \in Tokens /\ colon \notin Names /\ colon # "@"
  BY NamesAssumption DEF Tokens, Separators
<1>2. Canonical \in Tokens /\ Canonical # colon /\ Canonical # "@" /\ ~White(Canonical)
  BY DEF Tokens, Separators, Canonical, White
<1> HIDE DEF colon
<1>3. /\ ref \in Seq(Tokens) /\ Len(ref) = 4 /\ Ends(ref) /\ Begins(ref, Canonical)
      /\ Without(ref, "@") /\ Positions(ref, colon) = {3}
      /\ SubSeq(ref, 2, 3 - 1) = <<n>> /\ After(ref, 3) = <<a>>
  BY <1>1, <1>2, Prefixed, ZenonT(30)
<1> HIDE DEF ref
<1>4. CanonicalParts(ref) = {<<SubSeq(ref, 2, 3 - 1), After(ref, 3)>>}
  BY <1>3 DEF CanonicalParts, colon
<1>5. PartsOf(ref) = {<< <<n>>, <<a>> >>} /\ Len(ref) > 0
  <2>1. ref # <<>> /\ ref[1] = Canonical /\ Len(ref) > 0
    BY <1>3 DEF Begins
  <2>2. QED
    BY <1>3, <1>4, <2>1 DEF PartsOf
<1>6. QED
  BY <1>3, <1>5, Zenon DEF ref, colon

\* A reference with an audience after it, white space around the whole or not,
\* is read as the account it names.
LEMMA SpelledOut ==
    ASSUME NEW n \in Names, NEW a \in Names,
           NEW ref \in Seq(Tokens), Len(ref) > 0, Ends(ref), Without(ref, "@"),
           PartsOf(ref) = {<< <<n>>, <<a>> >>},
           NEW aud \in Seq(Tokens), Trim(aud) = aud, Without(aud, "@"),
           NEW scope, Trim(scope) = ref \o AudienceTail(aud)
    PROVE  parseSAScope(scope) = [ns |-> <<n>>, sa |-> <<a>>, aud |-> aud]
<1>1. AudienceOf(Trim(scope)) = aud /\ ReferenceOf(Trim(scope)) = ref
  BY AudienceFoundAgain
<1>2. <<n>> # <<>> /\ <<a>> # <<>>
  BY NameText
<1>3. QED
  BY <1>1, <1>2, ReadAs

-----------------------------------------------------------------------------
(* The two properties                                                      *)

\* The label a service-account token is listed and returned with is a scope that
\* asks for that very token again, whatever the names and the audience it was
\* minted for (cache.go:253-264, scope.go:26-58).
THEOREM LabelsAsk == Spec => []LabelAsksAgain
<1>1. IInv => LabelAsksAgain
  <2> SUFFICES ASSUME IInv, NEW r \in Calls, Aimed(r), Mintable(call[r].account)
               PROVE  parseSAScope(scopeForEntry(call[r].account)) = call[r].account
    BY DEF LabelAsksAgain
  <2> DEFINE acc == call[r].account
             scope == call[r].req.scope
  <2>1. scope \in Seq(Tokens) /\ acc \in Accounts /\ acc # None
    BY AimedFacts, RequestsAssumption DEF Mintable
  <2>2. acc = parseSAScope(scope)
    BY DEF IInv, CallInv, Aimed
  <2>3. PICK n \in Names, a \in Names : acc.ns = <<n>> /\ acc.sa = <<a>>
    BY DEF Mintable, validateK8sName
  <2> DEFINE aud == acc.aud
             ref == <<n>> \o <<"/">> \o <<a>>
  <2> HIDE DEF acc, scope
  <2>4. aud \in Seq(Tokens) /\ Trim(aud) = aud /\ Without(aud, "@")
    <3>1. aud = AudienceOf(Trim(scope)) /\ Trim(scope) \in Seq(Tokens)
      BY <2>1, <2>2, ReadAudience, TrimType
    <3> HIDE DEF aud
    <3>2. QED
      BY <3>1, AudienceFacts
  <2>5. acc = [ns |-> <<n>>, sa |-> <<a>>, aud |-> aud]
    BY <2>1, <2>3 DEF Accounts
  <2>6. scopeForEntry(acc) = ref \o AudienceTail(aud)
    BY <2>3 DEF scopeForEntry, AudienceTail
  <2>7. /\ ref \in Seq(Tokens) /\ Len(ref) > 0 /\ Ends(ref) /\ Without(ref, "@")
        /\ PartsOf(ref) = {<< <<n>>, <<a>> >>}
    BY ShorthandReference
  <2> HIDE DEF ref, aud
  <2> DEFINE label == scopeForEntry(acc)
  <2>8. Trim(label) = ref \o AudienceTail(aud)
    BY <2>4, <2>6, <2>7, AudienceFoundAgain
  <2> HIDE DEF label
  <2>9. parseSAScope(label) = [ns |-> <<n>>, sa |-> <<a>>, aud |-> aud]
    BY <2>4, <2>7, <2>8, SpelledOut, ZenonT(30)
  <2>10. QED
    BY <2>5, <2>9 DEF acc, label
<1>2. QED
  BY <1>1, Invariance, PTL

\* A scope in one of the documented forms asks for the account it names, for any
\* names and audience, and never for the user's own token (scope.go:14-25,
\* auth_handler.go:278-281).
THEOREM DocumentedScopes == Spec => []DocumentedScopesUnderstood
<1>1. IInv => DocumentedScopesUnderstood
  <2> SUFFICES ASSUME IInv, NEW r \in Calls, Aimed(r), NEW acc \in PlainAccounts,
                      Trim(call[r].req.scope) \in Spellings(acc)
               PROVE  call[r].account = acc
    BY DEF DocumentedScopesUnderstood
  <2> DEFINE scope == call[r].req.scope
             aud == acc.aud
  <2>1. call[r].account = parseSAScope(scope)
    BY DEF IInv, CallInv, Aimed
  <2>2. PICK n \in Names, a \in Names : acc.ns = <<n>> /\ acc.sa = <<a>>
    BY DEF PlainAccounts
  <2>3. acc = [ns |-> <<n>>, sa |-> <<a>>, aud |-> aud]
    BY <2>2 DEF PlainAccounts
  <2>4. aud \in Seq(Tokens) /\ Trim(aud) = aud /\ Without(aud, "@")
    <3>1. aud = <<>> \/ \E m \in Names : aud = <<m>>
      BY DEF PlainAccounts
    <3>2. <<>> \in Seq(Tokens) /\ Without(<<>>, "@")
      BY DEF Without, Positions
    <3> HIDE DEF aud
    <3>3. QED
      BY <3>1, <3>2, TrimEmpty, NameText
  <2> DEFINE short == <<n>> \o <<"/">> \o <<a>>
             canon == <<Canonical>> \o <<n>> \o <<":">> \o <<a>>
  <2>5. Trim(scope) = short \o AudienceTail(aud) \/ Trim(scope) = canon \o AudienceTail(aud)
    BY <2>2 DEF Spellings, AudienceTail
  <2>6. /\ short \in Seq(Tokens) /\ Len(short) > 0 /\ Ends(short) /\ Without(short, "@")
        /\ PartsOf(short) = {<< <<n>>, <<a>> >>}
    BY ShorthandReference
  <2>7. /\ canon \in Seq(Tokens) /\ Len(canon) > 0 /\ Ends(canon) /\ Without(canon, "@")
        /\ PartsOf(canon) = {<< <<n>>, <<a>> >>}
    BY CanonicalReference
  <2> HIDE DEF scope, aud, short, canon
  <2>8. CASE Trim(scope) = short \o AudienceTail(aud)
    <3>1. parseSAScope(scope) = [ns |-> <<n>>, sa |-> <<a>>, aud |-> aud]
      BY <2>4, <2>6, <2>8, SpelledOut
    <3>2. QED
      BY <2>1, <2>3, <3>1
  <2>9. CASE Trim(scope) = canon \o AudienceTail(aud)
    <3>1. parseSAScope(scope) = [ns |-> <<n>>, sa |-> <<a>>, aud |-> aud]
      BY <2>4, <2>7, <2>9, SpelledOut
    <3>2. QED
      BY <2>1, <2>3, <3>1
  <2>10. QED
    BY <2>5, <2>8, <2>9
<1>2. QED
  BY <1>1, Invariance, PTL
=============================================================================
