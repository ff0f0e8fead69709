---------------------------- MODULE ArchiveProofs ----------------------------
(***************************************************************************)
(* Proofs about the archive, for every set of payloads, any number of      *)
(* saves and any width of the length field: what a save copies is closed,  *)
(* whatever the handlers do between its parts, and what load_archive       *)
(* returns is what the last save wrote or an error.                        *)
(***************************************************************************)
EXTENDS Archive, CoordinatorProofs, SequenceTheorems

-----------------------------------------------------------------------------
(* Sequences *)

\* SetToSeq lists every element of a finite set once.
LEMMA SetToSeqFacts ==
  ASSUME NEW S, IsFiniteSet(S)
  PROVE  /\ Cardinality(S) \in Nat
         /\ SetToSeq(S) \in [1..Cardinality(S) -> S]
         /\ \A i, j \in 1..Cardinality(S) : SetToSeq(S)[i] = SetToSeq(S)[j] => i = j
         /\ \A x \in S : \E i \in 1..Cardinality(S) : SetToSeq(S)[i] = x
<1> DEFINE n == Cardinality(S)
<1>1. n \in Nat /\ ExistsBijection(1..n, S) BY FS_CardinalityType
<1> HIDE DEF n
<1>2. PICK g : g \in Bijection(1..n, S) BY <1>1 DEF ExistsBijection
<1>3. g \in [1..n -> S] /\ IsInjective(g) BY <1>2 DEF Bijection, Injection
<1>4. \E f \in [1..n -> S] : IsInjective(f) BY <1>3
<1>5. SetToSeq(S) = CHOOSE f \in [1..n -> S] : IsInjective(f) BY DEF SetToSeq, n
<1> DEFINE s == SetToSeq(S)
<1>6. s \in [1..n -> S] /\ IsInjective(s) BY <1>4, <1>5
<1> HIDE DEF s
<1>7. s \in Injection(1..n, S) BY <1>6 DEF Injection
<1>8. IsFiniteSet(1..n) /\ Cardinality(1..n) = n BY <1>1, FS_Interval
<1>9. Cardinality(1..n) = Cardinality(S) <=> s \in Surjection(1..n, S)
  BY <1>7, FS_Injection
<1>10. s \in Surjection(1..n, S) BY <1>8, <1>9 DEF n
<1>11. \A x \in S : \E i \in 1..n : s[i] = x BY <1>10 DEF Surjection
<1>12. \A i, j \in 1..n : s[i] = s[j] => i = j BY <1>6 DEF IsInjective
<1> QED BY <1>1, <1>6, <1>11, <1>12 DEF n, s

\* The two parts of a concatenation.
LEMMA ConcatFacts ==
  ASSUME NEW T, NEW s \in Seq(T), NEW t \in Seq(T)
  PROVE  /\ Len(s) \in Nat /\ Len(t) \in Nat
         /\ s \o t \in Seq(T)
         /\ Len(s \o t) = Len(s) + Len(t)
         /\ \A i \in 1..Len(s) : (s \o t)[i] = s[i]
         /\ \A i \in 1..Len(t) : (s \o t)[Len(s) + i] = t[i]
OBVIOUS

-----------------------------------------------------------------------------
(* The format *)

\* The contents save_archive can be given: finite maps of well-formed values,
\* each observation under its own id.
Archivable(a) ==
  /\ a = [epoch |-> a.epoch, registry |-> a.registry,
          accepted |-> a.accepted, stale |-> a.stale]
  /\ a.epoch \in Nat
  /\ RegistryOK(a.registry) /\ IsFiniteSet(DOMAIN a.registry)
  /\ a.accepted \in [DOMAIN a.accepted -> Observation]
  /\ IsFiniteSet(DOMAIN a.accepted)
  /\ \A id \in DOMAIN a.accepted : a.accepted[id].id = id
  /\ a.stale \in Seq(StaleEvidence)

BodyTokens ==
  [kind : {"magic", "version", "epoch", "count", "authority", "obs", "stale", "digests"},
   value : {"SOBS"} \cup Nat \cup (Keys \X SourceAuthority) \cup Observation
             \cup StaleEvidence \cup SUBSET Observation]
FileTokens == BodyTokens \cup [kind : {"length"}, value : Nat]
                         \cup [kind : {"sha"}, value : Seq(BodyTokens)]

\* The entries of the three lists of a body.
LEMMA ListTokens ==
  ASSUME NEW a, Archivable(a)
  PROVE  /\ Cardinality(DOMAIN a.registry) \in Nat
         /\ RegistryTokens(a.registry) \in Seq(BodyTokens)
         /\ Len(RegistryTokens(a.registry)) = Cardinality(DOMAIN a.registry)
         /\ \A i \in 1..Cardinality(DOMAIN a.registry) :
              LET k == SetToSeq(DOMAIN a.registry)[i] IN
              /\ k \in DOMAIN a.registry
              /\ RegistryTokens(a.registry)[i] = Token("authority", <<k, a.registry[k]>>)
         /\ Cardinality(DOMAIN a.accepted) \in Nat
         /\ AcceptedTokens(a.accepted) \in Seq(BodyTokens)
         /\ Len(AcceptedTokens(a.accepted)) = Cardinality(DOMAIN a.accepted)
         /\ \A i \in 1..Cardinality(DOMAIN a.accepted) :
              LET id == SetToSeq(DOMAIN a.accepted)[i] IN
              /\ id \in DOMAIN a.accepted
              /\ AcceptedTokens(a.accepted)[i] = Token("obs", a.accepted[id])
         /\ Len(a.stale) \in Nat
         /\ StaleTokens(a.stale) \in Seq(BodyTokens)
         /\ Len(StaleTokens(a.stale)) = Len(a.stale)
         /\ \A i \in 1..Len(a.stale) : StaleTokens(a.stale)[i] = Token("stale", a.stale[i])
<1> DEFINE R == DOMAIN a.registry
           A == DOMAIN a.accepted
           nr == Cardinality(R)
           na == Cardinality(A)
           ns == Len(a.stale)
           sr == SetToSeq(R)
           sa == SetToSeq(A)
<1>1. nr \in Nat /\ sr \in [1..nr -> R] BY SetToSeqFacts DEF Archivable
<1>2. na \in Nat /\ sa \in [1..na -> A] BY SetToSeqFacts DEF Archivable
<1>3. ns \in Nat /\ \A i \in 1..ns : a.stale[i] \in StaleEvidence
  BY LenProperties, ElementOfSeq DEF Archivable
<1>4. RegistryTokens(a.registry)
        = [i \in 1..nr |-> Token("authority", <<sr[i], a.registry[sr[i]]>>)]
  BY DEF RegistryTokens
<1>5. AcceptedTokens(a.accepted) = [i \in 1..na |-> Token("obs", a.accepted[sa[i]])]
  BY DEF AcceptedTokens
<1>6. StaleTokens(a.stale) = [i \in 1..ns |-> Token("stale", a.stale[i])]
  BY DEF StaleTokens
<1>7. \A k \in R : k \in Keys /\ a.registry[k] \in SourceAuthority
  BY DEF Archivable, RegistryOK
<1>8. \A id \in A : a.accepted[id] \in Observation BY DEF Archivable
<1> HIDE DEF R, A, nr, na, ns, sr, sa
<1>9. \A i \in 1..nr : Token("authority", <<sr[i], a.registry[sr[i]]>>) \in BodyTokens
  BY <1>1, <1>7 DEF Token, BodyTokens
<1>10. \A i \in 1..na : Token("obs", a.accepted[sa[i]]) \in BodyTokens
  BY <1>2, <1>8 DEF Token, BodyTokens
<1>11. \A i \in 1..ns : Token("stale", a.stale[i]) \in BodyTokens
  BY <1>3 DEF Token, BodyTokens
<1>12. RegistryTokens(a.registry) \in Seq(BodyTokens) /\ Len(RegistryTokens(a.registry)) = nr
  BY <1>1, <1>4, <1>9
<1>13. AcceptedTokens(a.accepted) \in Seq(BodyTokens) /\ Len(AcceptedTokens(a.accepted)) = na
  BY <1>2, <1>5, <1>10
<1>14. StaleTokens(a.stale) \in Seq(BodyTokens) /\ Len(StaleTokens(a.stale)) = ns
  BY <1>3, <1>6, <1>11
<1>15. \A i \in 1..nr :
         /\ sr[i] \in R
         /\ RegistryTokens(a.registry)[i] = Token("authority", <<sr[i], a.registry[sr[i]]>>)
  BY <1>1, <1>4
<1>16. \A i \in 1..na :
         sa[i] \in A /\ AcceptedTokens(a.accepted)[i] = Token("obs", a.accepted[sa[i]])
  BY <1>2, <1>5
<1>17. \A i \in 1..ns : StaleTokens(a.stale)[i] = Token("stale", a.stale[i])
  BY <1>3, <1>6
<1> QED
  BY <1>1, <1>2, <1>3, <1>12, <1>13, <1>14, <1>15, <1>16, <1>17 DEF R, A, nr, na, ns, sr, sa

\* Where each item of a body stands.
BodyLayout(a, b) ==
  LET nr == Cardinality(DOMAIN a.registry)
      na == Cardinality(DOMAIN a.accepted)
      ns == Len(a.stale)
  IN  /\ b \in Seq(BodyTokens)
      /\ Len(b) = 7 + nr + na + ns
      /\ b[1] = Token("magic", "SOBS") /\ b[2] = Token("version", 1)
      /\ b[3] = Token("epoch", a.epoch) /\ b[4] = Token("count", nr)
      /\ \A i \in 1..nr : b[4 + i] = RegistryTokens(a.registry)[i]
      /\ b[5 + nr] = Token("count", na)
      /\ \A i \in 1..na : b[5 + nr + i] = AcceptedTokens(a.accepted)[i]
      /\ b[6 + nr + na] = Token("count", ns)
      /\ \A i \in 1..ns : b[6 + nr + na + i] = StaleTokens(a.stale)[i]
      /\ b[7 + nr + na + ns] = Replay(a.accepted)

LEMMA BodyFacts ==
  ASSUME NEW a, Archivable(a)
  PROVE  BodyLayout(a, Body(a))
<1> DEFINE nr == Cardinality(DOMAIN a.registry)
           na == Cardinality(DOMAIN a.accepted)
           ns == Len(a.stale)
           h == <<Token("magic", "SOBS"), Token("version", 1), Token("epoch", a.epoch),
                  Token("count", nr)>>
           r == RegistryTokens(a.registry)
           ca == <<Token("count", na)>>
           o == AcceptedTokens(a.accepted)
           cs == <<Token("count", ns)>>
           s == StaleTokens(a.stale)
           d == <<Replay(a.accepted)>>
           T == BodyTokens
<1>1. /\ nr \in Nat /\ na \in Nat /\ ns \in Nat
      /\ r \in Seq(T) /\ Len(r) = nr
      /\ o \in Seq(T) /\ Len(o) = na
      /\ s \in Seq(T) /\ Len(s) = ns
  BY ListTokens
<1>2. Body(a) = (((((h \o r) \o ca) \o o) \o cs) \o s) \o d BY DEF Body
<1>3. /\ Token("magic", "SOBS") \in T /\ Token("version", 1) \in T
      /\ Token("epoch", a.epoch) \in T
      /\ Token("count", nr) \in T /\ Token("count", na) \in T /\ Token("count", ns) \in T
  BY <1>1 DEF Token, BodyTokens, Archivable
<1>4. Replay(a.accepted) \in T
  BY DEF Replay, Token, BodyTokens, Archivable
<1>5. /\ h \in Seq(T) /\ Len(h) = 4
      /\ h[1] = Token("magic", "SOBS") /\ h[2] = Token("version", 1)
      /\ h[3] = Token("epoch", a.epoch) /\ h[4] = Token("count", nr)
  BY <1>3
<1>6. ca \in Seq(T) /\ Len(ca) = 1 /\ ca[1] = Token("count", na) BY <1>3
<1>7. cs \in Seq(T) /\ Len(cs) = 1 /\ cs[1] = Token("count", ns) BY <1>3
<1>8. d \in Seq(T) /\ Len(d) = 1 /\ d[1] = Replay(a.accepted) BY <1>4
<1> HIDE DEF nr, na, ns, h, r, ca, o, cs, s, d, T
<1> DEFINE x1 == h \o r
           x2 == x1 \o ca
           x3 == x2 \o o
           x4 == x3 \o cs
           x5 == x4 \o s
           b == x5 \o d
<1> HIDE DEF x1, x2, x3, x4, x5, b
<1>11. /\ x1 \in Seq(T) /\ Len(x1) = 4 + nr
       /\ \A i \in 1..(4) : x1[i] = h[i]
       /\ \A i \in 1..nr : x1[4 + i] = r[i]
  <2>0. h \in Seq(T) /\ r \in Seq(T) BY <1>5, <1>1
  <2>1. /\ x1 \in Seq(T) /\ Len(x1) = Len(h) + Len(r)
        /\ \A i \in 1..Len(h) : x1[i] = h[i]
        /\ \A i \in 1..Len(r) : x1[Len(h) + i] = r[i]
    BY <2>0, ConcatFacts DEF x1
  <2> QED BY <2>1, <1>1, <1>5
<1>12. /\ x2 \in Seq(T) /\ Len(x2) = 5 + nr
       /\ \A i \in 1..(4 + nr) : x2[i] = x1[i]
       /\ x2[5 + nr] = ca[1]
  <2>0. x1 \in Seq(T) /\ ca \in Seq(T) BY <1>11, <1>6
  <2>1. /\ x2 \in Seq(T) /\ Len(x2) = Len(x1) + Len(ca)
        /\ \A i \in 1..Len(x1) : x2[i] = x1[i]
        /\ \A i \in 1..Len(ca) : x2[Len(x1) + i] = ca[i]
    BY <2>0, ConcatFacts DEF x2
  <2> QED BY <2>1, <1>1, <1>11, <1>6
<1>13. /\ x3 \in Seq(T) /\ Len(x3) = 5 + nr + na
       /\ \A i \in 1..(5 + nr) : x3[i] = x2[i]
       /\ \A i \in 1..na : x3[5 + nr + i] = o[i]
  <2>0. x2 \in Seq(T) /\ o \in Seq(T) BY <1>12, <1>1
  <2>1. /\ x3 \in Seq(T) /\ Len(x3) = Len(x2) + Len(o)
        /\ \A i \in 1..Len(x2) : x3[i] = x2[i]
        /\ \A i \in 1..Len(o) : x3[Len(x2) + i] = o[i]
    BY <2>0, ConcatFacts DEF x3
  <2> QED BY <2>1, <1>1, <1>12
<1>14. /\ x4 \in Seq(T) /\ Len(x4) = 6 + nr + na
       /\ \A i \in 1..(5 + nr + na) : x4[i] = x3[i]
       /\ x4[6 + nr + na] = cs[1]
  <2>0. x3 \in Seq(T) /\ cs \in Seq(T) BY <1>13, <1>7
  <2>1. /\ x4 \in Seq(T) /\ Len(x4) = Len(x3) + Len(cs)
        /\ \A i \in 1..Len(x3) : x4[i] = x3[i]
        /\ \A i \in 1..Len(cs) : x4[Len(x3) + i] = cs[i]
    BY <2>0, ConcatFacts DEF x4
  <2> QED BY <2>1, <1>1, <1>13, <1>7
<1>15. /\ x5 \in Seq(T) /\ Len(x5) = 6 + nr + na + ns
       /\ \A i \in 1..(6 + nr + na) : x5[i] = x4[i]
       /\ \A i \in 1..ns : x5[6 + nr + na + i] = s[i]
  <2>0. x4 \in Seq(T) /\ s \in Seq(T) BY <1>14, <1>1
  <2>1. /\ x5 \in Seq(T) /\ Len(x5) = Len(x4) + Len(s)
        /\ \A i \in 1..Len(x4) : x5[i] = x4[i]
        /\ \A i \in 1..Len(s) : x5[Len(x4) + i] = s[i]
    BY <2>0, ConcatFacts DEF x5
  <2> QED BY <2>1, <1>1, <1>14
<1>16. /\ b \in Seq(T) /\ Len(b) = 7 + nr + na + ns
       /\ \A i \in 1..(6 + nr + na + ns) : b[i] = x5[i]
       /\ b[7 + nr + na + ns] = d[1]
  <2>0. x5 \in Seq(T) /\ d \in Seq(T) BY <1>15, <1>8
  <2>1. /\ b \in Seq(T) /\ Len(b) = Len(x5) + Len(d)
        /\ \A i \in 1..Len(x5) : b[i] = x5[i]
        /\ \A i \in 1..Len(d) : b[Len(x5) + i] = d[i]
    BY <2>0, ConcatFacts DEF b
  <2> QED BY <2>1, <1>1, <1>15, <1>8
<1>17. \A i \in 1..4 : b[i] = h[i]
  <2> SUFFICES ASSUME NEW i \in 1..4 PROVE b[i] = h[i] OBVIOUS
  <2>1. /\ i \in 1..(4 + nr) /\ i \in 1..(5 + nr) /\ i \in 1..(5 + nr + na)
        /\ i \in 1..(6 + nr + na) /\ i \in 1..(6 + nr + na + ns)
    BY <1>1
  <2>2. b[i] = x3[i] BY <2>1, <1>14, <1>15, <1>16
  <2>3. x3[i] = x1[i] BY <2>1, <1>12, <1>13
  <2>4. x1[i] = h[i] BY <1>11
  <2> QED BY <2>2, <2>3, <2>4
<1>18. \A i \in 1..nr : b[4 + i] = r[i]
  <2> SUFFICES ASSUME NEW i \in 1..nr PROVE b[4 + i] = r[i] OBVIOUS
  <2>1. /\ 4 + i \in 1..(4 + nr) /\ 4 + i \in 1..(5 + nr) /\ 4 + i \in 1..(5 + nr + na)
        /\ 4 + i \in 1..(6 + nr + na) /\ 4 + i \in 1..(6 + nr + na + ns)
    BY <1>1
  <2>2. b[4 + i] = x3[4 + i] BY <2>1, <1>14, <1>15, <1>16
  <2>3. x3[4 + i] = x1[4 + i] BY <2>1, <1>12, <1>13
  <2>4. x1[4 + i] = r[i] BY <1>11
  <2> QED BY <2>2, <2>3, <2>4
<1>19. b[5 + nr] = ca[1]
  <2>1. 5 + nr \in 1..(5 + nr) /\ 5 + nr \in 1..(5 + nr + na)
        /\ 5 + nr \in 1..(6 + nr + na) /\ 5 + nr \in 1..(6 + nr + na + ns)
    BY <1>1
  <2> QED BY <2>1, <1>12, <1>13, <1>14, <1>15, <1>16
<1>20. \A i \in 1..na : b[5 + nr + i] = o[i]
  <2> SUFFICES ASSUME NEW i \in 1..na PROVE b[5 + nr + i] = o[i] OBVIOUS
  <2>1. /\ 5 + nr + i \in 1..(5 + nr + na) /\ 5 + nr + i \in 1..(6 + nr + na)
        /\ 5 + nr + i \in 1..(6 + nr + na + ns)
    BY <1>1
  <2>2. b[5 + nr + i] = x3[5 + nr + i] BY <2>1, <1>14, <1>15, <1>16
  <2>3. x3[5 + nr + i] = o[i] BY <1>13
  <2> QED BY <2>2, <2>3
<1>21. b[6 + nr + na] = cs[1]
  <2>1. 6 + nr + na \in 1..(6 + nr + na) /\ 6 + nr + na \in 1..(6 + nr + na + ns) BY <1>1
  <2> QED BY <2>1, <1>14, <1>15, <1>16
<1>22. \A i \in 1..ns : b[6 + nr + na + i] = s[i]
  <2> SUFFICES ASSUME NEW i \in 1..ns PROVE b[6 + nr + na + i] = s[i] OBVIOUS
  <2>1. 6 + nr + na + i \in 1..(6 + nr + na + ns) BY <1>1
  <2> QED BY <2>1, <1>15, <1>16
<1>23. Body(a) = b BY <1>2 DEF b, x1, x2, x3, x4, x5
<1>24. b[1] = h[1] /\ b[2] = h[2] /\ b[3] = h[3] /\ b[4] = h[4] BY <1>17
<1> QED
  BY <1>5, <1>6, <1>7, <1>8, <1>16, <1>18, <1>19, <1>20, <1>21, <1>22, <1>23, <1>24
  DEF BodyLayout, nr, na, ns, r, o, s, T

\* Where each item of a file stands.
LEMMA EncodeFacts ==
  ASSUME NEW a, Archivable(a)
  PROVE  /\ Body(a) \in Seq(BodyTokens) /\ Len(Body(a)) \in Nat /\ Len(Body(a)) >= 7
         /\ Encode(a) \in Seq(FileTokens)
         /\ Len(Encode(a)) = Len(Body(a)) + 2
         /\ Encode(a)[1] = Token("length", Len(Body(a)) % LengthMod)
         /\ \A i \in 1..Len(Body(a)) : Encode(a)[i + 1] = Body(a)[i]
         /\ Encode(a)[Len(Body(a)) + 2] = Token("sha", Body(a))
<1> DEFINE b == Body(a)
           l == <<Token("length", Len(b) % LengthMod)>>
           x == l \o b
           d == <<Token("sha", b)>>
<1>1. b \in Seq(BodyTokens) /\ Len(b) \in Nat /\ Len(b) >= 7
  <2> DEFINE nr == Cardinality(DOMAIN a.registry)
             na == Cardinality(DOMAIN a.accepted)
             ns == Len(a.stale)
  <2>1. nr \in Nat /\ na \in Nat /\ ns \in Nat BY ListTokens, Zenon
  <2>2. b \in Seq(BodyTokens) /\ Len(b) = 7 + nr + na + ns BY BodyFacts, Zenon DEF BodyLayout
  <2> HIDE DEF b, nr, na, ns
  <2> QED BY <2>1, <2>2
<1>2. Len(b) % LengthMod \in Nat BY <1>1, ArchiveAssumption, DivMod
<1>3. Encode(a) = x \o d BY DEF Encode
<1> HIDE DEF b
<1>4. b \in Seq(FileTokens) BY <1>1, SeqMonotonic DEF FileTokens
<1>5. Token("length", Len(b) % LengthMod) \in FileTokens BY <1>2 DEF Token, FileTokens
<1>6. Token("sha", b) \in FileTokens BY <1>1 DEF Token, FileTokens
<1>7. l \in Seq(FileTokens) /\ Len(l) = 1 /\ l[1] = Token("length", Len(b) % LengthMod)
  BY <1>5
<1>8. d \in Seq(FileTokens) /\ Len(d) = 1 /\ d[1] = Token("sha", b) BY <1>6
<1> HIDE DEF l, d, x
<1>9. /\ x \in Seq(FileTokens) /\ Len(x) = Len(l) + Len(b)
      /\ \A i \in 1..Len(l) : x[i] = l[i]
      /\ \A i \in 1..Len(b) : x[Len(l) + i] = b[i]
  BY <1>4, <1>7, ConcatFacts DEF x
<1>10. /\ Encode(a) \in Seq(FileTokens) /\ Len(Encode(a)) = Len(x) + Len(d)
       /\ \A i \in 1..Len(x) : Encode(a)[i] = x[i]
       /\ \A i \in 1..Len(d) : Encode(a)[Len(x) + i] = d[i]
  <2>1. x \in Seq(FileTokens) /\ d \in Seq(FileTokens) BY <1>8, <1>9
  <2> QED BY <1>3, <2>1, ConcatFacts
<1>11. Encode(a)[1] = l[1] BY <1>1, <1>7, <1>9, <1>10
<1>12. \A i \in 1..Len(b) : Encode(a)[i + 1] = b[i] BY <1>1, <1>7, <1>9, <1>10
<1>13. Encode(a)[Len(b) + 2] = d[1] BY <1>1, <1>7, <1>8, <1>9, <1>10
<1>14. Len(Encode(a)) = Len(b) + 2 BY <1>1, <1>7, <1>8, <1>9, <1>10
<1> QED BY <1>1, <1>7, <1>8, <1>10, <1>11, <1>12, <1>13, <1>14 DEF b

\* The digest stands at the end of a file and nowhere else.
LEMMA DigestLast ==
  ASSUME NEW a, Archivable(a), NEW m \in 1..Len(Encode(a)), Encode(a)[m].kind = "sha"
  PROVE  m = Len(Encode(a))
<1> DEFINE n == Len(Body(a))
<1>1. n \in Nat /\ Len(Encode(a)) = n + 2 BY EncodeFacts
<1>2. Encode(a)[1].kind = "length"
  <2>1. Encode(a)[1] = Token("length", n % LengthMod) BY EncodeFacts
  <2> QED BY <2>1 DEF Token
<1>3. \A i \in 1..n : Encode(a)[i + 1] \in BodyTokens BY EncodeFacts, ElementOfSeq
<1>4. \A i \in 1..n : Encode(a)[i + 1].kind # "sha" BY <1>3 DEF BodyTokens
<1> HIDE DEF n
<1>5. m # 1 BY <1>2
<1>6. m # n + 2 => m - 1 \in 1..n BY <1>1, <1>5
<1>7. m # n + 2 => Encode(a)[(m - 1) + 1].kind # "sha" BY <1>4, <1>6
<1>8. (m - 1) + 1 = m BY <1>1
<1> QED BY <1>1, <1>7, <1>8

\* A file or a part of it either is the whole file or does not load.
LEMMA LoadPrefix ==
  ASSUME NEW a, Archivable(a), NEW f \in Seq(FileTokens), Len(f) <= Len(Encode(a)),
         \A i \in 1..Len(f) : f[i] = Encode(a)[i]
  PROVE  /\ Load(f) = Err \/ Load(f) = ParseBody(Body(a))
         /\ Len(f) = Len(Encode(a)) /\ Len(Body(a)) < LengthMod =>
              Load(f) = ParseBody(Body(a))
<1> DEFINE m == Len(f)
           b == Body(a)
           s == SubSeq(f, 2, m - 1)
<1>1. m \in Nat OBVIOUS
<1>2. /\ b \in Seq(BodyTokens) /\ Len(b) \in Nat /\ Len(b) >= 7
      /\ Len(Encode(a)) = Len(b) + 2
      /\ Encode(a)[1] = Token("length", Len(b) % LengthMod)
      /\ \A i \in 1..Len(b) : Encode(a)[i + 1] = b[i]
      /\ Encode(a)[Len(b) + 2] = Token("sha", b)
  BY EncodeFacts
<1> HIDE DEF m, b, s
<1>3. ASSUME m = Len(b) + 2 PROVE s = b
  <2>1. \A i \in 2..(m - 1) : f[i] = b[i - 1]
    <3> SUFFICES ASSUME NEW i \in 2..(m - 1) PROVE f[i] = b[i - 1] OBVIOUS
    <3>1. i \in 1..m /\ i - 1 \in 1..Len(b) /\ (i - 1) + 1 = i BY <1>1, <1>2, <1>3
    <3>2. f[i] = Encode(a)[i] BY <3>1 DEF m
    <3>3. Encode(a)[(i - 1) + 1] = b[i - 1] BY <1>2, <3>1
    <3> QED BY <3>1, <3>2, <3>3
  <2>2. \A i \in 2..(m - 1) : f[i] \in BodyTokens
    BY <1>1, <1>2, <1>3, <2>1, ElementOfSeq
  <2>3. /\ s \in Seq(BodyTokens)
        /\ Len(s) = IF 2 <= m - 1 THEN m - 1 - 2 + 1 ELSE 0
        /\ \A i \in 1..(m - 1 - 2 + 1) : s[i] = f[2 + i - 1]
    BY <1>1, <2>2, SubSeqProperties DEF s
  <2>4. Len(s) = Len(b) BY <1>1, <1>2, <1>3, <2>3
  <2>5. \A i \in 1..Len(s) : s[i] = b[i]
    <3> SUFFICES ASSUME NEW i \in 1..Len(s) PROVE s[i] = b[i] OBVIOUS
    <3>1. i \in 1..(m - 1 - 2 + 1) /\ i + 1 \in 2..(m - 1) /\ (i + 1) - 1 = i /\ 2 + i - 1 = i + 1
      BY <1>1, <1>2, <1>3, <2>4
    <3>2. s[i] = f[i + 1] BY <2>3, <3>1
    <3>3. f[i + 1] = b[(i + 1) - 1] BY <2>1, <3>1
    <3> QED BY <3>1, <3>2, <3>3
  <2> QED BY <1>2, <2>3, <2>4, <2>5, SeqEqual
<1>4. Load(f) = IF f = <<>> THEN Err
                ELSE IF f[1].kind # "length" THEN Err
                ELSE IF m # f[1].value + 2 THEN Err
                ELSE IF f[m] # Token("sha", s) THEN Err
                ELSE ParseBody(s)
  BY DEF Load, m, s
<1>5. Load(f) = Err \/ Load(f) = ParseBody(b)
  <2> SUFFICES ASSUME f # <<>>, f[m] = Token("sha", s), Load(f) = ParseBody(s)
               PROVE  Load(f) = ParseBody(b)
    BY <1>4
  <2>1. m \in 1..Len(Encode(a)) BY <1>1 DEF m
  <2>2. Encode(a)[m].kind = "sha" BY <1>1, <2>1 DEF m, Token
  <2>3. m = Len(b) + 2 BY <1>2, <2>1, <2>2, DigestLast
  <2> QED BY <1>3, <2>3
<1>6. ASSUME m = Len(Encode(a)), Len(b) < LengthMod PROVE Load(f) = ParseBody(b)
  <2>1. m = Len(b) + 2 /\ s = b BY <1>2, <1>3, <1>6
  <2>2. Len(b) % LengthMod = Len(b)
    <3>1. LengthMod \in Nat /\ LengthMod > 0 BY ArchiveAssumption
    <3>2. \A l \in Nat : \A k \in 0..(l - 1) : l > 0 => (l * 0 + k) % l = k
      BY ModUnique
    <3>3. Len(b) \in 0..(LengthMod - 1) BY <3>1, <1>2, <1>6
    <3>4. (LengthMod * 0 + Len(b)) % LengthMod = Len(b) BY <3>1, <3>2, <3>3
    <3> QED BY <3>1, <3>4, <1>2
  <2>3. 1 \in 1..m /\ m \in 1..m BY <1>2, <2>1
  <2>4. f[1] = Token("length", Len(b)) /\ f[m] = Token("sha", s)
    BY <1>2, <2>1, <2>2, <2>3 DEF m
  <2>5. f # <<>> BY <1>2, <2>1 DEF m
  <2>6. f[1].kind = "length" /\ f[1].value = Len(b) BY <2>4 DEF Token
  <2> QED BY <1>4, <2>1, <2>4, <2>5, <2>6
<1> QED BY <1>5, <1>6 DEF m, b

\* No damage makes load_archive return anything but the body that was written.
LEMMA LoadDamaged ==
  ASSUME NEW a, Archivable(a), NEW n \in 0..Len(Encode(a)),
         NEW f \in Damaged(SubSeq(Encode(a), 1, n))
  PROVE  Load(f) = Err \/ Load(f) = ParseBody(Body(a))
<1> DEFINE E == Encode(a)
           g == SubSeq(E, 1, n)
           b == Body(a)
<1>1. /\ b \in Seq(BodyTokens) /\ Len(b) \in Nat
      /\ E \in Seq(FileTokens) /\ Len(E) = Len(b) + 2
      /\ \A i \in 1..Len(b) : E[i + 1] = b[i]
      /\ E[Len(b) + 2] = Token("sha", b)
  BY EncodeFacts
<1> HIDE DEF E, b
<1>2. n \in Nat /\ n <= Len(E) BY <1>1 DEF E
<1>3. \A i \in 1..n : E[i] \in FileTokens BY <1>1, <1>2, ElementOfSeq
<1>4. /\ g \in Seq(FileTokens)
      /\ Len(g) = IF 1 <= n THEN n - 1 + 1 ELSE 0
      /\ \A i \in 1..(n - 1 + 1) : g[i] = E[1 + i - 1]
  BY <1>2, <1>3, SubSeqProperties
<1> HIDE DEF g
<1>5. Len(g) = n /\ \A i \in 1..n : g[i] = E[i] BY <1>2, <1>4
<1>6. CASE f = g BY <1>2, <1>4, <1>5, <1>6, LoadPrefix DEF E
<1>7. ASSUME NEW i \in 1..n, f = SubSeq(g, 1, i - 1)
      PROVE  Load(f) = Err \/ Load(f) = ParseBody(b)
  <2>1. \A j \in 1..(i - 1) : g[j] \in FileTokens BY <1>2, <1>3, <1>5
  <2>2. /\ f \in Seq(FileTokens)
        /\ Len(f) = IF 1 <= i - 1 THEN i - 1 - 1 + 1 ELSE 0
        /\ \A j \in 1..(i - 1 - 1 + 1) : f[j] = g[1 + j - 1]
    BY <1>2, <1>7, <2>1, SubSeqProperties
  <2>3. Len(f) = i - 1 /\ \A j \in 1..(i - 1) : f[j] = E[j]
    BY <1>2, <1>5, <2>2
  <2> QED BY <1>2, <2>2, <2>3, LoadPrefix DEF E, b
<1>8. ASSUME NEW i \in 1..n, f = [g EXCEPT ![i] = Token("damaged", 0)]
      PROVE  Load(f) = Err
  <2>1. /\ Len(f) = n /\ f # <<>> /\ f[i].kind = "damaged"
        /\ \A j \in 1..n : j # i => f[j] = E[j]
    BY <1>2, <1>4, <1>5, <1>8 DEF Token
  <2> DEFINE s == SubSeq(f, 2, n - 1)
  <2> SUFFICES ASSUME f[1].kind = "length", f[n] = Token("sha", s) PROVE FALSE
    BY <2>1 DEF Load
  <2> HIDE DEF s
  <2>2. f[n].kind = "sha" /\ n \in 1..n BY <1>2 DEF Token
  <2>3. i # n /\ E[n].kind = "sha" BY <2>1, <2>2
  <2>4. n = Len(b) + 2 BY <1>1, <1>2, <2>2, <2>3, DigestLast DEF E
  <2>5. s = b
    <3>1. E[n] = Token("sha", b) /\ f[n] = E[n] BY <1>1, <2>1, <2>2, <2>3, <2>4
    <3>2. Token("sha", b) = Token("sha", s) BY <3>1
    <3> QED BY <3>2 DEF Token
  <2>6. i \in 2..(n - 1) BY <1>2, <2>1, <2>3
  <2> DEFINE T == FileTokens \cup {Token("damaged", 0)}
  <2>7. \A j \in 2..(n - 1) : f[j] \in T
    <3> SUFFICES ASSUME NEW j \in 2..(n - 1) PROVE f[j] \in T OBVIOUS
    <3>1. j \in 1..n BY <1>2
    <3>2. g[j] \in FileTokens BY <1>3, <1>5, <3>1
    <3> QED BY <1>4, <1>5, <1>8, <3>1, <3>2
  <2> HIDE DEF T
  <2>8. \A j \in 1..(n - 1 - 2 + 1) : s[j] = f[2 + j - 1]
    BY <1>2, <2>7, SubSeqProperties DEF s
  <2>9. i - 1 \in 1..(n - 1 - 2 + 1) /\ 2 + (i - 1) - 1 = i /\ i - 1 \in 1..Len(b)
    BY <1>1, <1>2, <2>4, <2>6
  <2>10. s[i - 1] = f[i] BY <2>8, <2>9
  <2>11. b[i - 1] \in BodyTokens BY <1>1, <2>9, ElementOfSeq
  <2>12. b[i - 1].kind # "damaged" BY <2>11 DEF BodyTokens
  <2> QED BY <2>1, <2>5, <2>10, <2>12
<1>9. \/ f = g
      \/ \E i \in 1..n : f = [g EXCEPT ![i] = Token("damaged", 0)]
      \/ \E i \in 1..n : f = SubSeq(g, 1, i - 1)
  BY <1>5 DEF Damaged, g, E
<1> QED BY <1>6, <1>7, <1>8, <1>9 DEF b

\* The maps ParseBody builds from the entries it reads.
AcceptedRead(obs, n) ==
  [id \in {obs[i].value.id : i \in 1..n} |->
     (CHOOSE t \in ToSet(obs) : t.value.id = id).value]
RegistryRead(b, n) ==
  [k \in {b[i].value[1] : i \in 5..(4 + n)} |->
     (CHOOSE t \in {b[i] : i \in 5..(4 + n)} : t.value[1] = k).value[2]]

\* The reader finds the accepted evidence the writer was given.
LEMMA ReadAccepted ==
  ASSUME NEW a, Archivable(a), NEW obs, NEW n, n = Cardinality(DOMAIN a.accepted),
         obs \in Seq(BodyTokens), Len(obs) = n,
         \A i \in 1..n : obs[i] = AcceptedTokens(a.accepted)[i]
  PROVE  AcceptedRead(obs, n) = a.accepted
<1> DEFINE A == DOMAIN a.accepted
           s == SetToSeq(A)
<1>1. n \in Nat /\ s \in [1..n -> A] /\ \A id \in A : \E i \in 1..n : s[i] = id
  BY SetToSeqFacts DEF Archivable
<1>2. \A id \in A : a.accepted[id].id = id BY DEF Archivable
<1>3. \A i \in 1..n : s[i] \in A /\ obs[i] = Token("obs", a.accepted[s[i]])
  BY <1>1, ListTokens
<1>4. a.accepted = [id \in A |-> a.accepted[id]] BY DEF Archivable
<1>5. DOMAIN obs = 1..n BY LenProperties
<1> HIDE DEF A, s
<1>6. \A i \in 1..n : obs[i].value = a.accepted[s[i]] /\ obs[i].value.id = s[i]
  BY <1>2, <1>3 DEF Token
<1>7. {obs[i].value.id : i \in 1..n} = A BY <1>1, <1>3, <1>6
<1>8. ASSUME NEW id \in A
      PROVE  (CHOOSE t \in ToSet(obs) : t.value.id = id).value = a.accepted[id]
  <2> DEFINE t0 == CHOOSE t \in ToSet(obs) : t.value.id = id
  <2>1. PICK i \in 1..n : s[i] = id BY <1>1
  <2>2. obs[i] \in ToSet(obs) /\ obs[i].value.id = id BY <1>5, <1>6, <2>1 DEF ToSet
  <2>3. t0 \in ToSet(obs) /\ t0.value.id = id BY <2>2
  <2> HIDE DEF t0
  <2>4. PICK j \in 1..n : t0 = obs[j] BY <1>5, <2>3 DEF ToSet
  <2>5. t0.value = a.accepted[id] BY <1>6, <2>3, <2>4
  <2> QED BY <2>5 DEF t0
<1> QED BY <1>4, <1>7, <1>8 DEF AcceptedRead

\* The reader finds the authorities the writer was given.
LEMMA ReadRegistry ==
  ASSUME NEW a, Archivable(a), NEW b, NEW n, n = Cardinality(DOMAIN a.registry),
         \A i \in 1..n : b[4 + i] = RegistryTokens(a.registry)[i]
  PROVE  RegistryRead(b, n) = a.registry
<1> DEFINE R == DOMAIN a.registry
           s == SetToSeq(R)
           I == 5..(4 + n)
<1>1. n \in Nat /\ s \in [1..n -> R] /\ \A k \in R : \E i \in 1..n : s[i] = k
  BY SetToSeqFacts DEF Archivable
<1>2. \A i \in 1..n : s[i] \in R /\ b[4 + i] = Token("authority", <<s[i], a.registry[s[i]]>>)
  BY <1>1, ListTokens
<1>3. a.registry = [k \in R |-> a.registry[k]] BY DEF Archivable, RegistryOK
<1> HIDE DEF R, s
<1>4. \A i \in I : i - 4 \in 1..n /\ 4 + (i - 4) = i BY <1>1
<1>5. \A i \in 1..n : 4 + i \in I BY <1>1
<1> HIDE DEF I
<1>6. \A i \in 1..n : b[4 + i].value[1] = s[i] /\ b[4 + i].value[2] = a.registry[s[i]]
  <2> SUFFICES ASSUME NEW i \in 1..n
               PROVE  b[4 + i].value[1] = s[i] /\ b[4 + i].value[2] = a.registry[s[i]]
    OBVIOUS
  <2>1. b[4 + i] = Token("authority", <<s[i], a.registry[s[i]]>>) BY <1>2
  <2>2. b[4 + i].value = <<s[i], a.registry[s[i]]>> BY <2>1 DEF Token
  <2> QED BY <2>2
<1>7. {b[i].value[1] : i \in I} = R
  <2>1. ASSUME NEW i \in I PROVE b[i].value[1] \in R
    <3>1. i - 4 \in 1..n /\ 4 + (i - 4) = i BY <1>4
    <3>2. b[4 + (i - 4)].value[1] = s[i - 4] /\ s[i - 4] \in R BY <1>2, <1>6, <3>1
    <3> QED BY <3>1, <3>2
  <2>2. ASSUME NEW k \in R PROVE \E i \in I : b[i].value[1] = k BY <1>1, <1>5, <1>6
  <2> QED BY <2>1, <2>2
<1>8. ASSUME NEW k \in R
      PROVE  (CHOOSE t \in {b[i] : i \in I} : t.value[1] = k).value[2] = a.registry[k]
  <2> DEFINE t0 == CHOOSE t \in {b[i] : i \in I} : t.value[1] = k
  <2>1. PICK i \in 1..n : s[i] = k BY <1>1
  <2>2. b[4 + i] \in {b[j] : j \in I} /\ b[4 + i].value[1] = k BY <1>5, <1>6, <2>1
  <2>3. t0 \in {b[j] : j \in I} /\ t0.value[1] = k BY <2>2
  <2> HIDE DEF t0
  <2>4. PICK j \in I : t0 = b[j] BY <2>3
  <2>5. j - 4 \in 1..n /\ t0 = b[4 + (j - 4)] BY <1>4, <2>4
  <2>6. t0.value[2] = a.registry[k] BY <1>6, <2>3, <2>5
  <2> QED BY <2>6 DEF t0
<1>9. [k \in {b[i].value[1] : i \in I} |->
            (CHOOSE t \in {b[i] : i \in I} : t.value[1] = k).value[2]] = a.registry
  BY <1>3, <1>7, <1>8
<1> QED BY <1>9 DEF I, RegistryRead

\* Reading a body gives back every item it was made from, or an error; an
\* error only if an observation does not decode.
LEMMA RoundTrip ==
  ASSUME NEW a, Archivable(a)
  PROVE  /\ ParseBody(Body(a)) = Err \/ ParseBody(Body(a)) = a
         /\ Unreadable = {} => ParseBody(Body(a)) = a
<1> DEFINE b == Body(a)
           nr == Cardinality(DOMAIN a.registry)
           na == Cardinality(DOMAIN a.accepted)
           ns == Len(a.stale)
           obs == SubSeq(b, 6 + nr, 5 + nr + na)
           hist == SubSeq(b, 7 + nr + na, 6 + nr + na + ns)
           acc == AcceptedRead(obs, na)
           reg == RegistryRead(b, nr)
           old == [i \in 1..ns |-> hist[i].value]
           bad == \/ b[1] # Token("magic", "SOBS")
                  \/ b[2] # Token("version", 1)
                  \/ ~EntriesOK(b, 5, nr, "authority")
                  \/ ~EntriesOK(b, 6 + nr, na, "obs")
                  \/ \E i \in 1..na : ~Decodable(obs[i].value)
                  \/ Cardinality(DOMAIN acc) # na
                  \/ ~EntriesOK(b, 7 + nr + na, ns, "stale")
                  \/ \E i \in 1..ns : ~Decodable(hist[i].value.obs)
                  \/ Len(b) # 7 + nr + na + ns
                  \/ b[Len(b)] # Replay(acc)
<1>1. /\ nr \in Nat /\ na \in Nat /\ ns \in Nat
      /\ b \in Seq(BodyTokens) /\ Len(b) = 7 + nr + na + ns
      /\ b[1] = Token("magic", "SOBS") /\ b[2] = Token("version", 1)
      /\ b[3] = Token("epoch", a.epoch) /\ b[4] = Token("count", nr)
      /\ b[5 + nr] = Token("count", na)
      /\ b[6 + nr + na] = Token("count", ns)
      /\ b[7 + nr + na + ns] = Replay(a.accepted)
  BY BodyFacts, ListTokens DEF BodyLayout
<1>2. \A i \in 1..nr : b[4 + i] = RegistryTokens(a.registry)[i] BY BodyFacts DEF BodyLayout
<1>3. \A i \in 1..na : b[5 + nr + i] = AcceptedTokens(a.accepted)[i] BY BodyFacts DEF BodyLayout
<1>4. \A i \in 1..ns : b[6 + nr + na + i] = StaleTokens(a.stale)[i] BY BodyFacts DEF BodyLayout
<1>5. b[4].value = nr /\ b[5 + nr].value = na /\ b[6 + nr + na].value = ns /\ b[3].value = a.epoch
  BY <1>1 DEF Token
<1>6. ParseBody(b) = IF bad THEN Err
                     ELSE [epoch |-> b[3].value, registry |-> reg, accepted |-> acc, stale |-> old]
  BY <1>5 DEF ParseBody, AcceptedRead, RegistryRead
<1>7. reg = a.registry BY <1>2, ReadRegistry
<1>8. a.stale \in [1..ns -> StaleEvidence] BY LenProperties DEF Archivable
<1>9. a = [epoch |-> a.epoch, registry |-> a.registry, accepted |-> a.accepted, stale |-> a.stale]
  BY DEF Archivable
<1>10. \A i \in 1..nr : b[4 + i].kind = "authority"
  <2> SUFFICES ASSUME NEW i \in 1..nr PROVE b[4 + i].kind = "authority" OBVIOUS
  <2> DEFINE k == SetToSeq(DOMAIN a.registry)[i]
  <2>1. RegistryTokens(a.registry)[i] = Token("authority", <<k, a.registry[k]>>)
    BY ListTokens
  <2>2. b[4 + i] = RegistryTokens(a.registry)[i] BY <1>2
  <2> QED BY <2>1, <2>2 DEF Token
<1>11. \A i \in 1..na : b[5 + nr + i].kind = "obs"
  <2> SUFFICES ASSUME NEW i \in 1..na PROVE b[5 + nr + i].kind = "obs" OBVIOUS
  <2>1. \E v : b[5 + nr + i] = Token("obs", v) BY <1>3, ListTokens
  <2> QED BY <2>1 DEF Token
<1>12. \A i \in 1..ns : b[6 + nr + na + i].kind = "stale" /\ b[6 + nr + na + i].value = a.stale[i]
  <2> SUFFICES ASSUME NEW i \in 1..ns
               PROVE  b[6 + nr + na + i].kind = "stale" /\ b[6 + nr + na + i].value = a.stale[i]
    OBVIOUS
  <2>1. b[6 + nr + na + i] = Token("stale", a.stale[i]) BY <1>4, ListTokens
  <2> QED BY <2>1 DEF Token
<1>13. Cardinality(DOMAIN a.accepted) = na OBVIOUS
<1> HIDE DEF b, nr, na, ns
<1>14. obs \in Seq(BodyTokens) /\ Len(obs) = na /\ \A i \in 1..na : obs[i] = b[5 + nr + i]
  <2>1. \A i \in (6 + nr)..(5 + nr + na) : i \in 1..Len(b) BY <1>1
  <2>2. \A i \in (6 + nr)..(5 + nr + na) : b[i] \in BodyTokens
    BY <1>1, <2>1, ElementOfSeq
  <2>3. 6 + nr \in Int /\ 5 + nr + na \in Int BY <1>1
  <2>4. /\ obs \in Seq(BodyTokens)
        /\ Len(obs) = IF 6 + nr <= 5 + nr + na THEN (5 + nr + na) - (6 + nr) + 1 ELSE 0
        /\ \A i \in 1..((5 + nr + na) - (6 + nr) + 1) : obs[i] = b[6 + nr + i - 1]
    BY <2>2, <2>3, SubSeqProperties
  <2>5. Len(obs) = na /\ (5 + nr + na) - (6 + nr) + 1 = na BY <1>1, <2>4
  <2>6. \A i \in 1..na : 6 + nr + i - 1 = 5 + nr + i BY <1>1
  <2> QED BY <2>4, <2>5, <2>6
<1>15. \A i \in 1..ns : hist[i] = b[6 + nr + na + i]
  <2>1. \A i \in (7 + nr + na)..(6 + nr + na + ns) : i \in 1..Len(b) BY <1>1
  <2>2. \A i \in (7 + nr + na)..(6 + nr + na + ns) : b[i] \in BodyTokens
    BY <1>1, <2>1, ElementOfSeq
  <2>3. 7 + nr + na \in Int /\ 6 + nr + na + ns \in Int BY <1>1
  <2>4. \A i \in 1..((6 + nr + na + ns) - (7 + nr + na) + 1) : hist[i] = b[7 + nr + na + i - 1]
    BY <2>2, <2>3, SubSeqProperties
  <2>5. (6 + nr + na + ns) - (7 + nr + na) + 1 = ns BY <1>1
  <2>6. \A i \in 1..ns : 7 + nr + na + i - 1 = 6 + nr + na + i BY <1>1
  <2> QED BY <2>4, <2>5, <2>6
<1> HIDE DEF obs, hist
<1>16. acc = a.accepted BY <1>3, <1>13, <1>14, ReadAccepted
<1>17. old = a.stale
  <2>1. \A i \in 1..ns : hist[i].value = a.stale[i] BY <1>12, <1>15
  <2>2. a.stale = [i \in 1..ns |-> a.stale[i]] BY <1>8
  <2> QED BY <2>1, <2>2
<1> HIDE DEF acc, reg, old
<1>18. EntriesOK(b, 5, nr, "authority") /\ EntriesOK(b, 6 + nr, na, "obs")
       /\ EntriesOK(b, 7 + nr + na, ns, "stale")
  <2>1. /\ \A i \in 5..(5 + nr - 1) : i - 4 \in 1..nr /\ 4 + (i - 4) = i
        /\ \A i \in (6 + nr)..(6 + nr + na - 1) : i - (5 + nr) \in 1..na /\ 5 + nr + (i - (5 + nr)) = i
        /\ \A i \in (7 + nr + na)..(7 + nr + na + ns - 1) :
             i - (6 + nr + na) \in 1..ns /\ 6 + nr + na + (i - (6 + nr + na)) = i
    BY <1>1
  <2>2. \A i \in 5..(5 + nr - 1) : b[i].kind = "authority" BY <1>10, <2>1
  <2>3. \A i \in (6 + nr)..(6 + nr + na - 1) : b[i].kind = "obs" BY <1>11, <2>1
  <2>4. \A i \in (7 + nr + na)..(7 + nr + na + ns - 1) : b[i].kind = "stale" BY <1>12, <2>1
  <2>5. /\ 5 + nr - 1 <= Len(b) /\ 6 + nr + na - 1 <= Len(b) /\ 7 + nr + na + ns - 1 <= Len(b)
    <3>1. Len(b) = 7 + nr + na + ns /\ nr \in Nat /\ na \in Nat /\ ns \in Nat BY <1>1
    <3> HIDE DEF b, nr, na, ns
    <3> QED BY <3>1
  <2> QED BY <2>2, <2>3, <2>4, <2>5 DEF EntriesOK
<1>19. Unreadable = {} => ~bad
  BY <1>1, <1>13, <1>16, <1>18 DEF Decodable
<1>20. ParseBody(b) = Err \/ ParseBody(b) = a BY <1>5, <1>6, <1>7, <1>9, <1>16, <1>17
<1>21. Unreadable = {} => ParseBody(b) = a
  BY <1>5, <1>6, <1>7, <1>9, <1>16, <1>17, <1>19
<1> QED BY <1>20, <1>21 DEF b

-----------------------------------------------------------------------------
(* The inductive invariant.  SnapshotClosed and LoadSound speak of the copy  *)
(* and of the file only; what makes them inductive is what the live          *)
(* coordinator shows at each moment between two parts of the copy, and which *)
(* part of the encoding of `written` the file holds.                         *)

\* The evidence shows how far each authority of reg got.
Shown(reg, acc) ==
  \A k \in DOMAIN reg :
    reg[k].last_seq # 0 =>
      \E id \in DOMAIN acc : /\ acc[id].key = k
                             /\ acc[id].boot = reg[k].boot
                             /\ acc[id].seq = reg[k].last_seq

\* The evidence holds the original of every duplicate in the history.
Originals(hist, acc) ==
  \A i \in 1..Len(hist) :
    hist[i].reason = "DUPLICATE_ID" => hist[i].obs.id \in DOMAIN acc

\* The coordinator is closed at any moment.
EvidenceInv ==
  /\ IsFiniteSet(DOMAIN registry)
  /\ \A id \in DOMAIN accepted : accepted[id].id = id
  /\ Shown(registry, accepted)
  /\ Originals(stale, accepted)

\* The parts copied so far are closed over the evidence that is copied last.
SnapInv ==
  /\ saver \in {"idle", "registry", "stale", "accepted", "open", "write", "close"}
  /\ Archivable(snap)
  /\ saver \in {"stale", "accepted"} => Shown(snap.registry, accepted)
  /\ saver = "accepted" => Originals(snap.stale, accepted)
  /\ saver \in {"open", "write", "close"} =>
       Shown(snap.registry, snap.accepted) /\ Originals(snap.stale, snap.accepted)

\* The file is the encoding of what was written, as far as it got.
FileInv ==
  /\ Archivable(written)
  /\ \E n \in 0..Len(Encode(written)) : file = SubSeq(Encode(written), 1, n)
  /\ saver = "write" => file = <<>>
  /\ saver = "close" => file \o pending = Encode(written)
  /\ saver = "idle" /\ result = "Ok" /\ ~faulty => file = Encode(written)

ArchiveInv == Inv /\ EvidenceInv /\ SnapInv /\ FileInv

-----------------------------------------------------------------------------
(* The coordinator keeps its evidence closed *)

\* Evidence is added to, never taken away or rewritten.
Grows(old, new) == \A id \in DOMAIN old : id \in DOMAIN new /\ new[id] = old[id]

LEMMA ShownGrows ==
  ASSUME NEW reg, NEW old, NEW new, Shown(reg, old), Grows(old, new)
  PROVE  Shown(reg, new)
BY DEF Shown, Grows

LEMMA OriginalsGrow ==
  ASSUME NEW hist, NEW old, NEW new, Originals(hist, old), Grows(old, new)
  PROVE  Originals(hist, new)
BY DEF Originals, Grows

\* Insertion into the registry, where the evidence shows the new authority.
LEMMA ShownPut ==
  ASSUME NEW reg, NEW acc, NEW k, NEW a, Shown(reg, acc),
         a.last_seq # 0 => \E id \in DOMAIN acc : /\ acc[id].key = k
                                                  /\ acc[id].boot = a.boot
                                                  /\ acc[id].seq = a.last_seq
  PROVE  Shown(Put(reg, k, a), acc)
BY DEF Shown, Put

\* register_source keeps last_seq and boot, or starts again from zero.
LEMMA HelloEvidence ==
  ASSUME Inv, EvidenceInv, NEW h \in Hellos, RegisterHello(h)
  PROVE  EvidenceInv' /\ Grows(accepted, accepted')
<1> DEFINE a == IF SameBoot(registry, h) THEN [registry[h.key] EXCEPT !.epoch = h.epoch]
                ELSE FreshAuthority(registry, h)
<1>1. registry' = Put(registry, h.key, a) /\ UNCHANGED evidence
  BY DEF RegisterHello, RegisterSource
<1>2. /\ Shown(registry, accepted)
      /\ IsFiniteSet(DOMAIN registry)
      /\ \A k \in DOMAIN registry : registry[k] \in SourceAuthority
  BY DEF EvidenceInv, Inv, TypeOK
<1>3. a.last_seq # 0 => /\ h.key \in DOMAIN registry
                        /\ a.last_seq = registry[h.key].last_seq
                        /\ a.boot = registry[h.key].boot
  BY <1>2 DEF SameBoot, FreshAuthority, SourceAuthority
<1> HIDE DEF a
<1>4. Shown(registry', accepted)
  <2>1. a.last_seq # 0 => \E id \in DOMAIN accepted : /\ accepted[id].key = h.key
                                                      /\ accepted[id].boot = a.boot
                                                      /\ accepted[id].seq = a.last_seq
    BY <1>2, <1>3 DEF Shown
  <2> QED BY <1>1, <1>2, <2>1, ShownPut
<1>5. IsFiniteSet(DOMAIN registry')
  <2>1. DOMAIN registry' = DOMAIN registry \cup {h.key} BY <1>1 DEF Put
  <2> QED BY <1>2, <2>1, FS_AddElement
<1>6. accepted' = accepted /\ stale' = stale BY <1>1 DEF evidence
<1> QED BY <1>4, <1>5, <1>6 DEF EvidenceInv, Grows

\* Retaining a rejected observation: a duplicate has its original.
LEMMA RetainEvidence ==
  ASSUME Inv, EvidenceInv, NEW o \in Observation, NEW reason \in Reasons,
         Retain(o, reason), reason = "DUPLICATE_ID" => o.id \in DOMAIN accepted,
         UNCHANGED <<registry, accepted>>
  PROVE  EvidenceInv' /\ Grows(accepted, accepted')
<1> DEFINE e == [obs |-> o, reason |-> reason]
<1>1. stale \in Seq(StaleEvidence) /\ e \in StaleEvidence /\ stale' = Append(stale, e)
  BY DEF Inv, TypeOK, Retain, StaleEvidence
<1>2. e.obs = o /\ e.reason = reason OBVIOUS
<1> HIDE DEF e
<1>3. /\ Len(stale') = Len(stale) + 1 /\ Len(stale) \in Nat
      /\ \A i \in 1..Len(stale) : stale'[i] = stale[i]
      /\ stale'[Len(stale) + 1] = e
  BY <1>1, AppendFacts
<1>4. Originals(stale', accepted)
  <2> SUFFICES ASSUME NEW i \in 1..Len(stale'), stale'[i].reason = "DUPLICATE_ID"
               PROVE  stale'[i].obs.id \in DOMAIN accepted
    BY DEF Originals
  <2>1. CASE i \in 1..Len(stale) BY <2>1, <1>3 DEF EvidenceInv, Originals
  <2>2. CASE i = Len(stale) + 1 BY <2>2, <1>2, <1>3
  <2> QED BY <2>1, <2>2, <1>3
<1> QED BY <1>4 DEF EvidenceInv, Grows, Shown

\* Acceptance: last_seq advances to the observation that is inserted.
LEMMA AcceptEvidence ==
  ASSUME Inv, EvidenceInv, NEW o \in Observation, IngestAccepted(o)
  PROVE  EvidenceInv' /\ Grows(accepted, accepted')
<1> DEFINE old == registry[o.key]
           s == IF o.seq > old.last_seq THEN o.seq ELSE old.last_seq
           a == [old EXCEPT !.last_seq = s,
                            !.last_obs_ts = OrKeep(o.obs_ts, old.last_obs_ts),
                            !.health = OrKeep(o.health, old.health)]
<1>1. RegistryOK(registry) BY DEF Inv, TypeOK, RegistryOK
<1>2. /\ o.key \in DOMAIN registry /\ o.boot = old.boot
      /\ o.seq > old.last_seq \/ (o.seq = 0 /\ old.last_seq = 0)
  BY <1>1, AcceptedDecision DEF IngestAccepted
<1>3. old \in SourceAuthority BY <1>1, <1>2 DEF RegistryOK
<1>4. registry' = Put(registry, o.key, a)
  BY <1>3 DEF IngestAccepted, Advance, SourceAuthority
<1>5. a.boot = o.boot /\ a.last_seq = s BY <1>2, <1>3 DEF SourceAuthority
<1>6. s = o.seq BY <1>2, <1>3 DEF SourceAuthority, Observation
<1> HIDE DEF a, old, s
<1>7. /\ o.id \notin DOMAIN accepted
      /\ DOMAIN accepted' = DOMAIN accepted \cup {o.id}
      /\ accepted'[o.id] = o
      /\ \A id \in DOMAIN accepted : accepted'[id] = accepted[id]
      /\ stale' = stale
  BY DEF IngestAccepted, Put
<1>8. Grows(accepted, accepted') BY <1>7 DEF Grows
<1>9. Shown(registry, accepted') /\ Originals(stale', accepted')
  BY <1>7, <1>8, ShownGrows, OriginalsGrow DEF EvidenceInv
<1>10. Shown(registry', accepted')
  <2>1. \E id \in DOMAIN accepted' : /\ accepted'[id].key = o.key
                                     /\ accepted'[id].boot = a.boot
                                     /\ accepted'[id].seq = a.last_seq
    BY <1>5, <1>6, <1>7
  <2> QED BY <1>4, <1>9, <2>1, ShownPut
<1>11. IsFiniteSet(DOMAIN registry')
  <2>1. DOMAIN registry' = DOMAIN registry \cup {o.key} BY <1>4 DEF Put
  <2> QED BY <2>1, FS_AddElement DEF EvidenceInv
<1>12. \A id \in DOMAIN accepted' : accepted'[id].id = id BY <1>7 DEF EvidenceInv
<1> QED BY <1>8, <1>9, <1>10, <1>11, <1>12 DEF EvidenceInv

\* Whatever a handler does, the evidence stays closed and only grows.
LEMMA HandlerEvidence ==
  ASSUME Inv, EvidenceInv, CoordinatorStep
  PROVE  EvidenceInv' /\ Grows(accepted, accepted')
<1>1. ASSUME NEW h \in Hellos, RegisterHello(h)
      PROVE  EvidenceInv' /\ Grows(accepted, accepted')
  BY <1>1, HelloEvidence
<1>2. ASSUME NEW o \in Observations, Ingest(o)
      PROVE  EvidenceInv' /\ Grows(accepted, accepted')
  <2>1. o \in Observation BY PayloadAssumption
  <2>2. CASE IngestDuplicate(o)
    <3>1. "DUPLICATE_ID" \in Reasons BY DEF Reasons
    <3> QED BY <2>1, <2>2, <3>1, RetainEvidence DEF IngestDuplicate
  <2>3. CASE IngestRejected(o)
    <3>1. /\ Decision(registry, o) \in Reasons
          /\ Decision(registry, o) # "DUPLICATE_ID"
      BY <2>3, DecisionType DEF Reasons, IngestRejected, AuthorityDecision
    <3> QED BY <2>1, <2>3, <3>1, RetainEvidence DEF IngestRejected
  <2>4. CASE IngestAccepted(o) BY <2>1, <2>4, AcceptEvidence
  <2> QED BY <1>2, <2>2, <2>3, <2>4 DEF Ingest
<1> QED BY <1>1, <1>2 DEF CoordinatorStep

\* A handler's step keeps the coordinator's own invariant too.
LEMMA HandlerInv ==
  ASSUME Inv, CoordinatorStep
  PROVE  Inv'
<1>1. Next BY DEF CoordinatorStep, Next
<1> QED BY <1>1, NextInv

\* An empty coordinator is closed, and so is an empty copy.
LEMMA EmptyClosed ==
  /\ \A hist : Shown(EmptyMap, hist)
  /\ \A acc : Originals(<<>>, acc)
  /\ IsFiniteSet(DOMAIN EmptyMap)
  /\ Archivable(EmptySnap)
<1>1. DOMAIN EmptyMap = {} /\ IsFiniteSet(DOMAIN EmptyMap) BY FS_EmptySet DEF EmptyMap
<1>2. /\ RegistryOK(EmptyMap) /\ EmptyMap \in [DOMAIN EmptyMap -> Observation]
      /\ \A id \in DOMAIN EmptyMap : EmptyMap[id].id = id
  BY <1>1 DEF RegistryOK, EmptyMap
<1>3. <<>> \in Seq(StaleEvidence) OBVIOUS
<1>4. Archivable(EmptySnap) BY <1>1, <1>2, <1>3 DEF Archivable, EmptySnap
<1> QED BY <1>1, <1>4 DEF Shown, Originals

-----------------------------------------------------------------------------
(* Every step keeps the invariant *)

\* The saver reads the coordinator and changes nothing in it.
LEMMA SaverReads ==
  ASSUME SaveStep
  PROVE  UNCHANGED vars
BY DEF SaveStep, SnapEpoch, SnapRegistry, SnapStale, SnapAccepted, OpenTruncate,
       WriteBody, CloseStream

\* The coordinator's part of the invariant.
LEMMA CoordinatorPart ==
  ASSUME Inv, EvidenceInv, [ArchiveNext]_allvars
  PROVE  Inv' /\ EvidenceInv'
<1>1. ASSUME UNCHANGED vars PROVE Inv' /\ EvidenceInv'
  <2>1. Inv' BY <1>1, NextInv
  <2>2. UNCHANGED <<registry, accepted, stale>> BY <1>1 DEF vars
  <2>3. EvidenceInv' BY <2>2 DEF EvidenceInv, Shown, Originals
  <2> QED BY <2>1, <2>3
<1>2. CASE CoordinatorStep BY <1>2, HandlerInv, HandlerEvidence
<1>3. CASE Crash
  <2>1. (epoch \in Nat /\ Cleared)' BY <1>3 DEF Crash, Cleared
  <2>2. Inv' BY <2>1, ClearedInv, PTL
  <2>3. registry' = EmptyMap /\ accepted' = EmptyMap /\ stale' = <<>> BY <1>3 DEF Crash
  <2>4. \A id \in DOMAIN EmptyMap : EmptyMap[id].id = id BY DEF EmptyMap
  <2>5. EvidenceInv' BY <2>3, <2>4, EmptyClosed DEF EvidenceInv
  <2> QED BY <2>2, <2>5
<1>4. CASE UNCHANGED allvars BY <1>1, <1>4 DEF allvars
<1> QED BY <1>1, <1>2, <1>3, <1>4, SaverReads DEF ArchiveNext

\* A copy of the coordinator can be archived.
LEMMA CopyArchivable ==
  ASSUME Inv, EvidenceInv
  PROVE  /\ epoch \in Nat
         /\ RegistryOK(registry) /\ IsFiniteSet(DOMAIN registry)
         /\ accepted \in [DOMAIN accepted -> Observation]
         /\ IsFiniteSet(DOMAIN accepted)
         /\ \A id \in DOMAIN accepted : accepted[id].id = id
         /\ stale \in Seq(StaleEvidence)
BY DEF Inv, TypeOK, RegistryOK, EvidenceInv

\* The parts of the copy: each is closed over what is copied after it.
LEMMA SnapPart ==
  ASSUME Inv, EvidenceInv, SnapInv, [ArchiveNext]_allvars
  PROVE  SnapInv'
<1> USE DEF SaverAt
<1>0. Archivable(snap) BY DEF SnapInv
<1>1. CASE SnapEpoch
  <2>1. snap' = [EmptySnap EXCEPT !.epoch = epoch] /\ saver' = "registry"
    BY <1>1 DEF SnapEpoch
  <2>2. Archivable(snap')
    BY <2>1, CopyArchivable, EmptyClosed DEF Archivable, EmptySnap
  <2> QED BY <2>1, <2>2 DEF SnapInv
<1>2. CASE SnapRegistry
  <2>1. /\ snap' = [snap EXCEPT !.registry = registry] /\ saver' = "stale"
        /\ accepted' = accepted
    BY <1>2 DEF SnapRegistry, vars
  <2>2. Archivable(snap') /\ snap'.registry = registry
    BY <1>0, <2>1, CopyArchivable DEF Archivable
  <2> QED BY <2>1, <2>2 DEF SnapInv, EvidenceInv
<1>3. CASE SnapStale
  <2>1. /\ saver = "stale" /\ snap' = [snap EXCEPT !.stale = stale] /\ saver' = "accepted"
        /\ accepted' = accepted
    BY <1>3 DEF SnapStale, vars
  <2>2. Archivable(snap') /\ snap'.registry = snap.registry /\ snap'.stale = stale
    BY <1>0, <2>1, CopyArchivable DEF Archivable
  <2> QED BY <2>1, <2>2 DEF SnapInv, EvidenceInv
<1>4. CASE SnapAccepted
  <2>1. /\ saver = "accepted" /\ snap' = [snap EXCEPT !.accepted = accepted]
        /\ saver' = "open"
    BY <1>4 DEF SnapAccepted
  <2>2. /\ Archivable(snap') /\ snap'.registry = snap.registry
        /\ snap'.stale = snap.stale /\ snap'.accepted = accepted
    BY <1>0, <2>1, CopyArchivable DEF Archivable
  <2> QED BY <2>1, <2>2 DEF SnapInv
<1>5. CASE OpenTruncate
  <2>1. CASE saver' = "write" /\ snap' = snap BY <1>5, <2>1 DEF OpenTruncate, SnapInv
  <2>2. CASE saver' = "idle" /\ snap' = EmptySnap BY <2>2, EmptyClosed DEF SnapInv
  <2> QED BY <1>5, <2>1, <2>2 DEF OpenTruncate
<1>6. CASE WriteBody
  <2>1. CASE saver' = "close" /\ snap' = snap BY <1>6, <2>1 DEF WriteBody, SnapInv
  <2>2. CASE saver' = "idle" /\ snap' = EmptySnap BY <2>2, EmptyClosed DEF SnapInv
  <2> QED BY <1>6, <2>1, <2>2 DEF WriteBody
<1>7. CASE CloseStream
  BY <1>7, EmptyClosed DEF CloseStream, SnapInv
<1>8. CASE Crash BY <1>8, EmptyClosed DEF Crash, SnapInv
<1>9. CASE CoordinatorStep
  <2>1. UNCHANGED <<saver, snap>> BY <1>9 DEF CoordinatorStep, avars
  <2>2. Grows(accepted, accepted') BY <1>9, HandlerEvidence
  <2>3. saver \in {"stale", "accepted"} => Shown(snap.registry, accepted')
    BY <2>2, ShownGrows DEF SnapInv
  <2>4. saver = "accepted" => Originals(snap.stale, accepted')
    BY <2>2, OriginalsGrow DEF SnapInv
  <2> QED BY <2>1, <2>3, <2>4 DEF SnapInv
<1>10. CASE UNCHANGED allvars
  <2>1. UNCHANGED <<saver, snap, accepted>> BY <1>10 DEF allvars, avars, vars
  <2> QED BY <2>1 DEF SnapInv
<1> QED
  BY <1>1, <1>2, <1>3, <1>4, <1>5, <1>6, <1>7, <1>8, <1>9, <1>10 DEF ArchiveNext, SaveStep

\* Cutting a sequence in two.
LEMMA CutFacts ==
  ASSUME NEW S, NEW e \in Seq(S), NEW n \in 0..Len(e)
  PROVE  /\ SubSeq(e, 1, 0) = <<>>
         /\ SubSeq(e, 1, Len(e)) = e
         /\ <<>> \o SubSeq(e, 1, n) = SubSeq(e, 1, n)
         /\ SubSeq(e, 1, n) \o SubSeq(e, n + 1, Len(e)) = e
<1>1. Len(e) \in Nat /\ n \in Nat /\ n <= Len(e) OBVIOUS
<1>2. \A i \in 1..Len(e) : e[i] \in S BY ElementOfSeq
<1> DEFINE l == SubSeq(e, 1, n)
           r == SubSeq(e, n + 1, Len(e))
<1>3. l \in Seq(S) /\ Len(l) = n /\ \A i \in 1..n : l[i] = e[i]
  <2>1. \A i \in 1..n : e[i] \in S BY <1>1, <1>2
  <2>2. /\ l \in Seq(S)
        /\ Len(l) = IF 1 <= n THEN n - 1 + 1 ELSE 0
        /\ \A i \in 1..(n - 1 + 1) : l[i] = e[1 + i - 1]
    BY <1>1, <2>1, SubSeqProperties
  <2> QED BY <1>1, <2>2
<1>4. r \in Seq(S) /\ Len(r) = Len(e) - n /\ \A i \in 1..(Len(e) - n) : r[i] = e[n + i]
  <2>1. \A i \in (n + 1)..Len(e) : e[i] \in S BY <1>1, <1>2
  <2>2. n + 1 \in Int /\ Len(e) \in Int BY <1>1
  <2>3. /\ r \in Seq(S)
        /\ Len(r) = IF n + 1 <= Len(e) THEN Len(e) - (n + 1) + 1 ELSE 0
        /\ \A i \in 1..(Len(e) - (n + 1) + 1) : r[i] = e[n + 1 + i - 1]
    BY <2>1, <2>2, SubSeqProperties
  <2> QED BY <1>1, <2>3
<1> HIDE DEF l, r
<1>5. /\ l \o r \in Seq(S) /\ Len(l \o r) = Len(l) + Len(r)
      /\ \A i \in 1..Len(l) : (l \o r)[i] = l[i]
      /\ \A i \in 1..Len(r) : (l \o r)[Len(l) + i] = r[i]
  BY <1>3, <1>4, ConcatFacts
<1>6. \A i \in 1..Len(e) : (l \o r)[i] = e[i]
  <2> SUFFICES ASSUME NEW i \in 1..Len(e) PROVE (l \o r)[i] = e[i] OBVIOUS
  <2>1. CASE i <= n BY <1>1, <1>3, <1>5, <2>1
  <2>2. CASE i > n
    <3>1. i - n \in 1..(Len(e) - n) /\ n + (i - n) = i BY <1>1, <2>2
    <3>2. (l \o r)[n + (i - n)] = r[i - n] /\ r[i - n] = e[n + (i - n)]
      BY <1>3, <1>4, <1>5, <3>1
    <3> QED BY <3>1, <3>2
  <2>3. i <= n \/ i > n BY <1>1
  <2> QED BY <2>1, <2>2, <2>3
<1>7. l \o r = e
  <2>1. Len(l \o r) = Len(e) BY <1>1, <1>3, <1>4, <1>5
  <2> QED BY <1>5, <1>6, <2>1, SeqEqual
<1>8. SubSeq(e, 1, 0) = <<>> BY SubSeqEmpty
<1>9. SubSeq(e, 1, Len(e)) = e BY SubSeqFull
<1>10. <<>> \o l = l BY <1>3, ConcatEmptySeq
<1> QED BY <1>7, <1>8, <1>9, <1>10 DEF l, r

\* The file: each save truncates, writes a part and flushes the rest.
LEMMA FilePart ==
  ASSUME SnapInv, FileInv, [ArchiveNext]_allvars
  PROVE  FileInv'
<1> USE DEF SaverAt
<1> DEFINE Whole(a, f) == f = Encode(a)
           Part(a, f) == \E n \in 0..Len(Encode(a)) : f = SubSeq(Encode(a), 1, n)
<1>1. /\ Archivable(snap) /\ Archivable(written)
      /\ Part(written, file)
      /\ saver = "write" => file = <<>>
      /\ saver = "close" => file \o pending = Encode(written)
      /\ saver = "idle" /\ result = "Ok" /\ ~faulty => file = Encode(written)
  <2>1. Archivable(snap) BY DEF SnapInv
  <2>2. Archivable(written) /\ Part(written, file) BY Zenon DEF FileInv
  <2>3. /\ saver = "write" => file = <<>>
        /\ saver = "close" => file \o pending = Encode(written)
        /\ saver = "idle" /\ result = "Ok" /\ ~faulty => file = Encode(written)
    BY Zenon DEF FileInv
  <2> HIDE DEF Part
  <2> QED BY <2>1, <2>2, <2>3, Zenon
<1>2. \A a : Archivable(a) =>
        /\ Encode(a) \in Seq(FileTokens)
        /\ Len(Encode(a)) \in Nat
        /\ Part(a, <<>>)
        /\ Part(a, Encode(a))
  <2> SUFFICES ASSUME NEW a, Archivable(a)
               PROVE  /\ Encode(a) \in Seq(FileTokens)
                      /\ Len(Encode(a)) \in Nat
                      /\ Part(a, <<>>)
                      /\ Part(a, Encode(a))
    OBVIOUS
  <2>1. Encode(a) \in Seq(FileTokens) /\ Len(Encode(a)) \in Nat BY EncodeFacts
  <2>2. 0 \in 0..Len(Encode(a)) /\ Len(Encode(a)) \in 0..Len(Encode(a)) BY <2>1
  <2>3. SubSeq(Encode(a), 1, 0) = <<>> /\ SubSeq(Encode(a), 1, Len(Encode(a))) = Encode(a)
    BY <2>1, <2>2, CutFacts
  <2> QED BY <2>1, <2>2, <2>3
<1>3. ASSUME UNCHANGED <<file, pending, written, faulty>>, saver' \notin {"write", "close"},
             saver' = "idle" => result' # "Ok"
      PROVE  FileInv'
  BY <1>1, <1>3 DEF FileInv
<1>4. CASE SnapEpoch BY <1>3, <1>4 DEF SnapEpoch
<1>5. CASE SnapRegistry BY <1>3, <1>5 DEF SnapRegistry
<1>6. CASE SnapStale BY <1>3, <1>6 DEF SnapStale
<1>7. CASE SnapAccepted BY <1>3, <1>7 DEF SnapAccepted
<1>8. CASE OpenTruncate
  <2>1. CASE saver' = "write" /\ file' = <<>> /\ UNCHANGED written
    BY <1>1, <1>2, <2>1 DEF FileInv
  <2>2. CASE saver' = "idle" /\ result' = "Err" /\ UNCHANGED <<file, pending, written, faulty>>
    BY <1>3, <2>2
  <2> QED BY <1>8, <2>1, <2>2 DEF OpenTruncate
<1>9. CASE WriteBody
  <2> DEFINE E == Encode(snap)
  <2>1. written' = snap /\ saver = "write" BY <1>9 DEF WriteBody
  <2>2. PICK n \in 0..Len(E) :
          /\ file' = file \o SubSeq(E, 1, n)
          /\ \/ /\ saver' = "close"
                /\ pending' = SubSeq(E, n + 1, Len(E))
             \/ saver' = "idle" /\ result' = "Err"
    BY <1>9 DEF WriteBody
  <2>3. E \in Seq(FileTokens) BY <1>1, <1>2
  <2> HIDE DEF E
  <2>4. file' = SubSeq(E, 1, n)
    <3>1. file = <<>> BY <1>1, <2>1
    <3>2. <<>> \o SubSeq(E, 1, n) = SubSeq(E, 1, n) BY <2>3, CutFacts, Zenon
    <3> QED BY <2>2, <3>1, <3>2, Zenon
  <2>5. SubSeq(E, 1, n) \o SubSeq(E, n + 1, Len(E)) = E BY <2>2, <2>3, CutFacts
  <2>6. Part(written', file') BY <2>1, <2>4 DEF E
  <2>7. saver' = "close" => file' \o pending' = Encode(written')
    BY <2>1, <2>2, <2>4, <2>5 DEF E
  <2> QED BY <1>1, <2>1, <2>2, <2>6, <2>7 DEF FileInv
<1>10. CASE CloseStream
  <2>1. saver = "close" /\ saver' = "idle" /\ written' = written
    BY <1>10 DEF CloseStream
  <2>2. CASE file' = file \o pending
    BY <1>1, <1>2, <2>1, <2>2 DEF FileInv
  <2>3. CASE file' = file /\ faulty' = TRUE
    BY <1>1, <2>1, <2>3 DEF FileInv
  <2> QED BY <1>10, <2>2, <2>3 DEF CloseStream
<1>11. CASE Crash
  <2>1. saver' = "idle" /\ result' = "none" /\ UNCHANGED <<file, written, faulty>>
    BY <1>11 DEF Crash
  <2> QED BY <1>1, <2>1 DEF FileInv
<1>12. CASE UNCHANGED avars
  <2>1. UNCHANGED <<saver, file, pending, result, written, faulty>> BY <1>12 DEF avars
  <2> QED BY <1>1, <2>1 DEF FileInv
<1> QED
  BY <1>4, <1>5, <1>6, <1>7, <1>8, <1>9, <1>10, <1>11, <1>12
  DEF ArchiveNext, SaveStep, CoordinatorStep, allvars

\* The first state.
LEMMA ArchiveStart ==
  ASSUME ArchiveInit
  PROVE  ArchiveInv
<1>1. Inv
  <2>1. epoch \in Nat /\ Cleared BY DEF ArchiveInit, Init, Cleared
  <2> QED BY <2>1, ClearedInv
<1>2. EvidenceInv
  <2>1. registry = EmptyMap /\ accepted = EmptyMap /\ stale = <<>>
    BY DEF ArchiveInit, Init
  <2>2. \A id \in DOMAIN EmptyMap : EmptyMap[id].id = id BY DEF EmptyMap
  <2> QED BY <2>1, <2>2, EmptyClosed DEF EvidenceInv
<1>3. SnapInv BY EmptyClosed DEF ArchiveInit, SnapInv
<1>4. FileInv
  <2>1. Encode(EmptySnap) \in Seq(FileTokens) /\ Len(Encode(EmptySnap)) \in Nat
    BY EmptyClosed, EncodeFacts
  <2>2. 0 \in 0..Len(Encode(EmptySnap)) /\ SubSeq(Encode(EmptySnap), 1, 0) = <<>>
    BY <2>1, CutFacts
  <2> QED BY <2>2, EmptyClosed DEF ArchiveInit, FileInv
<1> QED BY <1>1, <1>2, <1>3, <1>4 DEF ArchiveInv

\* Whatever the handlers do between the parts of a copy, wherever a save fails
\* or the process dies: the coordinator, the copy and the file stay what the
\* invariant says.
THEOREM ArchiveInvariant == ArchiveSpec => []ArchiveInv
<1>1. ArchiveInit => ArchiveInv BY ArchiveStart
<1>2. ArchiveInv /\ [ArchiveNext]_allvars => ArchiveInv'
  BY CoordinatorPart, SnapPart, FilePart DEF ArchiveInv
<1> QED BY <1>1, <1>2, PTL DEF ArchiveSpec

\* build_archive copies the registry, the history and the evidence under three
\* separate locks; in this order the copy is closed: every authority's
\* last_seq and every duplicate's original are shown by the archived evidence.
THEOREM SnapshotClosedCorrect == ArchiveSpec => []SnapshotClosed
<1>1. ArchiveInv => SnapshotClosed
  BY DEF ArchiveInv, SnapInv, SnapshotClosed, Shown, Originals
<1> QED BY <1>1, ArchiveInvariant, PTL

\* load_archive returns what the last save was given, or an error, wherever a
\* crash or a failed write left the file and whatever was done to it: for any
\* width of the length field, and also if observations do not decode.
THEOREM LoadSoundCorrect == ArchiveSpec => []LoadSound
<1>1. ASSUME ArchiveInv PROVE LoadSound
  <2> SUFFICES ASSUME NEW f \in Damaged(file) PROVE Load(f) \in {Err, written}
    BY DEF LoadSound
  <2>1. Archivable(written) BY <1>1 DEF ArchiveInv, FileInv
  <2>2. PICK n \in 0..Len(Encode(written)) : file = SubSeq(Encode(written), 1, n)
    BY <1>1 DEF ArchiveInv, FileInv
  <2>3. Load(f) = Err \/ Load(f) = ParseBody(Body(written)) BY <2>1, <2>2, LoadDamaged
  <2>4. ParseBody(Body(written)) = Err \/ ParseBody(Body(written)) = written
    BY <2>1, RoundTrip
  <2> QED BY <2>3, <2>4
<1> QED BY <1>1, ArchiveInvariant, PTL

\* A save that returned Ok and whose last flush did not fail can be loaded and
\* gives back every item, if every observation decodes (those that arrive over
\* TCP do: the decoder that read them is the one that reads them again) and
\* the body's length fits the u32 length field.
THEOREM SaveLoadsCorrect ==
  ASSUME Unreadable = {}
  PROVE  ArchiveSpec => [](Len(Body(written)) < LengthMod => SaveLoads)
<1>1. ASSUME ArchiveInv PROVE Len(Body(written)) < LengthMod => SaveLoads
  <2> SUFFICES ASSUME Len(Body(written)) < LengthMod,
                      saver = "idle", result = "Ok", ~faulty
               PROVE  Load(file) = written
    BY DEF SaveLoads
  <2>1. Archivable(written) /\ file = Encode(written) BY <1>1 DEF ArchiveInv, FileInv
  <2>2. file \in Seq(FileTokens) BY <2>1, EncodeFacts
  <2>3. Load(file) = ParseBody(Body(written)) BY <2>1, <2>2, LoadPrefix
  <2> QED BY <2>1, <2>3, RoundTrip
<1> QED BY <1>1, ArchiveInvariant, PTL

=============================================================================
