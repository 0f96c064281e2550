----------------------------- MODULE GuardProofs -----------------------------
(***************************************************************************)
(* Proofs about what guards a task: the two scanners, for pattern families *)
(* and contexts of any size, and what podman is given, the seccomp         *)
(* document, the file it is saved in and the image.  The modules share     *)
(* nothing.                                                                *)
(***************************************************************************)
EXTENDS Injection, Exfiltration, SeccompProfile, SeccompFile, ImageVerify,
        FiniteSetTheorems, SequenceTheorems, WellFoundedInduction, TLAPS

(***************************************************************************)
(* The scanners.                                                           *)
(***************************************************************************)
\* Counting fewer patterns of a family.
LEMMA FewerMatches ==
  ASSUME NEW few, NEW more, NEW family, few \subseteq more,
         IsFiniteSet(family)
  PROVE  /\ Cardinality(few \cap family) \in Nat
         /\ Cardinality(more \cap family) \in Nat
         /\ Cardinality(few \cap family) <= Cardinality(more \cap family)
<1>1. IsFiniteSet(more \cap family)
  BY FS_Subset
<1>2. few \cap family \subseteq more \cap family
  OBVIOUS
<1> QED BY <1>1, <1>2, FS_Subset, FS_CardinalityType

\* One obfuscation pattern alone is worth 0.30 at most.
LEMMA SingleObfuscation ==
  ASSUME NEW few, Cardinality(few \cap Obfuscation) <= 1
  PROVE  ObfuscationScore(few) <= 30
<1> DEFINE o == Cardinality(few \cap Obfuscation)
           h == Cardinality(few \cap Hidden)
<1>1. IsFiniteSet(few \cap Obfuscation) /\ IsFiniteSet(few \cap Hidden)
  BY InjectionAssumption, FS_Subset
<1>2. o \in Nat /\ h \in Nat /\ h <= o
  <2>1. few \cap Hidden \subseteq few \cap Obfuscation
    BY InjectionAssumption
  <2> QED BY <1>1, <2>1, FS_Subset, FS_CardinalityType
<1>3. CASE Base64Only \notin few
  <2>1. ObfuscationScore(few) = 15 * o + 15 * h
    BY <1>2, <1>3 DEF ObfuscationScore
  <2> HIDE DEF o, h
  <2>2. o <= 1
    BY DEF o
  <2> QED BY <1>2, <2>1, <2>2
<1>4. CASE Base64Only \in few
  <2>1. Base64Only \in few \cap Obfuscation /\ Base64Only \notin Hidden
    BY <1>4, InjectionAssumption
  <2>2. o = 1
    <3>1. o # 0
      BY <1>1, <2>1, FS_EmptySet
    <3> HIDE DEF o
    <3>2. o <= 1
      BY DEF o
    <3> QED BY <1>2, <3>1, <3>2
  <2>3. few \cap Obfuscation = {Base64Only}
    <3>1. PICK q : few \cap Obfuscation = {q}
      BY <1>1, <2>2, FS_Singleton
    <3> QED BY <2>1, <3>1
  <2>4. few \cap Hidden = {}
    BY <2>1, <2>3, InjectionAssumption
  <2>5. h = 0
    BY <2>4, FS_EmptySet
  <2>6. ObfuscationScore(few) = 15 * o + 15 * h + 10
    BY <1>4 DEF ObfuscationScore
  <2> HIDE DEF o, h
  <2> QED BY <2>2, <2>5, <2>6
<1> QED BY <1>3, <1>4

\* The obfuscation score is a number, and grows with what is few.
LEMMA ObfuscationGrows ==
  ASSUME NEW few, NEW more, few \subseteq more
  PROVE  /\ ObfuscationScore(few) \in Nat
         /\ ObfuscationScore(more) \in Nat
         /\ ObfuscationScore(few) <= ObfuscationScore(more)
<1>1. /\ Cardinality(few \cap Obfuscation) \in Nat
      /\ Cardinality(more \cap Obfuscation) \in Nat
      /\ Cardinality(few \cap Obfuscation) <= Cardinality(more \cap Obfuscation)
  BY FewerMatches, InjectionAssumption
<1>2. /\ Cardinality(few \cap Hidden) \in Nat
      /\ Cardinality(more \cap Hidden) \in Nat
      /\ Cardinality(few \cap Hidden) <= Cardinality(more \cap Hidden)
  <2>1. IsFiniteSet(Hidden)
    BY InjectionAssumption, FS_Subset
  <2> QED BY <2>1, FewerMatches
<1>3. Base64Only \in few => Base64Only \in more
  OBVIOUS
<1> QED BY <1>1, <1>2, <1>3 DEF ObfuscationScore

\* The arithmetic of the three families: the score a family replaces is never
\* above the one that replaces it.
LEMMA TotalGrows ==
  ASSUME NEW m \in Nat, NEW s \in Nat, NEW o \in Nat, NEW w \in Nat,
         NEW mm \in Nat, NEW ss \in Nat, NEW oo \in Nat, NEW ww \in Nat,
         m <= mm, s <= ss, o <= oo, w <= ww, o <= 1 => w <= 30
  PROVE  Total(m, s, o, w) <= Total(mm, ss, oo, ww)
<1>1. BaseScore(m, s, o, w) \in Nat /\ BaseScore(mm, ss, oo, ww) \in Nat
  BY DEF BaseScore, AtMost
<1>2. BaseScore(m, s, o, w) <= BaseScore(mm, ss, oo, ww)
  <2>1. CASE mm > 0
    BY <2>1 DEF BaseScore, AtMost
  <2>2. CASE mm = 0 /\ ss > 0
    BY <2>2 DEF BaseScore, AtMost
  <2>3. CASE mm = 0 /\ ss = 0
    BY <2>3 DEF BaseScore, AtMost
  <2> QED BY <2>1, <2>2, <2>3
<1> QED BY <1>1, <1>2 DEF Total, AtMost

\* The more patterns match, the higher the score, although a higher family
\* replaces what a lower one has scored.
THEOREM ScoreGrows ==
  ASSUME NEW few, NEW more, few \subseteq more
  PROVE  Score(few) <= Score(more)
<1>1. /\ Cardinality(few \cap Malicious) \in Nat
      /\ Cardinality(more \cap Malicious) \in Nat
      /\ Cardinality(few \cap Malicious) <= Cardinality(more \cap Malicious)
      /\ Cardinality(few \cap Suspicious) \in Nat
      /\ Cardinality(more \cap Suspicious) \in Nat
      /\ Cardinality(few \cap Suspicious) <= Cardinality(more \cap Suspicious)
      /\ Cardinality(few \cap Obfuscation) \in Nat
      /\ Cardinality(more \cap Obfuscation) \in Nat
      /\ Cardinality(few \cap Obfuscation) <= Cardinality(more \cap Obfuscation)
  BY FewerMatches, InjectionAssumption
<1>2. /\ ObfuscationScore(few) \in Nat /\ ObfuscationScore(more) \in Nat
      /\ ObfuscationScore(few) <= ObfuscationScore(more)
  BY ObfuscationGrows
<1>3. Cardinality(few \cap Obfuscation) <= 1 => ObfuscationScore(few) <= 30
  BY SingleObfuscation
<1> QED BY <1>1, <1>2, <1>3, TotalGrows DEF Score
-----------------------------------------------------------------------------
\* Along every scan no match lowers the score.
THEOREM EvidenceAlwaysCounts == Spec => []EvidenceCounts
<1>1. EvidenceCounts
  BY ScoreGrows DEF EvidenceCounts
<1> QED BY <1>1, PTL

\* What a finished scan returns is the level of all it has few.
ReturnsLevel ==
  /\ step # "done" => threat = SAFE
  /\ step = "done" => threat = Level(matches) \/ (threat = SAFE /\ matches = {})

\* The numbers that reach the level MALICIOUS.
LEMMA MaliciousScores ==
  ASSUME NEW few
  PROVE  /\ few \cap Malicious # {} => Level(few) = MALICIOUS
         /\ Level(few) = MALICIOUS =>
              \/ few \cap Malicious # {}
              \/ Cardinality(few \cap Suspicious) >= 2
              \/ Cardinality(few \cap Obfuscation) >= 7
<1> DEFINE m == Cardinality(few \cap Malicious)
           s == Cardinality(few \cap Suspicious)
           o == Cardinality(few \cap Obfuscation)
           w == ObfuscationScore(few)
<1>1. m \in Nat /\ s \in Nat /\ o \in Nat
  BY FewerMatches, InjectionAssumption
<1>2. w \in Nat /\ (o <= 1 => w <= 30)
  BY ObfuscationGrows, SingleObfuscation
<1>3. m = 0 <=> few \cap Malicious = {}
  <2>1. IsFiniteSet(few \cap Malicious)
    BY InjectionAssumption, FS_Subset
  <2> QED BY <2>1, FS_EmptySet
<1>4. Score(few) = Total(m, s, o, w)
  BY DEF Score
<1> HIDE DEF m, s, o, w
<1>5. m > 0 => Total(m, s, o, w) >= 70
  BY <1>1, <1>2 DEF Total, BaseScore, AtMost
<1>6. (m = 0 /\ s < 2 /\ o < 7) => Total(m, s, o, w) < 70
  BY <1>1, <1>2 DEF Total, BaseScore, AtMost
<1>7. Total(m, s, o, w) \in Int
  BY <1>1, <1>2 DEF Total, BaseScore, AtMost
<1>8. Level(few) = MALICIOUS <=> Total(m, s, o, w) >= 70
  BY <1>4, <1>7 DEF Level, LevelOf, SAFE, SUSPICIOUS, MALICIOUS
<1> QED BY <1>1, <1>3, <1>5, <1>6, <1>7, <1>8 DEF m, s, o

\* should_block blocks every payload a malicious pattern matches (unless
\* blocking is off) and no payload for less than the numbers named.
THEOREM BlockAlwaysNeedsEvidence == Spec => []BlockNeedsEvidence
<1>1. Init => ReturnsLevel
  BY DEF Init, ReturnsLevel
<1>2. ReturnsLevel /\ [Next]_vars => ReturnsLevel'
  <2> SUFFICES ASSUME ReturnsLevel, [Next]_vars PROVE ReturnsLevel'
    OBVIOUS
  <2>1. CASE TooShort
    BY <2>1 DEF TooShort, ReturnsLevel, SAFE
  <2>2. CASE ScanVariants
    BY <2>2 DEF ScanVariants, ReturnsLevel
  <2>3. CASE Return
    <3>1. threat' = Level(matches) /\ matches' = matches /\ step' = "done"
      BY <2>3 DEF Return
    <3>2. Level(matches)' = Level(matches')
      OBVIOUS
    <3> QED BY <3>1, <3>2 DEF ReturnsLevel
  <2>4. ASSUME NEW p \in Obfuscation, Obfuscated(p) PROVE ReturnsLevel'
    BY <2>4 DEF Obfuscated, ReturnsLevel
  <2>5. ASSUME NEW p \in Malicious \cup Suspicious, Matched(p)
        PROVE  ReturnsLevel'
    BY <2>5 DEF Matched, ReturnsLevel
  <2>6. CASE UNCHANGED vars
    BY <2>6 DEF vars, ReturnsLevel, Level, Score
  <2> QED BY <2>1, <2>2, <2>3, <2>4, <2>5, <2>6 DEF Next
<1>3. ReturnsLevel => BlockNeedsEvidence
  BY MaliciousScores DEF ReturnsLevel, BlockNeedsEvidence, ShouldBlock,
                         SAFE, MALICIOUS
<1> QED BY <1>1, <1>2, <1>3, PTL DEF Spec
-----------------------------------------------------------------------------
(***************************************************************************)
(* The scan of an output.  Of the sample, what was found is among what     *)
(* leaked and what was not is among the rest; a finding adds ten points    *)
(* at least, but for that of the fingerprint.                              *)
(***************************************************************************)
SampleInv ==
  /\ found <= leaked
  /\ checked - found <= shingles - leaked
  /\ check \in {"structure", "done"} => ~Sampling

PointsInv ==
  /\ ~ (findings \subseteq {"fingerprint"}) => score >= 10
  /\ check \in {"structure", "done"} => score >= FingerprintPoints

OutputInv == OutputTypeOK /\ SampleInv /\ PointsInv

LEMMA InitOutput == OutputInit => OutputInv
BY ExfiltrationAssumption DEF ExfiltrationAssumption, OutputInit, OutputInv,
   OutputTypeOK, SampleInv, PointsInv, FingerprintPoints, Sampling

\* A check that finds something adds ten points at least.
LEMMA ChecksStep ==
  ASSUME OutputInv,
         NEW kind \in {"secrets", "pii", "covert", "entropy", "size", "limit",
                       "structure"},
         NEW next \in {"pii", "covert", "entropy", "size", "limit",
                       "fingerprint", "done"},
         next = "done" => kind = "structure",
         NEW points \in Nat, points > 0 => points >= 10,
         Checks(kind, next, points)
  PROVE  OutputInv'
<1>1. /\ check = kind /\ check' = next /\ score' = score + points
      /\ findings' = IF points > 0 THEN findings \cup {kind} ELSE findings
      /\ UNCHANGED <<shingles, leaked, checked, found>>
  BY DEF Checks, sample
<1>2. score \in Nat /\ score' \in Nat
  BY <1>1 DEF OutputInv, OutputTypeOK
<1>3. OutputTypeOK'
  BY <1>1, <1>2 DEF OutputInv, OutputTypeOK
<1>4. SampleInv'
  BY <1>1 DEF OutputInv, SampleInv, Sampling
<1>5. ~ (findings' \subseteq {"fingerprint"}) => score' >= 10
  <2>1. CASE points > 0
    BY <1>1, <1>2, <2>1 DEF OutputInv, OutputTypeOK
  <2>2. CASE ~ (points > 0)
    BY <1>1, <1>2, <2>2 DEF OutputInv, PointsInv
  <2> QED BY <2>1, <2>2
<1>6. FingerprintPoints' = FingerprintPoints
  BY <1>1 DEF FingerprintPoints
<1>7. check' \in {"structure", "done"} => score' >= FingerprintPoints'
  <2> SUFFICES ASSUME next = "done" PROVE score' >= FingerprintPoints
    BY <1>1, <1>6
  <2>1. score >= FingerprintPoints
    BY <1>1 DEF OutputInv, PointsInv
  <2>2. FingerprintPoints \in Int
    BY DEF FingerprintPoints, OutputInv, OutputTypeOK
  <2> QED BY <1>1, <1>2, <2>1, <2>2
<1> QED BY <1>3, <1>4, <1>5, <1>7 DEF OutputInv, PointsInv

\* The points of the checks that count what they find.
LEMMA CountedPoints ==
  ASSUME NEW S, IsFiniteSet(S), NEW T \in SUBSET S
  PROVE  Cardinality(T) \in Nat
BY FS_Subset, FS_CardinalityType

LEMMA OutputStep == OutputInv /\ [OutputNext]_output => OutputInv'
<1> SUFFICES ASSUME OutputInv, [OutputNext]_output PROVE OutputInv'
  OBVIOUS
<1>1. CASE Empty
  BY <1>1 DEF Empty, sample, OutputInv, OutputTypeOK, SampleInv, PointsInv
<1>2. ASSUME NEW k \in SUBSET KeySecrets, NEW t \in SUBSET ProviderSecrets,
             NEW o \in SUBSET OtherSecrets, Secrets(k, t, o)
      PROVE  OutputInv'
  <2> DEFINE points == 80 * Cardinality(k) + 60 * Cardinality(t)
                         + 40 * Cardinality(o)
  <2>1. Cardinality(k) \in Nat /\ Cardinality(t) \in Nat /\ Cardinality(o) \in Nat
    BY CountedPoints, ExfiltrationAssumption DEF ExfiltrationAssumption
  <2>2. points \in Nat /\ (points > 0 => points >= 10)
    BY <2>1
  <2>3. Checks("secrets", "pii", points)
    BY <1>2 DEF Secrets
  <2> HIDE DEF points
  <2> QED BY <2>2, <2>3, ChecksStep
<1>3. ASSUME NEW s \in SUBSET SensitivePii, NEW o \in SUBSET OtherPii, Pii(s, o)
      PROVE  OutputInv'
  <2> DEFINE points == 50 * Cardinality(s) + 25 * Cardinality(o)
  <2>1. Cardinality(s) \in Nat /\ Cardinality(o) \in Nat
    BY CountedPoints, ExfiltrationAssumption DEF ExfiltrationAssumption
  <2>2. points \in Nat /\ (points > 0 => points >= 10)
    BY <2>1
  <2>3. Checks("pii", "covert", points)
    BY <1>3 DEF Pii
  <2> HIDE DEF points
  <2> QED BY <2>2, <2>3, ChecksStep
<1>4. ASSUME NEW c \in SUBSET Covert, CovertChannels(c) PROVE OutputInv'
  <2> DEFINE points == 25 * Cardinality(c)
  <2>1. Cardinality(c) \in Nat
    BY CountedPoints, ExfiltrationAssumption DEF ExfiltrationAssumption
  <2>2. points \in Nat /\ (points > 0 => points >= 10)
    BY <2>1
  <2>3. Checks("covert", "entropy", points)
    BY <1>4 DEF CovertChannels
  <2> HIDE DEF points
  <2> QED BY <2>2, <2>3, ChecksStep
<1>5. ASSUME NEW points \in {0, 30, 50}, Entropy(points) PROVE OutputInv'
  <2>1. points \in Nat /\ (points > 0 => points >= 10)
    OBVIOUS
  <2> QED BY <1>5, <2>1, ChecksStep DEF Entropy
<1>6. ASSUME NEW ratio \in SizeRatios, SizeAnomaly(ratio) PROVE OutputInv'
  <2> DEFINE points == IF ratio > 20 THEN Capped(50, ratio) ELSE 0
  <2>1. ratio \in Nat
    BY ExfiltrationAssumption DEF ExfiltrationAssumption
  <2>2. points \in Nat /\ (points > 0 => points >= 10)
    BY <2>1 DEF Capped
  <2>3. Checks("size", "limit", points)
    BY <1>6 DEF SizeAnomaly
  <2> HIDE DEF points
  <2> QED BY <2>2, <2>3, ChecksStep
<1>7. ASSUME NEW points \in {0, 30}, SizeLimit(points) PROVE OutputInv'
  <2>1. points \in Nat /\ (points > 0 => points >= 10)
    OBVIOUS
  <2> QED BY <1>7, <2>1, ChecksStep DEF SizeLimit
<1>8. ASSUME NEW hit \in BOOLEAN, Sample(hit) PROVE OutputInv'
  <2>1. /\ check = "fingerprint" /\ checked < shingles
        /\ IF hit THEN found < leaked ELSE checked - found < shingles - leaked
        /\ checked' = checked + 1 /\ found' = IF hit THEN found + 1 ELSE found
        /\ UNCHANGED <<check, score, findings, shingles, leaked>>
    BY <1>8 DEF Sample, Sampling
  <2>2. /\ shingles \in Nat /\ leaked \in 0..shingles /\ checked \in 0..shingles
        /\ found \in 0..checked /\ found <= leaked
        /\ checked - found <= shingles - leaked
    BY ExfiltrationAssumption
       DEF ExfiltrationAssumption, OutputInv, OutputTypeOK, SampleInv
  <2>3. /\ checked' \in 0..shingles /\ found' \in 0..checked'
        /\ found' <= leaked /\ checked' - found' <= shingles - leaked
    BY <2>1, <2>2
  <2>4. OutputTypeOK'
    BY <2>1, <2>3 DEF OutputInv, OutputTypeOK
  <2>5. SampleInv' /\ PointsInv'
    BY <2>1, <2>3 DEF OutputInv, SampleInv, PointsInv
  <2> QED BY <2>4, <2>5 DEF OutputInv
<1>9. CASE Fingerprint
  <2>1. /\ ~Sampling /\ check' = "structure"
        /\ score' = score + FingerprintPoints
        /\ findings' = IF found > 0 THEN findings \cup {"fingerprint"} ELSE findings
        /\ UNCHANGED <<shingles, leaked, checked, found>>
    BY <1>9 DEF Fingerprint, sample
  <2>2. FingerprintPoints \in Nat /\ score \in Nat
    <3>1. checked \in Nat /\ found \in Nat /\ score \in Nat
      BY ExfiltrationAssumption DEF OutputInv, OutputTypeOK, ExfiltrationAssumption
    <3> QED BY <3>1 DEF FingerprintPoints
  <2>3. FingerprintPoints' = FingerprintPoints
    BY <2>1 DEF FingerprintPoints
  <2>4. score' \in Nat /\ score' >= score /\ score' >= FingerprintPoints
    BY <2>1, <2>2
  <2>5. OutputTypeOK'
    BY <2>1, <2>4 DEF OutputInv, OutputTypeOK
  <2>6. SampleInv'
    BY <2>1 DEF OutputInv, SampleInv, Sampling
  <2>7. PointsInv'
    <3>1. ~ (findings' \subseteq {"fingerprint"})
            => ~ (findings \subseteq {"fingerprint"})
      BY <2>1
    <3> QED BY <2>2, <2>3, <2>4, <3>1 DEF OutputInv, PointsInv
  <2> QED BY <2>5, <2>6, <2>7 DEF OutputInv
<1>10. ASSUME NEW points \in {0, 20}, Structure(points) PROVE OutputInv'
  <2>1. points \in Nat /\ (points > 0 => points >= 10)
    OBVIOUS
  <2> QED BY <1>10, <2>1, ChecksStep DEF Structure
<1>11. CASE UNCHANGED output
  <2>1. UNCHANGED <<check, score, findings, shingles, leaked, checked, found>>
    BY <1>11 DEF output
  <2> QED BY <2>1 DEF OutputInv, OutputTypeOK, SampleInv, Sampling, PointsInv,
             FingerprintPoints
<1> QED BY <1>1, <1>2, <1>3, <1>4, <1>5, <1>6, <1>7, <1>8, <1>9, <1>10, <1>11
        DEF OutputNext

\* Whatever the sizes of the context and of the sample and in whatever order
\* the set is gone through, the sample of the fingerprint is fair.
THEOREM FingerprintAlwaysFair == OutputSpec => []FingerprintIsFair
<1>1. OutputInv => FingerprintIsFair
  <2> SUFFICES ASSUME OutputInv, check \in {"structure", "done"}
               PROVE  /\ shingles <= SampleLimit => checked = shingles /\ found = leaked
                      /\ leaked = shingles => found = checked
                      /\ found <= leaked
                      /\ (leaked > 0 /\ shingles - leaked < SampleLimit) => found > 0
    BY DEF FingerprintIsFair
  <2>1. /\ shingles \in Nat /\ leaked \in 0..shingles /\ checked \in 0..shingles
        /\ found \in 0..checked /\ found <= leaked /\ SampleLimit \in Nat
        /\ checked - found <= shingles - leaked
        /\ ~ (checked < SampleLimit /\ checked < shingles)
    BY ExfiltrationAssumption
       DEF ExfiltrationAssumption, OutputInv, OutputTypeOK, SampleInv, Sampling
  <2> QED BY <2>1
<1> QED BY <1>1, InitOutput, OutputStep, PTL DEF OutputSpec

\* An output that is rated clear has no finding but a weak fingerprint.
THEOREM ClearNeverHasFinding == OutputSpec => []ClearHasNoFinding
<1>1. OutputInv => ClearHasNoFinding
  <2> SUFFICES ASSUME OutputInv, check = "done", Risk(score) = NONE
               PROVE  /\ findings \subseteq {"fingerprint"}
                      /\ 4 * found < checked \/ checked = 0
    BY DEF ClearHasNoFinding
  <2>1. /\ checked \in Nat /\ found \in Nat /\ score \in Nat
        /\ ~ (findings \subseteq {"fingerprint"}) => score >= 10
        /\ score >= FingerprintPoints
    BY ExfiltrationAssumption
       DEF ExfiltrationAssumption, OutputInv, OutputTypeOK, PointsInv
  <2>2. score < 10
    BY <2>1 DEF Risk, NONE, LOW, MEDIUM, HIGH, CRITICAL
  <2>3. ASSUME checked # 0, 4 * found >= checked PROVE FALSE
    <3> DEFINE n == 40 * found
               q == n \div checked
    <3>1. n \in Nat /\ n >= 10 * checked /\ checked \in Nat \ {0}
      BY <2>1, <2>3
    <3>2. FingerprintPoints = q
      BY <2>3 DEF FingerprintPoints
    <3>3. q \in Nat /\ n < (q + 1) * checked
      <4> HIDE DEF n
      <4> QED BY <3>1
    <3>4. q < 10
      BY <2>1, <2>2, <3>2, <3>3
    <3> HIDE DEF n, q
    <3>5. (q + 1) * checked <= 10 * checked
      <4>1. PICK d \in Nat : 10 = (q + 1) + d
        BY <3>3, <3>4, 10 - (q + 1) \in Nat
      <4>2. 10 * checked = (q + 1) * checked + d * checked /\ d * checked \in Nat
        BY <3>1, <3>3, <4>1
      <4>3. (q + 1) * checked \in Nat
        BY <3>1, <3>3
      <4> QED BY <4>2, <4>3
    <3>6. (q + 1) * checked \in Nat
      BY <3>1, <3>3
    <3> QED BY <3>1, <3>3, <3>5, <3>6
  <2> QED BY <2>1, <2>2, <2>3
<1> QED BY <1>1, InitOutput, OutputStep, PTL DEF OutputSpec

(***************************************************************************)
(* Proofs about the seccomp document: for any system calls, any dangerous  *)
(* sets, any profile of Podman's and any number of calls on the object.    *)
(***************************************************************************)
ProfileAssumption ==
  Base.default \in SeccompAction /\ Base.rules \in Seq(Rule)

ProfileInv == mode \in {"deny", "harden"}

\* A nonempty set of natural numbers has a least one.
LEMMA LeastNumber ==
  ASSUME NEW T, T \subseteq Nat, T # {}
  PROVE  \E n \in T : \A k \in T : n <= k
<1>1. PICK n \in T : \A k \in T : ~ (<<k, n>> \in OpToRel(<, Nat))
  BY NatLessThanWellFounded, WFMin
<1>2. \A k \in T : ~ (k < n)
  BY <1>1 DEF OpToRel
<1> QED BY <1>2

\* The first rule that names a system call decides about it.
LEMMA FirstRuleDecides ==
  ASSUME NEW document, Len(document.rules) \in Nat,
         NEW s, NEW i \in 1..Len(document.rules),
         s \in document.rules[i].names,
         \A j \in 1..Len(document.rules) : j < i => s \notin document.rules[j].names
  PROVE  Effective(document, s) = document.rules[i].action
<1> DEFINE Least(k) == \A j \in Naming(document, s) : k <= j
           first == CHOOSE k \in Naming(document, s) : Least(k)
<1>1. i \in Naming(document, s) /\ Least(i)
  BY DEF Naming
<1>2. first \in Naming(document, s) /\ Least(first)
  <2> HIDE DEF Least
  <2> QED BY <1>1
<1>3. first = i
  <2>1. first <= i /\ i <= first
    BY <1>1, <1>2
  <2>2. first \in Int
    BY <1>2 DEF Naming
  <2> HIDE DEF first
  <2> QED BY <2>1, <2>2
<1>4. Naming(document, s) # {}
  BY <1>1
<1>5. Effective(document, s) = document.rules[first].action
  BY <1>4 DEF Effective
<1> QED BY <1>3, <1>5

\* Without a rule the default decides.
LEMMA DefaultDecides ==
  ASSUME NEW document, NEW s,
         \A j \in 1..Len(document.rules) : s \notin document.rules[j].names
  PROVE  Effective(document, s) = document.default
BY DEF Effective, Naming

\* A call that a document lets through is let through by its first rule, or by
\* the default.
LEMMA PermittedByFirst ==
  ASSUME NEW document, Len(document.rules) \in Nat, NEW s \in Permitted(document)
  PROVE  \/ /\ document.default \in {"ALLOW", "LOG"}
            /\ \A j \in 1..Len(document.rules) : s \notin document.rules[j].names
         \/ \E i \in 1..Len(document.rules) :
              /\ s \in document.rules[i].names
              /\ \A j \in 1..Len(document.rules) :
                   j < i => s \notin document.rules[j].names
              /\ document.rules[i].action \in {"ALLOW", "LOG"}
<1> DEFINE Listed(j) == s \in document.rules[j].names
           n == Len(document.rules)
<1>0. Effective(document, s) \in {"ALLOW", "LOG"}
  BY DEF Permitted
<1>1. CASE \A j \in 1..n : ~Listed(j)
  BY <1>0, <1>1, DefaultDecides
<1>2. CASE \E j \in 1..n : Listed(j)
  <2>1. PICK i \in 1..n : Listed(i) /\ \A j \in 1..n : Listed(j) => i <= j
    <3> DEFINE S == {j \in 1..n : Listed(j)}
    <3>1. S \in SUBSET Nat /\ S # {}
      BY <1>2
    <3>2. PICK i \in S : \A j \in S : i <= j
      <4> HIDE DEF S
      <4> QED BY <3>1, LeastNumber
    <3> QED BY <3>2
  <2>2. \A j \in 1..n : j < i => ~Listed(j)
    <3> HIDE DEF Listed, n
    <3> SUFFICES ASSUME NEW j \in 1..n, j < i, Listed(j) PROVE FALSE
      OBVIOUS
    <3>1. i <= j /\ i \in Int /\ j \in Int
      BY <2>1
    <3> QED BY <3>1
  <2>3. document.rules[i].action = Effective(document, s)
    BY <2>1, <2>2, FirstRuleDecides
  <2> QED BY <1>0, <2>1, <2>2, <2>3
<1> QED BY <1>1, <1>2

\* What is where in a list of rules put together.
LEMMA SevenRules ==
  ASSUME NEW first, NEW b1, NEW b2, NEW b3, NEW b4, NEW b5, NEW last,
         NEW rules, rules = <<first>> \o <<b1, b2, b3, b4, b5>> \o <<last>>
  PROVE  /\ Len(rules) = 7
         /\ rules[1] = first /\ rules[2] = b1 /\ rules[3] = b2 /\ rules[4] = b3
         /\ rules[5] = b4 /\ rules[6] = b5 /\ rules[7] = last
OBVIOUS

LEMMA TwoRulesBefore ==
  ASSUME NEW S, NEW rest \in Seq(S), NEW r1 \in S, NEW r2 \in S,
         NEW rules, rules = <<r1, r2>> \o rest
  PROVE  /\ Len(rest) \in Nat /\ Len(rules) = 2 + Len(rest)
         /\ rules[1] = r1 /\ rules[2] = r2
         /\ \A j \in 1..Len(rest) : rules[j + 2] = rest[j]
<1> DEFINE head == <<r1, r2>>
<1>1. head \in Seq(S) /\ Len(head) = 2 /\ head[1] = r1 /\ head[2] = r2
  OBVIOUS
<1>2. Len(rest) \in Nat
  BY LenProperties
<1>3. rules = head \o rest
  OBVIOUS
<1> HIDE DEF head
<1>4. Len(rules) = 2 + Len(rest) /\ rules[1] = r1 /\ rules[2] = r2
  BY <1>1, <1>2, <1>3, ConcatProperties
<1>5. ASSUME NEW j \in 1..Len(rest) PROVE rules[j + 2] = rest[j]
  <2>0. \A i \in 1..(Len(head) + Len(rest)) :
          (head \o rest)[i] = IF i <= Len(head) THEN head[i] ELSE rest[i - Len(head)]
    BY <1>1, ConcatProperties
  <2>1. j + 2 \in 1..(2 + Len(rest)) /\ ~(j + 2 <= 2) /\ (j + 2) - 2 = j
    BY <1>2
  <2>2. (head \o rest)[j + 2] = rest[(j + 2) - 2]
    BY <1>1, <2>0, <2>1
  <2> QED BY <1>3, <2>1, <2>2
<1> QED BY <1>2, <1>4, <1>5

\* The document of a profile from scratch, rule by rule.
LEMMA DenyRules ==
  /\ Len(DenyDocument.rules) = 7
  /\ DenyDocument.rules[1] = [names |-> Blocklist, action |-> "KILL"]
  /\ DenyDocument.rules[2] = BlockedRule("KILL")
  /\ DenyDocument.rules[3] = BlockedRule("ERRNO")
  /\ DenyDocument.rules[4] = BlockedRule("TRACE")
  /\ DenyDocument.rules[5] = BlockedRule("LOG")
  /\ DenyDocument.rules[6] = BlockedRule("ALLOW")
  /\ DenyDocument.rules[7] = [names |-> allowed \ (Blocklist \cup DOMAIN blocked),
                              action |-> IF audit THEN "LOG" ELSE "ALLOW"]
<1> DEFINE kill == [names |-> Blocklist, action |-> "KILL"]
           allow == [names |-> allowed \ (Blocklist \cup DOMAIN blocked),
                     action |-> IF audit THEN "LOG" ELSE "ALLOW"]
<1>1. DenyDocument.rules = (<<kill>> \o BlockedRules) \o <<allow>>
  BY DEF DenyDocument
<1> HIDE DEF kill, allow
<1>2. DenyDocument.rules =
        <<kill>> \o << BlockedRule("KILL"), BlockedRule("ERRNO"), BlockedRule("TRACE"),
                       BlockedRule("LOG"), BlockedRule("ALLOW") >> \o <<allow>>
  BY <1>1 DEF BlockedRules
<1>3. /\ Len(DenyDocument.rules) = 7
      /\ DenyDocument.rules[1] = kill /\ DenyDocument.rules[7] = allow
      /\ DenyDocument.rules[2] = BlockedRule("KILL")
      /\ DenyDocument.rules[3] = BlockedRule("ERRNO")
      /\ DenyDocument.rules[4] = BlockedRule("TRACE")
      /\ DenyDocument.rules[5] = BlockedRule("LOG")
      /\ DenyDocument.rules[6] = BlockedRule("ALLOW")
  BY <1>2, SevenRules
<1> QED BY <1>3 DEF kill, allow

\* The document of a hardened profile: two rules, then those of the base.
LEMMA HardenedRules ==
  ASSUME ProfileAssumption
  PROVE  /\ Len(Base.rules) \in Nat
         /\ Len(HardenedDocument.rules) = 2 + Len(Base.rules)
         /\ HardenedDocument.rules[1] =
              [names |-> HardenKill \cup WithAction("KILL"), action |-> "KILL"]
         /\ HardenedDocument.rules[2] = BlockedRule("ERRNO")
         /\ \A j \in 1..Len(Base.rules) :
              HardenedDocument.rules[j + 2] = Base.rules[j]
<1> DEFINE kill == [names |-> HardenKill \cup WithAction("KILL"), action |-> "KILL"]
           all == Rule \cup {kill, BlockedRule("ERRNO")}
<1>1. HardenedDocument.rules = <<kill, BlockedRule("ERRNO")>> \o Base.rules
  BY DEF HardenedDocument
<1>2. Base.rules \in Seq(all)
  <2>1. Base.rules \in [1..Len(Base.rules) -> all] /\ Len(Base.rules) \in Nat
    BY LenProperties, ElementOfSeq DEF ProfileAssumption
  <2> QED BY <2>1, SeqDef
<1>3. kill \in all /\ BlockedRule("ERRNO") \in all
  OBVIOUS
<1> HIDE DEF kill, all
<1> QED BY <1>1, <1>2, <1>3, TwoRulesBefore DEF kill

-----------------------------------------------------------------------------
\* What the first rules kill or fail is refused, in either mode.
LEMMA RefusedByDeny ==
  ASSUME NEW s, s \in Blocklist \/ s \in WithAction("KILL") \/ s \in WithAction("ERRNO")
  PROVE  Effective(DenyDocument, s) \in {"KILL", "ERRNO"}
<1> DEFINE rules == DenyDocument.rules
           Before(i) == \A j \in 1..Len(rules) : j < i => s \notin rules[j].names
<1>0. /\ Len(rules) = 7
      /\ rules[1].names = Blocklist /\ rules[1].action = "KILL"
      /\ rules[2].names = WithAction("KILL") /\ rules[2].action = "KILL"
      /\ rules[3].names = WithAction("ERRNO") /\ rules[3].action = "ERRNO"
  BY DenyRules DEF BlockedRule
<1>1. ASSUME NEW i \in 1..7, s \in rules[i].names, Before(i)
      PROVE  Effective(DenyDocument, s) = rules[i].action
  <2>1. /\ Len(DenyDocument.rules) \in Nat /\ i \in 1..Len(DenyDocument.rules)
        /\ s \in DenyDocument.rules[i].names
        /\ \A j \in 1..Len(DenyDocument.rules) :
             j < i => s \notin DenyDocument.rules[j].names
    BY <1>0, <1>1
  <2> QED BY <2>1, FirstRuleDecides
<1> HIDE DEF rules
<1>2. CASE s \in Blocklist
  <2>1. Before(1)
    BY <1>0
  <2> QED BY <1>0, <1>1, <1>2, <2>1
<1>3. CASE s \notin Blocklist /\ s \in WithAction("KILL")
  <2>1. Before(2)
    BY <1>0, <1>3
  <2>2. Effective(DenyDocument, s) = rules[2].action
    BY <1>0, <1>1, <1>3, <2>1
  <2> QED BY <1>0, <2>2
<1>4. CASE s \notin Blocklist /\ s \in WithAction("ERRNO")
  <2>1. s \notin WithAction("KILL")
    BY <1>4 DEF WithAction
  <2>2. \A j \in 1..7 : j < 3 => (j = 1 \/ j = 2)
    OBVIOUS
  <2>3. Before(3)
    BY <1>0, <1>4, <2>1, <2>2
  <2>4. Effective(DenyDocument, s) = rules[3].action
    BY <1>0, <1>1, <1>4, <2>3
  <2> QED BY <1>0, <2>4
<1> QED BY <1>2, <1>3, <1>4

LEMMA RefusedByHardened ==
  ASSUME ProfileAssumption,
         NEW s, s \in HardenKill \/ s \in WithAction("KILL") \/ s \in WithAction("ERRNO")
  PROVE  Effective(HardenedDocument, s) \in {"KILL", "ERRNO"}
<1> DEFINE n == Len(HardenedDocument.rules)
<1>1. n \in Nat /\ 1 \in 1..n /\ 2 \in 1..n
  BY HardenedRules
<1>2. CASE s \in HardenKill \cup WithAction("KILL")
  <2>1. s \in HardenedDocument.rules[1].names /\ HardenedDocument.rules[1].action = "KILL"
    BY <1>2, HardenedRules
  <2>2. \A j \in 1..n : ~(j < 1)
    BY <1>1
  <2> QED BY <1>1, <2>1, <2>2, FirstRuleDecides
<1>3. CASE s \notin HardenKill \cup WithAction("KILL")
  <2>1. s \in HardenedDocument.rules[2].names /\ HardenedDocument.rules[2].action = "ERRNO"
    BY <1>3, HardenedRules DEF BlockedRule
  <2>2. s \notin HardenedDocument.rules[1].names
    BY <1>3, HardenedRules
  <2>3. \A j \in 1..n : j < 2 => j = 1
    BY <1>1
  <2> QED BY <1>1, <2>1, <2>2, <2>3, FirstRuleDecides
<1> QED BY <1>2, <1>3

\* What is on a list of the mode, or was last blocked with KILL or ERRNO, is
\* refused by the document of to_dict, in audit mode too: for any sets of system
\* calls, any profile of Podman's and any number of calls on the object.
THEOREM BlockedAlwaysRefused ==
  ASSUME ProfileAssumption
  PROVE  ProfileSpec => []BlockedIsRefused
<1>1. BlockedIsRefused
  <2> SUFFICES ASSUME NEW s \in MustRefuse PROVE s \notin Permitted(Document)
    BY DEF BlockedIsRefused
  <2>1. Effective(Document, s) \in {"KILL", "ERRNO"}
    <3>1. CASE mode = "harden"
      BY <3>1, RefusedByHardened DEF MustRefuse, Document
    <3>2. CASE mode # "harden"
      BY <3>2, RefusedByDeny DEF MustRefuse, Document
    <3> QED BY <3>1, <3>2
  <2> QED BY <2>1 DEF Permitted
<1> QED BY <1>1, PTL

-----------------------------------------------------------------------------
LEMMA InitProfile == ProfileInit => ProfileInv
BY DEF ProfileInit, ProfileInv

LEMMA NextProfile == ProfileInv /\ [ProfileNext]_profile => ProfileInv'
<1>1. ProfileInv /\ [ProfileNext]_profile => UNCHANGED mode
  BY DEF ProfileNext, profile, AddSyscalls, AllowNetwork, BlockSyscall
<1> QED BY <1>1 DEF ProfileInv

\* A call that a profile from scratch lets through has a rule that allows it.
LEMMA DenyPermits ==
  ASSUME ProfileInv, mode = "deny", ~audit, default \notin {"ALLOW", "LOG"},
         NEW s \in Permitted(DenyDocument)
  PROVE  s \in allowed \cup WithAction("LOG") \cup WithAction("ALLOW")
<1> DEFINE rules == DenyDocument.rules
<1>1. /\ Len(rules) = 7
      /\ rules[1].action = "KILL" /\ rules[2].action = "KILL"
      /\ rules[3].action = "ERRNO" /\ rules[4].action = "TRACE"
      /\ rules[5].names = WithAction("LOG") /\ rules[6].names = WithAction("ALLOW")
      /\ rules[7].names \subseteq allowed
  BY DenyRules DEF BlockedRule
<1>2. DenyDocument.default \notin {"ALLOW", "LOG"}
  BY DEF DenyDocument
<1>3. PICK i \in 1..7 : s \in rules[i].names /\ rules[i].action \in {"ALLOW", "LOG"}
  <2>1. Len(DenyDocument.rules) \in Nat
    BY <1>1
  <2> QED BY <1>1, <1>2, <2>1, PermittedByFirst
<1>4. i \in {1, 2, 3, 4} \/ i \in {5, 6, 7}
  BY <1>3
<1> HIDE DEF rules
<1>5. i \in {5, 6, 7}
  BY <1>1, <1>3, <1>4
<1> QED BY <1>1, <1>3, <1>5

\* A call that a hardened profile lets through is decided by the same rule of
\* the base, or by its default, when Podman's own profile is used.
LEMMA HardenedPermits ==
  ASSUME ProfileAssumption, NEW s \in Permitted(HardenedDocument)
  PROVE  Effective(Base, s) \in {"ALLOW", "LOG"}
<1> DEFINE rules == HardenedDocument.rules
           n == Len(Base.rules)
<1>1. /\ n \in Nat /\ Len(rules) = 2 + n
      /\ rules[1].action = "KILL" /\ rules[2].action = "ERRNO"
      /\ \A j \in 1..n : rules[j + 2] = Base.rules[j]
  BY HardenedRules DEF BlockedRule
<1>2. HardenedDocument.default = Base.default
  BY DEF HardenedDocument
<1>3. Len(HardenedDocument.rules) \in Nat
  BY <1>1
<1>4. \/ /\ HardenedDocument.default \in {"ALLOW", "LOG"}
         /\ \A j \in 1..Len(rules) : s \notin rules[j].names
      \/ \E i \in 1..Len(rules) :
           /\ s \in rules[i].names
           /\ \A j \in 1..Len(rules) : j < i => s \notin rules[j].names
           /\ rules[i].action \in {"ALLOW", "LOG"}
  BY <1>3, PermittedByFirst
<1> HIDE DEF rules, n
<1>5. ASSUME NEW j \in 1..n PROVE j + 2 \in 1..Len(rules) /\ rules[j + 2] = Base.rules[j]
  BY <1>1
<1>6. CASE /\ HardenedDocument.default \in {"ALLOW", "LOG"}
           /\ \A j \in 1..Len(rules) : s \notin rules[j].names
  <2>1. \A j \in 1..Len(Base.rules) : s \notin Base.rules[j].names
    BY <1>5, <1>6 DEF n
  <2> QED BY <1>2, <1>6, <2>1, DefaultDecides
<1>7. ASSUME NEW i \in 1..Len(rules), s \in rules[i].names,
             \A j \in 1..Len(rules) : j < i => s \notin rules[j].names,
             rules[i].action \in {"ALLOW", "LOG"}
      PROVE  Effective(Base, s) \in {"ALLOW", "LOG"}
  <2>1. i # 1 /\ i # 2
    BY <1>1, <1>7
  <2>2. i - 2 \in 1..n /\ rules[i] = Base.rules[i - 2]
    <3>1. i - 2 \in 1..n /\ (i - 2) + 2 = i
      BY <1>1, <2>1
    <3> QED BY <1>5, <3>1
  <2>3. ASSUME NEW j \in 1..n, j < i - 2 PROVE s \notin Base.rules[j].names
    <3>1. j + 2 < i
      BY <1>1, <2>3
    <3> QED BY <1>5, <1>7, <3>1
  <2>4. Len(Base.rules) \in Nat /\ i - 2 \in 1..Len(Base.rules)
    BY <1>1, <2>2 DEF n
  <2>5. s \in Base.rules[i - 2].names
    BY <1>7, <2>2
  <2>6. \A j \in 1..Len(Base.rules) : j < i - 2 => s \notin Base.rules[j].names
    BY <2>3 DEF n
  <2>7. Effective(Base, s) = Base.rules[i - 2].action
    BY <2>4, <2>5, <2>6, FirstRuleDecides
  <2> QED BY <1>7, <2>2, <2>7
<1> QED BY <1>4, <1>6, <1>7

\* A profile from scratch permits nothing that it was not told to permit, and
\* from_podman_default never permits a call that Podman's own profile refuses.
THEOREM NothingElseEverPermitted ==
  ASSUME ProfileAssumption
  PROVE  ProfileSpec => []NothingElsePermitted
<1>1. ProfileInv => NothingElsePermitted
  <2> SUFFICES ASSUME ProfileInv PROVE NothingElsePermitted
    OBVIOUS
  <2>1. ASSUME mode = "deny", ~audit, default \notin {"ALLOW", "LOG"}
        PROVE  Permitted(Document) \subseteq
                 allowed \cup WithAction("LOG") \cup WithAction("ALLOW")
    <3>1. Document = DenyDocument
      BY <2>1 DEF Document
    <3> QED BY <2>1, <3>1, DenyPermits
  <2>2. ASSUME mode = "harden" PROVE Permitted(Document) \subseteq Permitted(Base)
    <3>1. Document = HardenedDocument
      BY <2>2 DEF Document
    <3>2. Permitted(HardenedDocument) \subseteq Syscalls
      BY DEF Permitted
    <3>3. ASSUME NEW s \in Permitted(HardenedDocument) PROVE s \in Permitted(Base)
      BY <3>2, HardenedPermits DEF Permitted
    <3> QED BY <3>1, <3>3
  <2> QED BY <2>1, <2>2 DEF NothingElsePermitted
<1> QED BY <1>1, InitProfile, NextProfile, PTL DEF ProfileSpec

-----------------------------------------------------------------------------
(***************************************************************************)
(* Proofs about the shared seccomp file: for any number of processes and   *)
(* documents of any number of pieces.                                      *)
(***************************************************************************)
FileAssumption ==
  /\ Versions \subseteq Nat \ {0} /\ 1 \in Versions
  /\ Pieces \in Nat /\ NoOne \notin Processes

Piece == Versions \cup {Hole}

\* The first n pieces of the document are in the file.
Through(n) == n <= Len(pieces) /\ \A i \in 1..n : pieces[i] = 1

\* As long as one document is written: what is behind the offset of the writer
\* that truncated the file last is in the file, and all of it once that writer
\* has closed it.  Of the others a piece may be missing behind the offset.
OneDocument ==
  /\ \A p \in Processes : Writing(p) => writer[p].version = 1
  /\ (exists /\ opener = NoOne) => Through(Pieces)
  /\ \A p \in Processes :
       (opener = p /\ Writing(p) /\ writer[p].offset \in 0..Pieces) =>
         Through(writer[p].offset)

FileInv ==
  /\ base \in Versions
  /\ writer \in [Processes -> [version: Nat, offset: -1..Pieces]]
  /\ pieces \in Seq(Piece) /\ Len(pieces) <= Pieces
  /\ \A p \in Processes : Writing(p) => writer[p].version \in Versions
  /\ base = 1 => OneDocument

\* A writer that moves to another offset still writes the same document.
LEMMA OffsetMoved ==
  ASSUME NEW w \in [version: Nat, offset: -1..Pieces], NEW k \in -1..Pieces
  PROVE  /\ [w EXCEPT !.offset = k] \in [version: Nat, offset: -1..Pieces]
         /\ [w EXCEPT !.offset = k].version = w.version
         /\ [w EXCEPT !.offset = k].offset = k
OBVIOUS

\* The file after a piece was written.
LEMMA PieceWritten ==
  ASSUME NEW content \in Seq(Piece), NEW offset \in Nat, NEW piece \in Piece
  PROVE  LET result == WithPiece(content, offset, piece)
         IN /\ result \in Seq(Piece)
            /\ Len(result) = IF Len(content) > offset THEN Len(content) ELSE offset + 1
            /\ \A i \in 1..Len(result) :
                 result[i] = IF i = offset + 1 THEN piece
                             ELSE IF i <= Len(content) THEN content[i] ELSE Hole
<1> DEFINE n == IF Len(content) > offset THEN Len(content) ELSE offset + 1
           result == WithPiece(content, offset, piece)
<1>1. Len(content) \in Nat /\ n \in Nat
  BY LenProperties
<1>2. result = [i \in 1..n |-> IF i = offset + 1 THEN piece
                               ELSE IF i <= Len(content) THEN content[i] ELSE Hole]
  BY DEF WithPiece
<1>3. \A i \in 1..Len(content) : content[i] \in Piece
  BY ElementOfSeq
<1>4. result \in [1..n -> Piece]
  <2> HIDE DEF result, n
  <2> SUFFICES ASSUME NEW i \in 1..n
               PROVE  (IF i = offset + 1 THEN piece
                       ELSE IF i <= Len(content) THEN content[i] ELSE Hole) \in Piece
    BY <1>2
  <2>1. CASE i <= Len(content)
    BY <1>1, <1>3, <2>1
  <2>2. CASE ~(i <= Len(content))
    BY <2>2 DEF Piece
  <2> QED BY <2>1, <2>2
<1>5. result \in Seq(Piece) /\ Len(result) = n
  <2> HIDE DEF result, n
  <2> QED BY <1>1, <1>4
<1>6. \A i \in 1..n :
        result[i] = IF i = offset + 1 THEN piece
                    ELSE IF i <= Len(content) THEN content[i] ELSE Hole
  <2> HIDE DEF result, n
  <2> QED BY <1>2
<1> QED BY <1>5, <1>6

LEMMA InitFile == FileAssumption /\ FileInit => FileInv
<1> SUFFICES ASSUME FileAssumption, FileInit PROVE FileInv
  OBVIOUS
<1>1. pieces \in Seq(Piece) /\ Len(pieces) = 0
  BY EmptySeq DEF FileInit
<1>2. \A p \in Processes : ~Writing(p)
  BY DEF FileInit, Writing
<1>3. writer \in [Processes -> [version: Nat, offset: -1..Pieces]]
  BY DEF FileInit, NotWriting, FileAssumption
<1> QED BY <1>1, <1>2, <1>3 DEF FileInit, FileInv, OneDocument, FileAssumption

LEMMA GenerateStep ==
  ASSUME FileAssumption, FileInv, NEW p \in Processes, Generate(p)
  PROVE  FileInv'
<1>1. /\ ~Writing(p)
      /\ writer' = [writer EXCEPT ![p] = [version |-> base, offset |-> -1]]
      /\ UNCHANGED <<exists, pieces, base, opener>>
  BY DEF Generate
<1>2. /\ writer' \in [Processes -> [version: Nat, offset: -1..Pieces]]
      /\ writer'[p].offset = -1 /\ writer'[p].version = base
      /\ \A q \in Processes \ {p} : writer'[q] = writer[q]
  BY <1>1 DEF FileInv, FileAssumption
<1>3. \A q \in Processes : Writing(q)' =>
        /\ writer'[q].version \in Versions
        /\ base = 1 => writer'[q].version = 1
  BY <1>1, <1>2 DEF FileInv, OneDocument, Writing
<1>4. ASSUME base = 1, NEW q \in Processes, opener = q, Writing(q)',
             writer'[q].offset \in 0..Pieces
      PROVE  Through(writer[q].offset) /\ writer'[q] = writer[q]
  <2>1. q # p
    BY <1>2, <1>4
  <2> QED BY <1>2, <1>4, <2>1 DEF FileInv, OneDocument, Writing
<1>5. base = 1 => OneDocument'
  BY <1>1, <1>3, <1>4 DEF FileInv, OneDocument, Through
<1> QED BY <1>1, <1>2, <1>3, <1>5 DEF FileInv

LEMMA OpenStep ==
  ASSUME FileAssumption, FileInv, NEW p \in Processes, Open(p)
  PROVE  FileInv'
<1>1. /\ Writing(p) /\ pieces' = <<>> /\ opener' = p
      /\ writer' = [writer EXCEPT ![p].offset = 0]
      /\ UNCHANGED base
  BY DEF Open
<1>2. /\ writer' \in [Processes -> [version: Nat, offset: -1..Pieces]]
      /\ writer'[p] = [writer[p] EXCEPT !.offset = 0]
      /\ \A q \in Processes \ {p} : writer'[q] = writer[q]
  BY <1>1 DEF FileInv, FileAssumption
<1>3. pieces' \in Seq(Piece) /\ Len(pieces') = 0 /\ Pieces \in Nat
  BY <1>1, EmptySeq DEF FileAssumption
<1>4. /\ \A q \in Processes : writer'[q].version = writer[q].version
      /\ writer'[p].offset = 0
  <2>1. writer'[p].version = writer[p].version /\ writer'[p].offset = 0
    <3>1. writer[p] \in [version: Nat, offset: -1..Pieces] /\ 0 \in -1..Pieces
      BY DEF FileInv, FileAssumption
    <3> QED BY <1>2, <3>1, OffsetMoved
  <2> QED BY <1>2, <2>1
<1>5. \A q \in Processes : Writing(q)' =>
        /\ writer'[q].version \in Versions
        /\ base = 1 => writer'[q].version = 1
  BY <1>1, <1>2, <1>4 DEF FileInv, OneDocument, Writing
<1>6. base = 1 => OneDocument'
  <2>1. Through(0)'
    BY <1>3 DEF Through
  <2>2. opener' # NoOne
    BY <1>1 DEF FileAssumption
  <2>3. ASSUME NEW q \in Processes, opener' = q
        PROVE  Through(writer[q].offset)'
    <3>1. q = p /\ writer'[q].offset = 0
      BY <1>1, <1>4, <2>3
    <3> QED BY <1>3, <3>1 DEF Through
  <2> QED BY <1>1, <1>5, <2>2, <2>3 DEF OneDocument
<1> QED BY <1>1, <1>2, <1>3, <1>5, <1>6 DEF FileInv

\* A piece that is written is the one piece its writer moves past, and takes
\* none of the document away.
LEMMA WriteStep ==
  ASSUME FileAssumption, FileInv, NEW p \in Processes, Write(p)
  PROVE  FileInv'
<1> DEFINE offset == writer[p].offset
           version == writer[p].version
<1>1. /\ Writing(p) /\ offset \in 0..(Pieces - 1)
      /\ pieces' = WithPiece(pieces, offset, version)
      /\ writer' = [writer EXCEPT ![p].offset = offset + 1]
      /\ UNCHANGED <<exists, base, opener>>
  BY DEF Write
<1>2. offset \in Nat /\ offset + 1 <= Pieces /\ Pieces \in Nat
  BY <1>1 DEF FileAssumption
<1>3. /\ writer' \in [Processes -> [version: Nat, offset: -1..Pieces]]
      /\ writer'[p] = [writer[p] EXCEPT !.offset = offset + 1]
      /\ \A q \in Processes \ {p} : writer'[q] = writer[q]
  BY <1>1, <1>2 DEF FileInv
<1>4. /\ \A q \in Processes : writer'[q].version = writer[q].version
      /\ writer'[p].offset = offset + 1
  <2>1. writer'[p].version = writer[p].version /\ writer'[p].offset = offset + 1
    <3>1. writer[p] \in [version: Nat, offset: -1..Pieces] /\ offset + 1 \in -1..Pieces
      BY <1>2 DEF FileInv
    <3> HIDE DEF offset
    <3> QED BY <1>3, <3>1, OffsetMoved
  <2> QED BY <1>3, <2>1
<1>5. \A q \in Processes : Writing(q)' =>
        /\ writer'[q].version \in Versions
        /\ base = 1 => writer'[q].version = 1
  BY <1>1, <1>3, <1>4 DEF FileInv, OneDocument, Writing
<1>6. version \in Piece
  BY <1>1 DEF FileInv, Piece
<1>7. /\ pieces' \in Seq(Piece)
      /\ Len(pieces') = IF Len(pieces) > offset THEN Len(pieces) ELSE offset + 1
      /\ \A i \in 1..Len(pieces') :
           pieces'[i] = IF i = offset + 1 THEN version
                        ELSE IF i <= Len(pieces) THEN pieces[i] ELSE Hole
  <2>1. pieces \in Seq(Piece)
    BY DEF FileInv
  <2> DEFINE result == WithPiece(pieces, offset, version)
  <2> HIDE DEF offset, version
  <2>2. /\ result \in Seq(Piece)
        /\ Len(result) = IF Len(pieces) > offset THEN Len(pieces) ELSE offset + 1
        /\ \A i \in 1..Len(result) :
             result[i] = IF i = offset + 1 THEN version
                         ELSE IF i <= Len(pieces) THEN pieces[i] ELSE Hole
    BY <1>2, <1>6, <2>1, PieceWritten
  <2>3. pieces' = result
    BY <1>1
  <2> HIDE DEF result
  <2> QED BY <2>2, <2>3
<1>8. Len(pieces) \in Nat /\ Len(pieces) <= Pieces
  BY LenProperties DEF FileInv
<1>9. Len(pieces') <= Pieces /\ Len(pieces') \in Nat
  BY <1>2, <1>7, <1>8
<1>10. ASSUME base = 1 PROVE OneDocument'
  <2>1. version = 1
    BY <1>1, <1>10 DEF FileInv, OneDocument
  <2> DEFINE first(n) == n <= Len(pieces') /\ \A i \in 1..n : pieces'[i] = 1
  <2>2. ASSUME NEW n \in 0..Pieces, Through(n) PROVE first(n)
    <3>1. n <= Len(pieces) /\ n <= Len(pieces') /\ n \in Nat
      BY <1>2, <1>7, <1>8, <2>2 DEF Through
    <3>2. ASSUME NEW i \in 1..n PROVE pieces'[i] = 1
      <4>1. i \in 1..Len(pieces') /\ i <= Len(pieces) /\ pieces[i] = 1
        BY <1>8, <1>9, <2>2, <3>1 DEF Through
      <4> HIDE DEF offset, version
      <4> QED BY <1>7, <2>1, <4>1
    <3> QED BY <3>1, <3>2
  <2>3. ASSUME Through(offset) PROVE first(offset + 1)
    <3> HIDE DEF version, offset
    <3>1. offset + 1 <= Len(pieces') /\ offset + 1 \in 1..Len(pieces')
      BY <1>2, <1>7, <1>8, <1>9
    <3>2. pieces'[offset + 1] = 1
      BY <1>7, <2>1, <3>1
    <3>3. \A i \in 1..offset : pieces'[i] = 1
      BY <1>2, <2>2, <2>3
    <3>4. \A i \in 1..(offset + 1) : i = offset + 1 \/ i \in 1..offset
      BY <1>2
    <3> QED BY <3>1, <3>2, <3>3, <3>4
  <2>4. ASSUME NEW q \in Processes, opener = q, Writing(q)',
               writer'[q].offset \in 0..Pieces
        PROVE  first(writer'[q].offset)
    <3>1. CASE q = p
      <4>1. Through(offset)
        BY <1>1, <1>2, <1>10, <2>4, <3>1 DEF FileInv, OneDocument
      <4>2. first(offset + 1)
        BY <2>3, <4>1
      <4> HIDE DEF first
      <4> QED BY <1>4, <3>1, <4>2
    <3>2. CASE q # p
      <4>1. writer'[q] = writer[q] /\ Writing(q)
        BY <1>3, <2>4, <3>2 DEF Writing
      <4>2. Through(writer[q].offset) /\ writer[q].offset \in 0..Pieces
        BY <1>10, <2>4, <4>1 DEF FileInv, OneDocument
      <4> QED BY <2>2, <4>1, <4>2
    <3> QED BY <3>1, <3>2
  <2>5. (exists /\ opener = NoOne) => first(Pieces)
    <3>1. Pieces \in 0..Pieces
      BY <1>2
    <3>2. (exists /\ opener = NoOne) => Through(Pieces)
      BY <1>10 DEF FileInv, OneDocument
    <3> HIDE DEF first
    <3> QED BY <2>2, <3>1, <3>2
  <2> HIDE DEF first
  <2>6. \A n : Through(n)' <=> first(n)
    BY DEF Through, first
  <2>7. \A q \in Processes :
          (opener' = q /\ Writing(q)' /\ writer'[q].offset \in 0..Pieces) =>
            first(writer'[q].offset)
    BY <1>1, <2>4
  <2>8. (exists' /\ opener' = NoOne) => first(Pieces)
    BY <1>1, <2>5
  <2>9. \A q \in Processes : Writing(q)' => writer'[q].version = 1
    BY <1>5, <1>10
  <2> QED BY <2>7, <2>8, <2>9 DEF OneDocument, Through, first
<1> QED BY <1>1, <1>3, <1>5, <1>7, <1>9, <1>10 DEF FileInv

\* Only a writer that has passed every piece closes the file.
LEMMA CloseStep ==
  ASSUME FileAssumption, FileInv, NEW p \in Processes, Close(p)
  PROVE  FileInv'
<1>1. /\ Writing(p) /\ writer[p].offset = Pieces
      /\ writer' = [writer EXCEPT ![p] = NotWriting]
      /\ opener' = IF opener = p THEN NoOne ELSE opener
      /\ UNCHANGED <<exists, pieces, base>>
  BY DEF Close
<1>2. /\ writer' \in [Processes -> [version: Nat, offset: -1..Pieces]]
      /\ writer'[p] = NotWriting
      /\ \A q \in Processes \ {p} : writer'[q] = writer[q]
  BY <1>1 DEF FileInv, FileAssumption, NotWriting
<1>3. \A q \in Processes : Writing(q)' => writer'[q] = writer[q] /\ Writing(q)
  BY <1>2 DEF Writing
<1>4. ASSUME base = 1 PROVE OneDocument'
  <2>1. opener = p => Through(Pieces)
    <3>1. Pieces \in 0..Pieces
      BY DEF FileAssumption
    <3> QED BY <1>1, <1>4, <3>1 DEF FileInv, OneDocument
  <2>2. (exists /\ opener' = NoOne) => Through(Pieces)
    BY <1>1, <1>4, <2>1 DEF FileInv, OneDocument
  <2>3. \A q \in Processes : opener' = q => opener = q
    BY <1>1 DEF FileAssumption
  <2> QED BY <1>1, <1>3, <1>4, <2>2, <2>3 DEF FileInv, OneDocument, Through
<1> QED BY <1>1, <1>2, <1>3, <1>4 DEF FileInv

\* A writer that fails or dies leaves the file as it is.
LEMMA GoneStep ==
  ASSUME FileAssumption, FileInv, NEW p \in Processes, SaveFails(p) \/ Crash(p)
  PROVE  FileInv'
<1>1. /\ writer' = [writer EXCEPT ![p] = NotWriting]
      /\ UNCHANGED <<exists, pieces, base, opener>>
  BY DEF SaveFails, Crash
<1>2. writer' \in [Processes -> [version: Nat, offset: -1..Pieces]]
  BY <1>1 DEF FileInv, FileAssumption, NotWriting
<1>3. \A q \in Processes : Writing(q)' => writer'[q] = writer[q] /\ Writing(q)
  BY <1>1 DEF FileInv, Writing
<1> QED BY <1>1, <1>2, <1>3 DEF FileInv, OneDocument, Through

\* What happens around the writers ends the file, or the one document.
LEMMA OutsideStep ==
  ASSUME FileAssumption, FileInv, Clean \/ Upgrade
  PROVE  FileInv'
<1>1. CASE Clean
  <2>1. /\ exists' = FALSE /\ pieces' = <<>>
        /\ \A p \in Processes : ~Writing(p)
        /\ UNCHANGED <<base, writer, opener>>
    BY <1>1 DEF Clean
  <2>2. pieces' \in Seq(Piece) /\ Len(pieces') <= Pieces
    BY <2>1, EmptySeq DEF FileAssumption
  <2> QED BY <2>1, <2>2 DEF FileInv, OneDocument, Writing
<1>2. CASE Upgrade
  <2>1. /\ base' = base + 1 /\ base' \in Versions
        /\ UNCHANGED <<exists, pieces, writer, opener>>
    BY <1>2 DEF Upgrade
  <2>2. base' # 1
    BY <2>1 DEF FileInv, FileAssumption
  <2> QED BY <2>1, <2>2 DEF FileInv, Writing
<1> QED BY <1>1, <1>2

LEMMA ClosedFile == FileAssumption /\ FileInv => ClosedFileIsWhole
<1> SUFFICES ASSUME FileAssumption, FileInv, exists, opener = NoOne, base = 1
             PROVE  Whole(1)
  BY DEF ClosedFileIsWhole
<1>1. Pieces <= Len(pieces) /\ \A i \in 1..Pieces : pieces[i] = 1
  BY DEF FileInv, OneDocument, Through
<1>2. Len(pieces) \in Nat /\ Len(pieces) <= Pieces /\ Pieces \in Nat
  BY LenProperties DEF FileInv, FileAssumption
<1>3. Len(pieces) = Pieces
  BY <1>1, <1>2
<1>4. pieces = [i \in 1..Len(pieces) |-> pieces[i]]
  BY DEF FileInv
<1>5. pieces = [i \in 1..Pieces |-> 1]
  BY <1>1, <1>3, <1>4
<1> QED BY <1>5 DEF Whole

\* For any number of processes that write the one document over each other,
\* truncating, writing, failing and dying in any order: the file is whole once
\* the write that truncated it last has come to its end.
THEOREM ClosedFileAlwaysWhole ==
  ASSUME FileAssumption PROVE FileSpec => []ClosedFileIsWhole
<1>1. FileInit => FileInv
  BY InitFile
<1>2. FileInv /\ [FileNext]_file => FileInv'
  <2> SUFFICES ASSUME FileInv, [FileNext]_file PROVE FileInv'
    OBVIOUS
  <2>1. CASE FileNext
    BY <2>1, GenerateStep, OpenStep, WriteStep, CloseStep, GoneStep, OutsideStep
       DEF FileNext
  <2>2. CASE UNCHANGED file
    BY <2>2 DEF file, FileInv, OneDocument, Through, Writing
  <2> QED BY <2>1, <2>2
<1>3. FileInv => ClosedFileIsWhole
  BY ClosedFile
<1> QED BY <1>1, <1>2, <1>3, PTL DEF FileSpec

-----------------------------------------------------------------------------
(***************************************************************************)
(* Proofs about the verification of images: for any names, digests and     *)
(* keys, any set of signatures, and tags that refer to any images, in the  *)
(* local store and in the registry, and are moved in either at any time.   *)
(***************************************************************************)
ImageAssumption == None \notin Digests /\ None # "verified"

\* Once the digest was compared, what is known of the image that is verified:
\* the local one was the pinned one, and a digest in the reference is its.
Compared ==
  /\ actual = manifest.digest
  /\ given # None => given = manifest.digest

ImageInv ==
  /\ stage = "inspect" => given = None
  /\ stage = "signature" => Compared
  /\ status # "verified" \/ stage = "idle"
  /\ VerifiedMeansPinned

LEMMA ImageInitially == ImageAssumption /\ ImageInit => ImageInv
BY DEF ImageAssumption, ImageInit, ImageInv, VerifiedMeansPinned

\* What leaves the verification as it is.
LEMMA TrustedStep ==
  ASSUME ImageInv, stage = "idle",
         UNCHANGED <<tags, stage, request, actual, cosigned, status>>
  PROVE  ImageInv'
BY DEF ImageInv, Compared, request, VerifiedMeansPinned, NeedsSignature,
       SignatureAccepted

\* A tag that is moved changes nothing of what was found before.
LEMMA MoveStep ==
  ASSUME ImageInv, NEW n \in Names, NEW d, MoveTag(n, d)
  PROVE  ImageInv'
BY DEF MoveTag, ImageInv, Compared, request, VerifiedMeansPinned, NeedsSignature,
       SignatureAccepted

LEMMA VerifyStep ==
  ASSUME ImageAssumption, ImageInv, NEW n \in Names, NEW d \in Digests \cup {None},
         Verify(n, d)
  PROVE  ImageInv'
<1>1. /\ given' = d /\ actual' = d
      /\ \/ stage' = "idle" /\ status' \in {"image_not_found", "digest_mismatch"}
         \/ stage' = "inspect" /\ status' = None /\ d = None
         \/ stage' = "signature" /\ status' = None /\ d # None /\ d = manifest'.digest
  BY DEF Verify, Returns
<1>2. status' # "verified"
  BY <1>1 DEF ImageAssumption
<1>3. stage' = "signature" => Compared'
  BY <1>1 DEF Compared
<1> QED BY <1>1, <1>2, <1>3 DEF ImageInv, VerifiedMeansPinned

LEMMA InspectStep ==
  ASSUME ImageAssumption, ImageInv, NEW d, InspectDigest(d)
  PROVE  ImageInv'
<1>1. /\ stage = "inspect" /\ actual' = d
      /\ UNCHANGED <<name, given, manifest>>
      /\ \/ stage' = "idle" /\ status' \in {"image_not_found", "digest_mismatch"}
         \/ stage' = "signature" /\ status' = None /\ d # None /\ d = manifest.digest
  BY DEF InspectDigest, Returns, request
<1>2. status' # "verified"
  BY <1>1 DEF ImageAssumption
<1>3. stage' = "signature" => Compared'
  BY <1>1 DEF Compared, ImageInv
<1> QED BY <1>1, <1>2, <1>3 DEF ImageInv, VerifiedMeansPinned

\* The end of a verification: without a signature, or with the answer of cosign.
LEMMA EndStep ==
  ASSUME ImageAssumption, ImageInv,
         \/ NoSignatureAsked
         \/ \E a \in {"verified", "signature_invalid", "cosign_unavailable", "unknown"} :
              Cosign(a)
  PROVE  ImageInv'
<1>1. /\ stage = "signature" /\ stage' = "idle"
      /\ UNCHANGED <<name, given, manifest, actual>>
  BY DEF NoSignatureAsked, Cosign, Returns, request
<1>2. Compared
  BY <1>1 DEF ImageInv
<1>3. VerifiedMeansPinned'
  <2> SUFFICES ASSUME status' = "verified"
               PROVE  /\ actual' = manifest'.digest
                      /\ NeedsSignature' => SignatureAccepted'
    BY DEF VerifiedMeansPinned
  <2>1. actual' = manifest'.digest
    BY <1>1, <1>2 DEF Compared
  <2>2. CASE NoSignatureAsked
    BY <1>1, <2>1, <2>2 DEF NoSignatureAsked, NeedsSignature
  <2>3. CASE \E a \in {"verified", "signature_invalid", "cosign_unavailable", "unknown"} :
               Cosign(a)
    <3>1. cosigned' = Resolved /\ <<manifest.key, Resolved>> \in Signed
      BY <2>3 DEF Cosign, Returns
    <3>2. given # None => Resolved = manifest.digest
      BY <1>2 DEF Compared, Resolved
    <3> QED BY <1>1, <2>1, <3>1, <3>2 DEF SignatureAccepted
  <2> QED BY <2>2, <2>3
<1> QED BY <1>1, <1>3 DEF ImageInv

LEMMA ImageStep == ImageAssumption /\ ImageInv /\ [ImageNext]_image => ImageInv'
<1> SUFFICES ASSUME ImageAssumption, ImageInv, [ImageNext]_image PROVE ImageInv'
  OBVIOUS
<1>1. CASE UNCHANGED image
  BY <1>1 DEF image, ImageInv, Compared, VerifiedMeansPinned, NeedsSignature,
              SignatureAccepted
<1>2. CASE ImageNext
  <2>1. ASSUME NEW n \in Names, NEW d \in Digests, NEW k \in Keys \cup {None},
               AddTrusted(n, d, k)
        PROVE  ImageInv'
    BY <2>1, TrustedStep DEF AddTrusted
  <2>2. ASSUME NEW n \in Names, RemoveTrusted(n) PROVE ImageInv'
    BY <2>2, TrustedStep DEF RemoveTrusted
  <2> QED BY <1>2, <2>1, <2>2, MoveStep, VerifyStep, InspectStep, EndStep DEF ImageNext
<1> QED BY <1>1, <1>2

\* A verified image is the one that was pinned, and where a signature is
\* required the key of its manifest has signed what cosign looked at, which is
\* the pinned image if it was named by its digest.
THEOREM VerifiedAlwaysPinned ==
  ASSUME ImageAssumption
  PROVE  ImageSpec => []VerifiedMeansPinned
<1>1. ImageInv => VerifiedMeansPinned
  BY DEF ImageInv
<1> QED BY <1>1, ImageInitially, ImageStep, PTL DEF ImageSpec
=============================================================================
