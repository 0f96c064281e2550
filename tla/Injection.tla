------------------------------ MODULE Injection ------------------------------
(***************************************************************************)
(* PromptInjectionDetector.scan of core/security/injection.py: the control *)
(* of the scan and its arithmetic.  A pattern is a member of one of three  *)
(* families; which of them match a text, in the original, the decoded or   *)
(* the leet-normalised variant, is left open.  Scores are in hundredths:   *)
(* every threshold is reached by an exact sum of the weights.              *)
(***************************************************************************)
EXTENDS Integers, FiniteSets

CONSTANTS Malicious,        \* MALICIOUS_PATTERNS
          Suspicious,       \* SUSPICIOUS_PATTERNS
          Obfuscation,      \* OBFUSCATION_PATTERNS and Base64Only
          Hidden,           \* zero-width and control characters
          Base64Only,       \* the text, stripped, is one base64 string
          Outer,            \* characters that stripping takes away
          BlockOnMalicious  \* PromptInjectionDetector.block_on_malicious

ASSUME InjectionAssumption ==
  /\ IsFiniteSet(Malicious) /\ IsFiniteSet(Suspicious)
  /\ IsFiniteSet(Obfuscation)
  /\ Hidden \subseteq Obfuscation /\ Base64Only \in Obfuscation \ Hidden
  /\ Outer \subseteq Obfuscation \ {Base64Only}
  /\ BlockOnMalicious \in BOOLEAN

VARIABLES step,     \* where scan is
          matches,  \* the patterns found, each counted once
          threat    \* InjectionResult.threat_level

vars == <<step, matches, threat>>

\* The threat levels in the order of their severity.
SAFE == 0
SUSPICIOUS == 1
MALICIOUS == 2

AtMost(limit, n) == IF n < limit THEN n ELSE limit

\* What the obfuscation patterns add up to before anything else matches:
\* base64 0.25, the others 0.15, hidden characters 0.15 more.
ObfuscationScore(found) ==
  15 * Cardinality(found \cap Obfuscation) + 15 * Cardinality(found \cap Hidden)
    + (IF Base64Only \in found THEN 10 ELSE 0)

\* Mutant: the obfuscation count is looked at before the suspicious one.
BaseScoreObfuscationFirst(m, s, o, single) ==
  IF m > 0 THEN AtMost(100, 75 + (m - 1) * 10)
  ELSE IF o >= 2 THEN 30
  ELSE IF s >= 3 THEN 60
  ELSE IF s >= 1 THEN 20 + s * 15
  ELSE single

\* The score of m malicious, s suspicious and o obfuscation patterns, before
\* the last addition; a higher family replaces what a lower one has scored.
BaseScore(m, s, o, single) ==
  IF m > 0 THEN AtMost(100, 75 + (m - 1) * 10)
  ELSE IF s >= 3 THEN 60
  ELSE IF s >= 1 THEN 20 + s * 15
  ELSE IF o >= 2 THEN 30
  ELSE single

\* Mutant: the obfuscation bonus is 0.1 per pattern.
TotalDoubled(m, s, o, single) == AtMost(100, BaseScore(m, s, o, single) + 10 * o)

Total(m, s, o, single) == AtMost(100, BaseScore(m, s, o, single) + 5 * o)

Score(found) ==
  Total(Cardinality(found \cap Malicious), Cardinality(found \cap Suspicious),
        Cardinality(found \cap Obfuscation), ObfuscationScore(found))

LevelOf(score) ==
  IF score >= 70 THEN MALICIOUS ELSE IF score >= 30 THEN SUSPICIOUS ELSE SAFE

Level(found) == LevelOf(Score(found))
-----------------------------------------------------------------------------
Init == step = "start" /\ matches = {} /\ threat = SAFE

\* A text of less than three characters is not looked at.
TooShort ==
  /\ step = "start"
  /\ matches = {}
  /\ step' = "done"
  /\ UNCHANGED <<matches, threat>>

\* The original text is searched for obfuscation.  What is left of a base64
\* text after stripping holds no character the other patterns ask for; what was
\* stripped may.
Obfuscated(p) ==
  /\ step = "start"
  /\ p \notin matches
  /\ Base64Only \in {p} \cup matches => {p} \cup matches \subseteq {Base64Only} \cup Outer
  /\ matches' = matches \cup {p}
  /\ UNCHANGED <<step, threat>>

ScanVariants ==
  /\ step = "start"
  /\ step' = "variants"
  /\ UNCHANGED <<matches, threat>>

\* A pattern matches one of the variants; a description that is listed
\* already is not listed again.
Matched(p) ==
  /\ step = "variants"
  /\ matches' = matches \cup {p}
  /\ UNCHANGED <<step, threat>>

Return ==
  /\ step = "variants"
  /\ step' = "done"
  /\ threat' = Level(matches)
  /\ UNCHANGED matches

Next ==
  \/ TooShort \/ ScanVariants \/ Return
  \/ \E p \in Obfuscation : Obfuscated(p)
  \/ \E p \in Malicious \cup Suspicious : Matched(p)

Spec == Init /\ [][Next]_vars

\* should_block
ShouldBlock == step = "done" /\ threat = MALICIOUS /\ BlockOnMalicious
-----------------------------------------------------------------------------
(***************************************************************************)
(* Properties.                                                             *)
(***************************************************************************)

TypeOK ==
  /\ step \in {"start", "variants", "done"}
  /\ matches \subseteq Malicious \cup Suspicious \cup Obfuscation
  /\ threat \in {SAFE, SUSPICIOUS, MALICIOUS}

\* No match ever speaks for the text: a higher family replaces the score of
\* the lower ones, and still a text never scores less for a pattern that
\* matched than it would have without it.
EvidenceCounts == \A p \in matches : Score(matches \ {p}) <= Score(matches)

\* "any match is MALICIOUS", and nothing else is cheap: with no malicious
\* pattern a payload is blocked for two suspicious patterns at the least, or
\* for seven kinds of obfuscation.
BlockNeedsEvidence ==
  /\ (step = "done" /\ matches \cap Malicious # {}) => threat = MALICIOUS
  /\ ShouldBlock =>
       \/ matches \cap Malicious # {}
       \/ Cardinality(matches \cap Suspicious) >= 2
       \/ Cardinality(matches \cap Obfuscation) >= 7
=============================================================================
