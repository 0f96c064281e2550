---------------------------- MODULE Exfiltration ----------------------------
(***************************************************************************)
(* ExfiltrationDetector.scan of core/security/exfil.py: eight checks in a  *)
(* fixed order, each of which may add to the score, and the fingerprint    *)
(* check that looks for a sample of the context in the output.  What each  *)
(* check finds in the text is left open.  Scores are in hundredths.        *)
(***************************************************************************)
EXTENDS Integers, FiniteSets

CONSTANTS KeySecrets,       \* private keys and connection strings
          ProviderSecrets,  \* tokens of the named providers
          OtherSecrets,     \* the other SECRET_PATTERNS
          SensitivePii,     \* SSN and credit card patterns
          OtherPii,         \* the other PII_PATTERNS
          Covert,           \* COVERT_PATTERNS
          SizeRatios,       \* len(output) / expected_size, in units of 0.15
          MaxShingles,      \* bound: distinct shingles of the context
          SampleLimit       \* shingles looked for at most (100)

ASSUME ExfiltrationAssumption ==
  /\ IsFiniteSet(KeySecrets) /\ IsFiniteSet(ProviderSecrets)
  /\ IsFiniteSet(OtherSecrets) /\ IsFiniteSet(SensitivePii)
  /\ IsFiniteSet(OtherPii) /\ IsFiniteSet(Covert)
  /\ SizeRatios \subseteq Nat
  /\ MaxShingles \in Nat /\ SampleLimit \in Nat

VARIABLES check,     \* the check that comes next
          score,
          findings,  \* kinds of finding
          shingles,  \* distinct shingles of the context, 0 without a context
          leaked,    \* how many of them are in the output
          checked,   \* shingles looked for so far
          found      \* and found

output == <<check, score, findings, shingles, leaked, checked, found>>
sample == <<shingles, leaked, checked, found>>

\* The risks in the order of their severity.
NONE == 0
LOW == 1
MEDIUM == 2
HIGH == 3
CRITICAL == 4

Capped(limit, n) == IF n < limit THEN n ELSE limit

\* Mutant: a score is compared with the next threshold, and exclusively.
RiskExclusive(points) ==
  IF points > 70 THEN CRITICAL
  ELSE IF points > 50 THEN HIGH
  ELSE IF points > 30 THEN MEDIUM
  ELSE IF points > 20 THEN LOW
  ELSE NONE

Risk(points) ==
  IF points >= 70 THEN CRITICAL
  ELSE IF points >= 50 THEN HIGH
  ELSE IF points >= 30 THEN MEDIUM
  ELSE IF points >= 10 THEN LOW
  ELSE NONE
-----------------------------------------------------------------------------
OutputInit ==
  /\ check = "secrets"
  /\ score = 0
  /\ findings = {}
  /\ shingles \in 0..MaxShingles
  /\ leaked \in 0..shingles
  /\ checked = 0
  /\ found = 0

\* A check that adds points to the score when it finds something.
Checks(name, next, points) ==
  /\ check = name
  /\ check' = next
  /\ score' = score + points
  /\ findings' = IF points > 0 THEN findings \cup {name} ELSE findings
  /\ UNCHANGED sample

\* scan of an empty output returns at once.
Empty ==
  /\ check = "secrets"
  /\ check' = "empty"
  /\ UNCHANGED <<score, findings, sample>>

Secrets(keys, tokens, others) ==
  Checks("secrets", "pii",
         80 * Cardinality(keys) + 60 * Cardinality(tokens)
           + 40 * Cardinality(others))

Pii(sensitive, others) ==
  Checks("pii", "covert", 50 * Cardinality(sensitive) + 25 * Cardinality(others))

CovertChannels(patterns) ==
  Checks("covert", "entropy", 25 * Cardinality(patterns))

\* Entropy above the threshold, and above it by more than 1.5.
Entropy(points) == points \in {0, 30, 50} /\ Checks("entropy", "size", points)

\* Without an expected size there is no ratio.  20 units are three times the
\* expected size.
SizeAnomaly(ratio) ==
  Checks("size", "limit", IF ratio > 20 THEN Capped(50, ratio) ELSE 0)

SizeLimit(points) == points \in {0, 30} /\ Checks("limit", "fingerprint", points)

(***************************************************************************)
(* _check_data_fingerprint goes through a set, so the order in which the   *)
(* shingles are looked for is arbitrary, and stops after SampleLimit.      *)
(***************************************************************************)

\* Mutant: the break comes before the shingle is looked for.
SamplingStopsEarly == checked + 1 >= SampleLimit \/ checked = shingles

Sampling == checked < SampleLimit /\ checked < shingles

Sample(hit) ==
  /\ check = "fingerprint"
  /\ Sampling
  /\ IF hit THEN found < leaked ELSE checked - found < shingles - leaked
  /\ checked' = checked + 1
  /\ found' = IF hit THEN found + 1 ELSE found
  /\ UNCHANGED <<check, score, findings, shingles, leaked>>

\* The share of the sample that was found, of 0.4; a scan without a context
\* finds nothing.
FingerprintPoints ==
  IF checked = 0 THEN 0 ELSE (40 * found) \div checked

Fingerprint ==
  /\ check = "fingerprint"
  /\ ~Sampling
  /\ check' = "structure"
  /\ score' = score + FingerprintPoints
  /\ findings' = IF found > 0 THEN findings \cup {"fingerprint"} ELSE findings
  /\ UNCHANGED sample

Structure(points) == points \in {0, 20} /\ Checks("structure", "done", points)

OutputNext ==
  \/ Empty
  \/ \E k \in SUBSET KeySecrets, t \in SUBSET ProviderSecrets,
        o \in SUBSET OtherSecrets : Secrets(k, t, o)
  \/ \E s \in SUBSET SensitivePii, o \in SUBSET OtherPii : Pii(s, o)
  \/ \E c \in SUBSET Covert : CovertChannels(c)
  \/ \E points \in {0, 30, 50} : Entropy(points)
  \/ \E ratio \in SizeRatios : SizeAnomaly(ratio)
  \/ \E points \in {0, 30} : SizeLimit(points)
  \/ \E hit \in BOOLEAN : Sample(hit)
  \/ Fingerprint
  \/ \E points \in {0, 20} : Structure(points)

OutputSpec == OutputInit /\ [][OutputNext]_output
-----------------------------------------------------------------------------
(***************************************************************************)
(* Properties.                                                             *)
(***************************************************************************)

OutputTypeOK ==
  /\ check \in {"empty", "secrets", "pii", "covert", "entropy", "size",
                "limit", "fingerprint", "structure", "done"}
  /\ score \in Nat
  /\ findings \subseteq {"secrets", "pii", "covert", "entropy", "size",
                         "limit", "fingerprint", "structure"}
  /\ shingles \in 0..MaxShingles /\ leaked \in 0..shingles
  /\ checked \in 0..shingles /\ found \in 0..checked

\* In whatever order the set of shingles is gone through: a context of no
\* more shingles than the sample is measured exactly, a whole context is
\* recognised as whole and an absent one as absent, and a leak of all but
\* fewer shingles than the sample holds leaves a trace in it.
FingerprintIsFair ==
  check \in {"structure", "done"} =>
    /\ shingles <= SampleLimit => checked = shingles /\ found = leaked
    /\ leaked = shingles => found = checked
    /\ found <= leaked
    /\ (leaked > 0 /\ shingles - leaked < SampleLimit) => found > 0

\* "CLEAR: No exfiltration indicators detected": an output that is rated clear
\* has no finding but that less than a quarter of the sample was found in it.
ClearHasNoFinding ==
  (check = "done" /\ Risk(score) = NONE) =>
    /\ findings \subseteq {"fingerprint"}
    /\ 4 * found < checked \/ checked = 0
=============================================================================
