----------------------------- MODULE GateGrounding -----------------------------
(***************************************************************************)
(* What the conservative gate accepts as proven, given one HEAD of the     *)
(* pull request: the menu of test lines that may be cited (src/src/review- *)
(* grounding.ts), the coverage of the acceptance criteria (src/src/review- *)
(* acceptance-coverage.ts) and the defects the model claims (src/src/      *)
(* review-gate-pipeline.ts). Pure operators: ReviewGate runs them.         *)
(*                                                                         *)
(* A HEAD's files are two sequences of lines: one test, whose lines are    *)
(* quotes, and one product file. Which quotes prove a criterion, and what  *)
(* a line of code says, is constant: the semantic matchers are not modelled*)
(***************************************************************************)
EXTENDS Naturals, Sequences, FiniteSets, FiniteSetsExt, SequencesExt, Functions

CONSTANTS
  Criteria,        \* 1..n, AC-1 to AC-n of the pull request
  Manual,          \* those whose text asks for a check by hand
  Proofs,          \* per criterion: the sets of quotes that prove it
  MenuSize,        \* maxCandidates of buildReviewEvidenceCandidates
  FatalOutcomes,   \* MINIMAX_FATAL_OUTCOMES; any other outcome is advisory
  LineFacts,       \* per line of code: the names in it, the outcomes it
                   \* brings about by itself, and whether it is a comment
  MaxSpan          \* SYMBOL_MAX_DISTANCE

ASSUME GroundingAssumption ==
  /\ IsFiniteSet(Criteria) /\ Criteria = 1..Cardinality(Criteria)
  /\ Manual \subseteq Criteria
  /\ MenuSize \in Nat /\ MaxSpan \in Nat

Automated == Criteria \ Manual
Severity(outcome) == IF outcome \in FatalOutcomes THEN "fatal" ELSE "advisory"

-----------------------------------------------------------------------------
(* Acceptance coverage. Every line of the test is a row that may be cited. *)
TestRows(f) == {[quote |-> f.tests[i], line |-> i] : i \in DOMAIN f.tests}

(* A cited row by its line, or else by its quote if only one row has it.   *)
LocateByTrust(rows, e) == {e}   \* mutant
Locate(rows, e) ==
  LET same == {r \in rows : r.quote = e.quote}
  IN  IF e \in rows THEN {e} ELSE IF Cardinality(same) = 1 THEN same ELSE {}

(* The evidence of earlier reviews that can be found in the test again.    *)
Pins(f, cited) == UNION {Locate(TestRows(f), e) : e \in cited}

(* The bounded menus: pins first; the ranking of the rest is left open.    *)
MenusUnpinned(f, pins) ==   \* mutant
  {menu \in SUBSET TestRows(f) : Cardinality(menu) = Min({MenuSize, Cardinality(TestRows(f))})}
Menus(f, pins) ==
  LET n == Min({MenuSize, Cardinality(TestRows(f))})
  IN  {menu \in SUBSET TestRows(f) :
         Cardinality(menu) = n /\ (pins \subseteq menu \/ menu \subseteq pins)}

(* What the model says of a criterion: its status and the rows it cites,   *)
(* the primary one first.                                                  *)
Unknown == [status |-> "unknown", evidence |-> <<>>]

(* One line is a proof (isGroundedTestEvidence and its variants), or       *)
(* several are (isGroundedTestEvidenceBundle).                             *)
ProvesAlone(k, quote) == {quote} \in Proofs[k]
ProvesTogether(k, quotes) == \E Q \in Proofs[k] : Q \subseteq quotes

(* A supporting row that is not on the menu is dropped, the primary one    *)
(* may not be. One row proves the criterion by itself, or all of them do   *)
(* as a bundle of different lines.                                         *)
Proven(k, item, menu) ==
  /\ item.status = "covered"
  /\ Len(item.evidence) <= 4 /\ IsInjective(item.evidence)
  /\ Locate(menu, item.evidence[1]) # {}
  /\ LET selected == {e \in Range(item.evidence) : Locate(menu, e) # {}}
         quotes == {e.quote : e \in selected}
     IN  \/ \E q \in quotes : ProvesAlone(k, q)
         \/ /\ Cardinality(quotes) = Cardinality(selected)
            /\ ProvesTogether(k, quotes)

Grounded(coverage, menu) == {k \in Automated : Proven(k, coverage[k], menu)}

-----------------------------------------------------------------------------
(* Claimed defects. A claim's root and the chain that leads to it quote    *)
(* lines of code, each with a line number that is only the model's hint.   *)
ExactLine(code, e) == e.line \in DOMAIN code /\ code[e.line] = e.text

Rebind(code, e) ==
  LET found == {i \in DOMAIN code : code[i] = e.text}
  IN  IF ~ExactLine(code, e) /\ Cardinality(found) = 1
      THEN [e EXCEPT !.line = CHOOSE i \in found : TRUE] ELSE e

ReboundClaim(code, c) ==
  [c EXCEPT !.root = Rebind(code, @), !.chain = [i \in DOMAIN @ |-> Rebind(code, @[i])]]

Added(f, e) == e.line \in f.added

(* Top to bottom, within the span, each line once and the root last.       *)
CausalChain(code, c) ==
  /\ Len(c.chain) >= 2
  /\ \A i \in DOMAIN c.chain :
       /\ ExactLine(code, c.chain[i])
       /\ c.chain[i].line <= c.chain[1].line + MaxSpan
       /\ i > 1 => c.chain[i - 1].line < c.chain[i].line
  /\ Last(c.chain) = c.root

(* The name itself or, of a qualified one, the last part, if a line from   *)
(* MaxSpan above the chain down to its end has it.                         *)
SymbolWindow(code, c) ==
  {i \in DOMAIN code : i + MaxSpan >= c.chain[1].line /\ i <= Last(c.chain).line}
GroundedSymbol(code, c) ==
  LET names == UNION {LineFacts[code[i]].names : i \in SymbolWindow(code, c)}
  IN  IF c.symbol \in names THEN c.symbol
      ELSE IF <<Last(c.symbol)>> \in names THEN <<Last(c.symbol)>> ELSE <<>>

Executable(text) == ~LineFacts[text].comment
ShowsOutcome(c) ==
  IF Severity(c.outcome) = "fatal" THEN c.outcome \in LineFacts[c.root.text].does
  ELSE Executable(c.root.text)

VerifierRooted(code, c, evidence) ==
  c.root \in evidence /\ \A e \in evidence : ExactLine(code, e)

DefectStandsAsCited(f, claim, cited) ==   \* mutant
  LET c == ReboundClaim(f.code, claim)
  IN  /\ ExactLine(f.code, c.root)
      /\ Added(f, c.root)
      /\ CausalChain(f.code, c)
      /\ GroundedSymbol(f.code, c) # <<>>
      /\ ShowsOutcome(c)
      /\ VerifierRooted(f.code, c, cited)

(* validateDefectCandidate, for a claim the verifier confirmed.            *)
DefectStands(f, claim, cited) ==
  LET c == ReboundClaim(f.code, claim)
  IN  /\ ExactLine(f.code, c.root)
      /\ Added(f, c.root)
      /\ CausalChain(f.code, c)
      /\ GroundedSymbol(f.code, c) # <<>>
      /\ ShowsOutcome(c)
      /\ VerifierRooted(f.code, c, {Rebind(f.code, e) : e \in cited})

(* What the ledger keeps of it: outcome and symbol are its identity.       *)
DefectFinding(f, claim) ==
  [outcome |-> claim.outcome,
   symbol |-> GroundedSymbol(f.code, ReboundClaim(f.code, claim)),
   texts |-> {claim.chain[i].text : i \in DOMAIN claim.chain}]
================================================================================
