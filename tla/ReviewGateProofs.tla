---------------------------- MODULE ReviewGateProofs ----------------------------
(***************************************************************************)
(* Theorems about the gate, for any criteria, proofs, menu sizes, files,   *)
(* answers of the model and verifiers, pushes, rewordings and faults: what *)
(* a PASS says is true of the HEAD it is said of; a verdict that does not  *)
(* fail passes exactly when nothing is left to ask for; wrong line numbers *)
(* change nothing; types; every recorded run can be read again; what was   *)
(* proven stays so while its lines are there, each of them once; and a     *)
(* reused pass is a pass again, while menus hold every line of the test.   *)
(***************************************************************************)
EXTENDS ReviewGate, FiniteSetTheorems, NaturalsInduction, WellFoundedInduction, TLAPS

-----------------------------------------------------------------------------
(* What is proven with a menu of lines of a file is proven by lines of the *)
(* file, wherever the cited lines came from.                               *)
HasProof(f, k) == \E Q \in Proofs[k] : Q \subseteq Range(f.tests)

LEMMA MenuRowsAreQuotes ==
  ASSUME NEW f, NEW menu \in SUBSET TestRows(f), NEW e, Locate(menu, e) # {}
  PROVE  e.quote \in Range(f.tests)
<1>1. PICK r \in menu : r.quote = e.quote
  BY DEF Locate
<1>2. PICK i \in DOMAIN f.tests : r = [quote |-> f.tests[i], line |-> i]
  BY DEF TestRows
<1> QED
  BY <1>1, <1>2 DEF Range

LEMMA GroundedHasProof ==
  ASSUME NEW f, NEW menu \in SUBSET TestRows(f), NEW coverage,
         NEW k \in Grounded(coverage, menu)
  PROVE  HasProof(f, k)
<1> DEFINE item == coverage[k]
           selected == {e \in Range(item.evidence) : Locate(menu, e) # {}}
           quotes == {e.quote : e \in selected}
<1>1. Proven(k, item, menu)
  BY DEF Grounded
<1>2. quotes \subseteq Range(f.tests)
  BY MenuRowsAreQuotes
<1>3. \/ \E q \in quotes : ProvesAlone(k, q)
      \/ ProvesTogether(k, quotes)
  BY <1>1 DEF Proven
<1>4. CASE \E q \in quotes : ProvesAlone(k, q)
  <2>1. PICK q \in quotes : {q} \in Proofs[k]
    BY <1>4 DEF ProvesAlone
  <2>2. {q} \subseteq Range(f.tests)
    BY <2>1, <1>2
  <2> QED
    BY <2>1, <2>2 DEF HasProof
<1>5. CASE ProvesTogether(k, quotes)
  <2>1. PICK Q \in Proofs[k] : Q \subseteq quotes
    BY <1>5 DEF ProvesTogether
  <2> QED
    BY <2>1, <1>2 DEF HasProof
<1> QED
  BY <1>3, <1>4, <1>5

-----------------------------------------------------------------------------
(* What a verdict of PASS and an empty list of items mean, whatever was    *)
(* answered.                                                               *)
LEMMA PassMeansClean ==
  ASSUME NEW r, NEW envelope, NEW failed,
         Evaluated(r, envelope, failed).verdict = "PASS"
  PROVE  LET v == Evaluated(r, envelope, failed)
         IN  /\ Files(r.head).complete
             /\ v.proven = Automated
             /\ ~\E x \in v.next.open : Blocks(x)
<1> DEFINE e == Filtered(r, envelope)
           proven == Grounded(e.coverage, r.menu)
           current == FindingsOf(r, e)
           next == NextLedger(r, current, proven)
           unconfirmed == next.open \ current
           items == Items(r, e, failed, proven, unconfirmed)
           blocking == {x \in current : Blocks(x)}
           unresolved == Unresolved(r, e, failed, proven, unconfirmed)
           base == BaseVerdict(blocking, unresolved)
           v == Evaluated(r, envelope, failed)
<1>1. /\ v.proven = proven
      /\ v.next = next
      /\ v.verdict = TurnVerdict(base, said.round + 1, items)
  BY DEF Evaluated
<1> HIDE DEF v, e, proven, current, next, items
<1>2. base = "PASS"
  BY <1>1 DEF TurnVerdict, BaseVerdict, v
<1>3. blocking = {} /\ ~unresolved
  BY <1>2 DEF BaseVerdict
<1>4. /\ Files(r.head).complete
      /\ proven = Automated
      /\ ~\E x \in unconfirmed : Blocks(x)
  BY <1>3 DEF Unresolved
<1>5. ~\E x \in next.open : Blocks(x)
  BY <1>3, <1>4
<1> QED
  BY <1>1, <1>4, <1>5 DEF v

LEMMA ItemsTellUnresolved ==
  ASSUME NEW r, NEW e, NEW failed, NEW unconfirmed, NEW proven \in SUBSET Automated
  PROVE  Unresolved(r, e, failed, proven, unconfirmed)
           <=> Items(r, e, failed, proven, unconfirmed) # {}
<1> DEFINE U == Unresolved(r, e, failed, proven, unconfirmed)
           I == Items(r, e, failed, proven, unconfirmed)
           uncertain == {j \in DOMAIN e.candidates :
             e.verifications[j].verdict = "uncertain" /\ ~IsAdvisory(e.candidates[j])}
           blocking == {y \in unconfirmed : Blocks(y)}
<1>1. U <=> \/ ~InputValid(e)
            \/ ~Files(r.head).complete
            \/ proven # Automated
            \/ failed # {}
            \/ blocking # {}
            \/ uncertain # {}
  <2>1. \A i \in Accepted(Files(r.head), e) : e.verifications[i].verdict = "confirmed"
    BY DEF Accepted, Stands
  <2>2. (uncertain # {}) <=> \E i \in DOMAIN e.candidates \ Accepted(Files(r.head), e) :
          ~IsAdvisory(e.candidates[i]) /\ e.verifications[i].verdict = "uncertain"
    BY <2>1
  <2> QED
    BY <2>2 DEF Unresolved
<1>2. (I # {}) <=> \/ Automated \ proven # {}
                   \/ ~InputValid(e)
                   \/ ~Files(r.head).complete
                   \/ uncertain # {}
                   \/ failed # {}
                   \/ blocking # {}
  BY DEF Items
<1>3. (Automated \ proven # {}) <=> (proven # Automated)
  OBVIOUS
<1> QED
  BY <1>1, <1>2, <1>3

LEMMA PassMeansNothingToDo ==
  ASSUME NEW r, NEW envelope, NEW failed,
         Evaluated(r, envelope, failed).verdict # "FAIL"
  PROVE  LET v == Evaluated(r, envelope, failed)
         IN  v.verdict = "PASS" <=> v.items = {}
<1> DEFINE e == Filtered(r, envelope)
           proven == Grounded(e.coverage, r.menu)
           current == FindingsOf(r, e)
           next == NextLedger(r, current, proven)
           unconfirmed == next.open \ current
           items == Items(r, e, failed, proven, unconfirmed)
           unresolved == Unresolved(r, e, failed, proven, unconfirmed)
           base == BaseVerdict({x \in current : Blocks(x)}, unresolved)
           v == Evaluated(r, envelope, failed)
<1>1. v.items = items /\ v.verdict = TurnVerdict(base, said.round + 1, items)
  BY DEF Evaluated
<1>2. unresolved <=> items # {}
  <2>1. proven \in SUBSET Automated
    BY DEF Grounded
  <2> HIDE DEF proven, unconfirmed, e
  <2> QED
    BY <2>1, ItemsTellUnresolved
<1> HIDE DEF v, items, unresolved
<1>3. base # "FAIL"
  BY <1>1 DEF TurnVerdict, BaseVerdict, v
<1>4. base = IF unresolved THEN "ABSTAIN" ELSE "PASS"
  BY <1>3 DEF BaseVerdict
<1>5. v.verdict = "PASS" <=> base = "PASS"
  BY <1>1, <1>4 DEF TurnVerdict
<1> QED
  BY <1>1, <1>2, <1>4, <1>5 DEF v

-----------------------------------------------------------------------------
(***************************************************************************)
(* The invariant. While the model is asked, the menu is of lines of the    *)
(* HEAD under review; from then on a PASS that is to be said is true of    *)
(* that HEAD, whatever is pushed in between; once the findings are stored, *)
(* they are the ledger.                                                    *)
(***************************************************************************)
HeadsOK ==
  /\ heads \in Seq(Contents) /\ heads # <<>>
  /\ ~AtRest => run.head \in 1..Len(heads)
RunShape == run.at = "publish" => {"at", "head", "next", "verdict", "items"} \subseteq DOMAIN run
MenuIsOfHead == run.at = "ask" => run.menu \in SUBSET TestRows(Files(run.head))
Clean(h, findings) ==
  /\ Files(h).complete
  /\ ~\E x \in findings : Blocks(x)
  /\ \A k \in Automated : HasProof(Files(h), k)
PassIsClean ==
  run.at \in {"publish", "post"} /\ run.verdict = "PASS" => Clean(run.head, run.next.open)
StoredIsLedger == run.at = "post" => ledger = run.next
PassInv == HeadsOK /\ RunShape /\ MenuIsOfHead /\ PassIsClean /\ StoredIsLedger

LEMMA InitPassInv == GateInit => PassInv
<1> SUFFICES ASSUME GateInit PROVE PassInv
  OBVIOUS
<1>1. run.at = "rest"
  BY DEF GateInit, Resting
<1>2. PICK push \in Pushes : heads = <<push[1]>>
  BY DEF GateInit
<1>3. push[1] \in Contents
  BY PushAssumption DEF Contents, Range
<1>4. heads \in Seq(Contents) /\ heads # <<>>
  BY <1>2, <1>3
<1> QED
  BY <1>1, <1>4 DEF PassInv, HeadsOK, RunShape, MenuIsOfHead, PassIsClean, StoredIsLedger, AtRest

(* A job that has no run in hand has nothing to keep. *)
LEMMA RestingIsFine ==
  ASSUME PassInv, NEW b, run' = Resting(b), UNCHANGED heads
  PROVE  PassInv'
<1>1. run'.at = "rest"
  BY DEF Resting
<1> QED
  BY <1>1 DEF PassInv, HeadsOK, RunShape, MenuIsOfHead, PassIsClean, StoredIsLedger, AtRest, Contents

LEMMA BeginPassInv == PassInv /\ Begin => PassInv'
<1> SUFFICES ASSUME PassInv, Begin PROVE PassInv'
  OBVIOUS
<1> USE DEF PassInv, HeadsOK
<1>1. PICK menu \in SUBSET TestRows(Files(CurrentHead)) :
        run'.at = "ask" /\ run'.head = CurrentHead /\ run'.menu = menu
  BY DEF Begin, Menus
<1>2. CurrentHead \in 1..Len(heads) /\ heads' = heads
  BY DEF Begin, CurrentHead
<1> QED
  BY <1>1, <1>2
  DEF RunShape, MenuIsOfHead, PassIsClean, StoredIsLedger, AtRest, Files, Contents

LEMMA ConcludePassInv ==
  ASSUME PassInv, run.at = "ask",
         NEW envelope, NEW passes, NEW calls, NEW stored,
         Conclude(envelope, passes, calls, stored)
  PROVE  PassInv'
<1> DEFINE v == Evaluated(run, envelope, passes)
<1>1. /\ run'.at = "publish" /\ run'.head = run.head
      /\ run'.verdict = v.verdict /\ run'.next = v.next
      /\ {"at", "head", "next", "verdict", "items"} \subseteq DOMAIN run'
      /\ heads' = heads
  BY DEF Conclude
<1>2. ASSUME v.verdict = "PASS" PROVE Clean(run.head, v.next.open)
  <2>1. /\ Files(run.head).complete
        /\ v.proven = Automated
        /\ ~\E x \in v.next.open : Blocks(x)
    BY <1>2, PassMeansClean
  <2>2. v.proven = Grounded(Filtered(run, envelope).coverage, run.menu)
    BY DEF Evaluated
  <2>3. run.menu \in SUBSET TestRows(Files(run.head))
    BY DEF PassInv, MenuIsOfHead
  <2>4. \A k \in Automated : HasProof(Files(run.head), k)
    BY <2>1, <2>2, <2>3, GroundedHasProof
  <2> QED
    BY <2>1, <2>4 DEF Clean
<1> HIDE DEF v
<1> QED
  BY <1>1, <1>2 DEF PassInv, HeadsOK, RunShape, MenuIsOfHead, PassIsClean, StoredIsLedger,
    AtRest, Contents, Clean, Files

LEMMA NextPassInv == PassInv /\ [GateNext]_gateVars => PassInv'
<1> SUFFICES ASSUME PassInv, [GateNext]_gateVars PROVE PassInv'
  OBVIOUS
<1>1. CASE Begin
  BY <1>1, BeginPassInv
<1>2. CASE Reuse
  BY <1>2, ConcludePassInv DEF Reuse
<1>3. CASE Ask
  <2>1. PICK envelope, passes, calls, stored : Conclude(envelope, passes, calls, stored)
    BY <1>3 DEF Ask
  <2> QED
    BY <1>3, <2>1, ConcludePassInv DEF Ask
<1>4. CASE AskInVain
  <2>1. run.at = "ask" /\ run'.at = "report" /\ run'.head = run.head /\ heads' = heads
    BY <1>4 DEF AskInVain
  <2> QED
    BY <2>1 DEF PassInv, HeadsOK, RunShape, MenuIsOfHead, PassIsClean, StoredIsLedger,
      AtRest, Contents
<1>5. CASE Discard \/ Post \/ Report \/ Stop \/ Crash
  BY <1>5, RestingIsFine DEF Discard, Post, Report, Stop, Crash, JobEnds
<1>6. CASE Persist
  <2>1. /\ run.at = "publish" /\ run'.at = "post"
        /\ run'.head = run.head /\ run'.verdict = run.verdict /\ run'.next = run.next
        /\ ledger' = run.next /\ heads' = heads
    BY <1>6 DEF Persist, PassInv, RunShape
  <2> QED
    BY <2>1 DEF PassInv, HeadsOK, RunShape, MenuIsOfHead, PassIsClean, StoredIsLedger,
      AtRest, Contents, Clean, Files
<1>7. CASE Push
  <2>1. PICK push \in Pushes : heads' = Append(heads, push[2])
    BY <1>7 DEF Push
  <2>2. push[2] \in Contents
    BY PushAssumption DEF Contents, Range
  <2>3. /\ heads' \in Seq(Contents) /\ heads' # <<>> /\ Len(heads') = Len(heads) + 1
        /\ \A h \in 1..Len(heads) : heads'[h] = heads[h]
    BY <2>1, <2>2 DEF PassInv, HeadsOK
  <2>4. run' = run /\ ledger' = ledger
    BY <1>7 DEF Push
  <2> QED
    BY <2>3, <2>4 DEF PassInv, HeadsOK, RunShape, MenuIsOfHead, PassIsClean, StoredIsLedger,
      AtRest, Contents, Clean, Files
<1>8. CASE Reword \/ UNCHANGED gateVars
  <2>1. heads' = heads /\ run' = run /\ ledger' = ledger
    BY <1>8 DEF Reword, gateVars
  <2> QED
    BY <2>1 DEF PassInv, HeadsOK, RunShape, MenuIsOfHead, PassIsClean, StoredIsLedger,
      AtRest, Contents, Clean, Files
<1> QED
  BY <1>1, <1>2, <1>3, <1>4, <1>5, <1>6, <1>7, <1>8 DEF GateNext

(* Every PASS is said of files that are complete and hold a proof of every *)
(* criterion, over a ledger without a blocking finding.                    *)
THEOREM PassesAreProven == GateSpec => PassIsProven
<1> DEFINE Said == said' # said /\ said'.verdict = "PASS"
<1>1. PassInv /\ [GateNext]_gateVars => [Said => PassNow]_gateVars
  <2> SUFFICES ASSUME PassInv, GateNext, Said PROVE PassNow
    BY DEF gateVars
  <2>1. Post
    <3>1. ~Report
      BY DEF Report, Says
    <3>2. ASSUME Reuse \/ Ask PROVE FALSE
      <4>1. PICK envelope, passes, calls, stored : Conclude(envelope, passes, calls, stored)
        BY <3>2, ZenonT(30) DEF Reuse, Ask
      <4> QED
        BY <4>1 DEF Conclude
    <3>3. ~(Begin \/ AskInVain \/ Discard \/ Persist \/ Stop \/ Crash \/ Push \/ Reword)
      BY DEF Begin, AskInVain, Discard, Persist, Stop, Crash, Push, Reword
    <3> QED
      BY <3>1, <3>2, <3>3 DEF GateNext
  <2>2. /\ run.at = "post" /\ run.head = CurrentHead /\ run.verdict = "PASS"
    BY <2>1 DEF Post, IsCurrent, Says
  <2>3. Clean(CurrentHead, ledger.open)
    BY <2>2 DEF PassInv, PassIsClean, StoredIsLedger
  <2> QED
    BY <2>3 DEF PassNow, Clean, HasProof
<1> QED
  BY InitPassInv, NextPassInv, <1>1, PTL DEF GateSpec, PassIsProven

-----------------------------------------------------------------------------
ItemsInv == RunShape /\ VerdictHasItems

LEMMA ConcludeItemsInv ==
  ASSUME NEW envelope, NEW passes, NEW calls, NEW stored,
         Conclude(envelope, passes, calls, stored)
  PROVE  ItemsInv'
<1> DEFINE v == Evaluated(run, envelope, passes)
<1>1. /\ run'.verdict = v.verdict /\ run'.items = v.items
      /\ {"at", "head", "next", "verdict", "items"} \subseteq DOMAIN run'
  BY DEF Conclude
<1>2. v.verdict # "FAIL" => (v.verdict = "PASS" <=> v.items = {})
  BY PassMeansNothingToDo
<1> HIDE DEF v
<1> QED
  BY <1>1, <1>2 DEF ItemsInv, RunShape, VerdictHasItems

(* A verdict that does not fail and what the contributor is asked for      *)
(* agree, whatever the model, the files and the failed calls are.          *)
THEOREM VerdictsHaveItems == GateSpec => []VerdictHasItems
<1>1. GateInit => ItemsInv
  BY DEF GateInit, Resting, ItemsInv, RunShape, VerdictHasItems
<1>2. ItemsInv /\ [GateNext]_gateVars => ItemsInv'
  <2> SUFFICES ASSUME ItemsInv, [GateNext]_gateVars PROVE ItemsInv'
    OBVIOUS
  <2>1. CASE Reuse \/ Ask
    <3>1. PICK envelope, passes, calls, stored : Conclude(envelope, passes, calls, stored)
      BY <2>1, ZenonT(30) DEF Reuse, Ask
    <3> QED
      BY <3>1, ConcludeItemsInv
  <2>2. CASE Begin \/ AskInVain \/ Discard \/ Post \/ Report \/ Stop \/ Crash
    <3>1. CASE Begin \/ AskInVain
      <4>1. Begin => run'.at = "ask"
        BY DEF Begin
      <4>2. AskInVain => run'.at = "report"
        BY DEF AskInVain
      <4> QED
        BY <3>1, <4>1, <4>2 DEF ItemsInv, RunShape, VerdictHasItems
    <3>2. ASSUME NEW b, run' = Resting(b) PROVE ItemsInv'
      BY <3>2 DEF Resting, ItemsInv, RunShape, VerdictHasItems
    <3> QED
      BY <2>2, <3>1, <3>2 DEF Discard, Post, Report, Stop, Crash, JobEnds
  <2>3. CASE Persist
    BY <2>3 DEF Persist, ItemsInv, RunShape, VerdictHasItems
  <2>4. CASE Push \/ Reword \/ UNCHANGED gateVars
    BY <2>4 DEF Push, Reword, gateVars, ItemsInv, RunShape, VerdictHasItems
  <2> QED
    BY <2>1, <2>2, <2>3, <2>4 DEF GateNext
<1>3. ItemsInv => VerdictHasItems
  BY DEF ItemsInv
<1> QED
  BY <1>1, <1>2, <1>3, PTL DEF GateSpec

-----------------------------------------------------------------------------
(***************************************************************************)
(* The lines a model gives for its quotes are only hints, for any files,   *)
(* any claims and any evidence of a verifier: if each quote is one line of *)
(* the file, what the gate makes of a claim depends on the quotes alone.   *)
(***************************************************************************)
OnlyLine(code, t) == CHOOSE u : {i \in DOMAIN code : code[i] = t} = {u}
Bound(code, t) == [line |-> OnlyLine(code, t), text |-> t]

(* A quote that is one line of the file is bound to that line.             *)
LEMMA RebindIsBound ==
  ASSUME NEW code, IsFiniteSet(DOMAIN code), NEW e, LineShape(e), Unambiguous(code, {e.text})
  PROVE  Rebind(code, e) = Bound(code, e.text)
<1> DEFINE found == {i \in DOMAIN code : code[i] = e.text}
           u == OnlyLine(code, e.text)
<1>1. Cardinality(found) = 1
  BY DEF Unambiguous
<1>2. IsFiniteSet(found)
  BY FS_Subset
<1>3. found = {u}
  <2>1. \E x : found = {x}
    BY <1>1, <1>2, FS_Singleton
  <2> QED
    BY <2>1 DEF OnlyLine
<1>4. CASE ExactLine(code, e)
  <2>1. e.line \in found
    BY <1>4 DEF ExactLine
  <2>2. e.line = u
    BY <2>1, <1>3
  <2> QED
    BY <1>4, <2>2 DEF Rebind, LineShape, Bound
<1>5. CASE ~ExactLine(code, e)
  <2>1. (CHOOSE i \in found : TRUE) = u
    BY <1>3
  <2>2. Rebind(code, e) = [e EXCEPT !.line = u]
    BY <1>1, <1>5, <2>1 DEF Rebind
  <2> QED
    BY <2>2 DEF LineShape, Bound
<1> QED
  BY <1>4, <1>5

(* Claims that quote the same are the same after rebinding.                *)
SameQuotes(c, d) ==
  /\ c.outcome = d.outcome /\ c.symbol = d.symbol
  /\ c.root.text = d.root.text
  /\ DOMAIN c.chain = DOMAIN d.chain
  /\ \A i \in DOMAIN c.chain : c.chain[i].text = d.chain[i].text
IsClaim(c) ==
  /\ c = [outcome |-> c.outcome, symbol |-> c.symbol, root |-> c.root, chain |-> c.chain]
  /\ LineShape(c.root) /\ \A i \in DOMAIN c.chain : LineShape(c.chain[i])
BoundClaim(code, c) ==
  [outcome |-> c.outcome, symbol |-> c.symbol, root |-> Bound(code, c.root.text),
   chain |-> [i \in DOMAIN c.chain |-> Bound(code, c.chain[i].text)]]
Quotes(c) == {c.chain[i].text : i \in DOMAIN c.chain} \cup {c.root.text}

LEMMA ReboundIsBound ==
  ASSUME NEW code, IsFiniteSet(DOMAIN code), NEW c, IsClaim(c), Unambiguous(code, Quotes(c))
  PROVE  ReboundClaim(code, c) = BoundClaim(code, c)
<1>1. Rebind(code, c.root) = Bound(code, c.root.text)
  BY RebindIsBound DEF IsClaim, Unambiguous, Quotes
<1>2. ASSUME NEW i \in DOMAIN c.chain
      PROVE  Rebind(code, c.chain[i]) = Bound(code, c.chain[i].text)
  BY RebindIsBound DEF IsClaim, Unambiguous, Quotes
<1>3. [i \in DOMAIN c.chain |-> Rebind(code, c.chain[i])]
        = [i \in DOMAIN c.chain |-> Bound(code, c.chain[i].text)]
  BY <1>2
<1> DEFINE root == Bound(code, c.root.text)
           chain == [i \in DOMAIN c.chain |-> Bound(code, c.chain[i].text)]
<1>4. ReboundClaim(code, c) = [c EXCEPT !.root = root, !.chain = chain]
  BY <1>1, <1>3 DEF ReboundClaim
<1> HIDE DEF root, chain
<1>5. PICK o, y, r, h : c = [outcome |-> o, symbol |-> y, root |-> r, chain |-> h]
  BY DEF IsClaim
<1>6. [c EXCEPT !.root = root, !.chain = chain]
        = [outcome |-> c.outcome, symbol |-> c.symbol, root |-> root, chain |-> chain]
  <2> DEFINE p == [c EXCEPT !.root = root]
  <2>1. p = [outcome |-> o, symbol |-> y, root |-> root, chain |-> h]
    BY <1>5
  <2>2. [c EXCEPT !.root = root, !.chain = chain] = [p EXCEPT !.chain = chain]
    OBVIOUS
  <2> HIDE DEF p
  <2>3. [p EXCEPT !.chain = chain]
          = [outcome |-> o, symbol |-> y, root |-> root, chain |-> chain]
    BY <2>1
  <2>4. c.outcome = o /\ c.symbol = y
    BY <1>5
  <2> QED
    BY <2>2, <2>3, <2>4
<1> QED
  BY <1>4, <1>6 DEF BoundClaim, root, chain

LEMMA SameQuotesSameClaim ==
  ASSUME NEW code, NEW c, NEW d, SameQuotes(c, d)
  PROVE  BoundClaim(code, c) = BoundClaim(code, d) /\ Quotes(c) = Quotes(d)
BY DEF SameQuotes, BoundClaim, Quotes

BoundLines(code, evidence) == {Bound(code, e.text) : e \in evidence}
LEMMA EvidenceIsBound ==
  ASSUME NEW code, IsFiniteSet(DOMAIN code), NEW evidence,
         \A e \in evidence : LineShape(e), Unambiguous(code, {e.text : e \in evidence})
  PROVE  {Rebind(code, e) : e \in evidence} = BoundLines(code, evidence)
<1>1. ASSUME NEW e \in evidence PROVE Rebind(code, e) = Bound(code, e.text)
  BY RebindIsBound DEF Unambiguous
<1> QED
  BY <1>1 DEF BoundLines

(* So whether a claim stands, and as which finding, is told by its quotes  *)
(* and those of its check.                                                 *)
LEMMA QuotesDecide ==
  ASSUME NEW f, IsFiniteSet(DOMAIN f.code),
         NEW c, NEW d, IsClaim(c), IsClaim(d), SameQuotes(c, d),
         NEW C, NEW D, \A e \in C \cup D : LineShape(e),
         {e.text : e \in C} = {e.text : e \in D},
         Unambiguous(f.code, Quotes(c)), Unambiguous(f.code, {e.text : e \in C})
  PROVE  /\ DefectStands(f, d, D) = DefectStands(f, c, C)
         /\ DefectFinding(f, d) = DefectFinding(f, c)
<1>1. ReboundClaim(f.code, c) = ReboundClaim(f.code, d)
  BY ReboundIsBound, SameQuotesSameClaim
<1>2. {Rebind(f.code, e) : e \in C} = {Rebind(f.code, e) : e \in D}
  <2>1. BoundLines(f.code, C) = BoundLines(f.code, D)
    BY DEF BoundLines
  <2> QED
    BY <2>1, EvidenceIsBound
<1>3. {c.chain[i].text : i \in DOMAIN c.chain} = {d.chain[i].text : i \in DOMAIN d.chain}
  BY DEF SameQuotes
<1>4. c.outcome = d.outcome
  BY DEF SameQuotes
<1>5. DefectStands(f, d, D) = DefectStands(f, c, C)
  BY <1>1, <1>2 DEF DefectStands
<1>6. DefectFinding(f, d) = DefectFinding(f, c)
  BY <1>1, <1>3, <1>4 DEF DefectFinding
<1> QED
  BY <1>5, <1>6

-----------------------------------------------------------------------------
(* Every content a push may bring survives drift.                          *)
LEMMA ContentsSurvive == \A f \in Contents : f \in SurviveDrift
<1> SUFFICES ASSUME NEW f \in Contents, NEW a \in Answers, NEW v \in Checks,
                    NEW c \in Range(a.claims),
                    Unambiguous(f.code, {e.text : e \in Range(c.chain) \cup v.evidence}),
                    NEW root \in Drifts(f.code, c.root),
                    NEW first \in Drifts(f.code, c.chain[1]),
                    NEW other \in UNION {Drifts(f.code, e) : e \in v.evidence}
             PROVE  LET d == [c EXCEPT !.root = root, !.chain[1] = first]
                        others == {e \in v.evidence : e.text # other.text} \cup {other}
                        exact == ReboundClaim(f.code, c)
                        cited == {Rebind(f.code, e) : e \in v.evidence}
                    IN  /\ DefectStands(f, d, others) = DefectStands(f, exact, cited)
                        /\ DefectStands(f, d, others)
                             => DefectFinding(f, d) = DefectFinding(f, exact)
  BY DEF SurviveDrift
<1> DEFINE d == [c EXCEPT !.root = root, !.chain[1] = first]
           others == {e \in v.evidence : e.text # other.text} \cup {other}
           exact == BoundClaim(f.code, c)
           cited == BoundLines(f.code, v.evidence)
           n == Len(c.chain)
<1>1. IsFiniteSet(DOMAIN f.code)
  <2>1. f.code \in Seq(Range(f.code))
    <3>1. PICK push \in Pushes : f \in Range(push)
      BY DEF Contents
    <3> QED
      BY <3>1, PushAssumption
  <2>2. DOMAIN f.code = 1..Len(f.code) /\ Len(f.code) \in Nat
    BY <2>1
  <2> QED
    BY <2>2, FS_Interval
<1>2. /\ ClaimShape(c) /\ DefectShape(c)
      /\ \A e \in v.evidence : LineShape(e)
  BY ShapeAssumption, AnswerAssumption
<1>3. /\ c = [outcome |-> c.outcome, symbol |-> c.symbol, root |-> c.root, chain |-> c.chain]
      /\ n \in Nat /\ DOMAIN c.chain = 1..n /\ 1 \in 1..n
      /\ c.chain = [i \in 1..n |-> c.chain[i]]
      /\ c.root \in Range(c.chain)
      /\ \A i \in 1..n : LineShape(c.chain[i])
  BY <1>2 DEF ClaimShape, DefectShape, Range
<1>4. /\ LineShape(root) /\ root.text = c.root.text
      /\ LineShape(first) /\ first.text = c.chain[1].text
      /\ LineShape(other) /\ \E e \in v.evidence : other.text = e.text
  <2>1. ASSUME NEW e, LineShape(e), NEW x \in Drifts(f.code, e)
        PROVE  LineShape(x) /\ x.text = e.text
    BY <2>1 DEF LineShape, Drifts
  <2>2. LineShape(c.root)
    BY <1>3 DEF Range
  <2> QED
    BY <1>2, <1>3, <2>1, <2>2
<1>5. d = [outcome |-> c.outcome, symbol |-> c.symbol, root |-> root,
           chain |-> [c.chain EXCEPT ![1] = first]]
  <2>1. PICK o, y, r, h : c = [outcome |-> o, symbol |-> y, root |-> r, chain |-> h]
    BY <1>3
  <2> DEFINE p == [c EXCEPT !.root = root]
  <2>2. p = [outcome |-> o, symbol |-> y, root |-> root, chain |-> h]
    BY <2>1
  <2>3. d = [p EXCEPT !.chain[1] = first]
    OBVIOUS
  <2> HIDE DEF p, d
  <2>4. [p EXCEPT !.chain[1] = first]
          = [outcome |-> o, symbol |-> y, root |-> root, chain |-> [h EXCEPT ![1] = first]]
    BY <2>2
  <2>5. c.outcome = o /\ c.symbol = y /\ c.chain = h
    BY <2>1
  <2> QED
    BY <2>3, <2>4, <2>5
<1>6. IsClaim(c) /\ IsClaim(d) /\ SameQuotes(c, d)
  <2>1. /\ DOMAIN d.chain = 1..n
        /\ \A i \in 1..n : d.chain[i] = IF i = 1 THEN first ELSE c.chain[i]
        /\ d.root = root /\ d.outcome = c.outcome /\ d.symbol = c.symbol
        /\ d = [outcome |-> d.outcome, symbol |-> d.symbol, root |-> d.root, chain |-> d.chain]
    BY <1>3, <1>5
  <2> HIDE DEF d
  <2> QED
    BY <1>3, <1>4, <2>1 DEF IsClaim, SameQuotes, Range
<1>7. IsClaim(exact) /\ SameQuotes(exact, d)
  <2>1. IsClaim(exact) /\ SameQuotes(c, exact)
    BY <1>3 DEF IsClaim, SameQuotes, BoundClaim, Bound, LineShape
  <2> QED
    BY <1>6, <2>1 DEF SameQuotes
<1>8. /\ \A e \in others \cup cited : LineShape(e)
      /\ {e.text : e \in cited} = {e.text : e \in v.evidence}
      /\ {e.text : e \in others} = {e.text : e \in v.evidence}
  <2>1. \A e \in others \cup cited : LineShape(e)
    BY <1>2, <1>4 DEF BoundLines, Bound, LineShape
  <2>2. {e.text : e \in cited} = {e.text : e \in v.evidence}
    <3>1. \A t : Bound(f.code, t).text = t
      BY DEF Bound
    <3> QED
      BY <3>1 DEF BoundLines
  <2>3. {e.text : e \in others} = {e.text : e \in v.evidence}
    BY <1>4
  <2> QED
    BY <2>1, <2>2, <2>3
<1>9. /\ Unambiguous(f.code, Quotes(c)) /\ Unambiguous(f.code, Quotes(exact))
      /\ Unambiguous(f.code, {e.text : e \in v.evidence})
  <2>1. Quotes(c) \subseteq {e.text : e \in Range(c.chain)}
    BY <1>3 DEF Quotes, Range
  <2>2. Quotes(exact) = Quotes(c)
    BY <1>6, <1>7, SameQuotesSameClaim
  <2> QED
    BY <2>1, <2>2 DEF Unambiguous
<1>10. /\ ReboundClaim(f.code, c) = exact
       /\ {Rebind(f.code, e) : e \in v.evidence} = cited
  BY <1>1, <1>2, <1>6, <1>9, ReboundIsBound, EvidenceIsBound
<1> HIDE DEF d, others, exact, cited
<1>11. /\ DefectStands(f, d, others) = DefectStands(f, exact, cited)
       /\ DefectFinding(f, d) = DefectFinding(f, exact)
  <2>1. Unambiguous(f.code, {e.text : e \in cited})
    BY <1>8, <1>9
  <2>2. {e.text : e \in cited} = {e.text : e \in others}
    BY <1>8
  <2>3. \A e \in cited \cup others : LineShape(e)
    BY <1>8
  <2>4. Unambiguous(f.code, Quotes(exact))
    BY <1>9
  <2> QED
    BY <1>1, <1>6, <1>7, <2>1, <2>2, <2>3, <2>4, QuotesDecide
<1>12. /\ DefectStands(f, d, others)
            = DefectStands(f, ReboundClaim(f.code, c), {Rebind(f.code, e) : e \in v.evidence})
       /\ DefectFinding(f, d) = DefectFinding(f, ReboundClaim(f.code, c))
  BY <1>10, <1>11
<1> QED
  BY <1>12 DEF d, others

(* Whatever HEAD a review is at, wrong lines in an answer change nothing.  *)
THEOREM DriftsAreHarmless == GateSpec => []DriftIsHarmless
<1>1. PassInv => DriftIsHarmless
  <2> SUFFICES ASSUME PassInv, run.at = "ask" PROVE Files(run.head) \in Contents
    BY ContentsSurvive DEF DriftIsHarmless
  <2> QED
    BY DEF PassInv, HeadsOK, AtRest, Files
<1> QED
  BY <1>1, InitPassInv, NextPassInv, PTL DEF GateSpec

-----------------------------------------------------------------------------
(***************************************************************************)
(* The bookkeeping. What a review decides keeps one finding per identity,  *)
(* in one state, if the ledger it read did.                                *)
(***************************************************************************)
LedgerOK(l) ==
  /\ \A x, y \in l.open \cup l.resolved : Same(x, y) => x = y
  /\ l.open \cap l.resolved = {}

LEMMA SameItself == \A x : Same(x, x)
BY DEF Same

(* Claims with one outcome and one symbol become one finding.              *)
LEMMA OneFindingEach ==
  ASSUME NEW r, NEW e, NEW x \in FindingsOf(r, e), NEW y \in FindingsOf(r, e), Same(x, y)
  PROVE  x = y
<1> DEFINE f == Files(r.head)
           found == {IF e.candidates[i].kind = "missing"
                     THEN [criterion |-> e.candidates[i].criterion, wording |-> r.wording]
                     ELSE DefectFinding(f, e.candidates[i].claim) : i \in Accepted(f, e)}
           texts(z) == UNION {w.texts : w \in {v \in found : Same(z, v)}}
           merged(z) == IF IsMissingTest(z) THEN z ELSE [z EXCEPT !.texts = texts(z)]
<1>1. PICK a \in found, b \in found : x = merged(a) /\ y = merged(b)
  BY DEF FindingsOf
<1>2. \A z \in found : ~IsMissingTest(z) =>
        \E o, s, t : z = [outcome |-> o, symbol |-> s, texts |-> t]
  <2> SUFFICES ASSUME NEW z \in found, ~IsMissingTest(z)
               PROVE  \E o, s, t : z = [outcome |-> o, symbol |-> s, texts |-> t]
    OBVIOUS
  <2>1. PICK i \in Accepted(f, e) :
          z = IF e.candidates[i].kind = "missing"
              THEN [criterion |-> e.candidates[i].criterion, wording |-> r.wording]
              ELSE DefectFinding(f, e.candidates[i].claim)
    OBVIOUS
  <2>2. z = DefectFinding(f, e.candidates[i].claim)
    BY <2>1 DEF IsMissingTest
  <2> QED
    BY <2>2 DEF DefectFinding
<1> HIDE DEF found
<1>3. ASSUME NEW z \in found, ~IsMissingTest(z)
      PROVE  /\ merged(z) = [outcome |-> z.outcome, symbol |-> z.symbol, texts |-> texts(z)]
             /\ ~IsMissingTest(merged(z))
  <2>1. PICK o, s, t : z = [outcome |-> o, symbol |-> s, texts |-> t]
    BY <1>2, <1>3
  <2> QED
    BY <1>3, <2>1 DEF IsMissingTest
<1>4. CASE IsMissingTest(a) \/ IsMissingTest(b)
  <2>1. IsMissingTest(x) \/ IsMissingTest(y)
    BY <1>1, <1>4
  <2> QED
    BY <2>1 DEF Same
<1>5. CASE ~IsMissingTest(a) /\ ~IsMissingTest(b)
  <2>1. a.outcome = b.outcome /\ a.symbol = b.symbol
    <3>1. /\ x = [outcome |-> a.outcome, symbol |-> a.symbol, texts |-> texts(a)]
          /\ y = [outcome |-> b.outcome, symbol |-> b.symbol, texts |-> texts(b)]
      BY <1>1, <1>3, <1>5
    <3>2. ~IsMissingTest(x) /\ ~IsMissingTest(y)
      BY <1>1, <1>3, <1>5
    <3>3. x.outcome = y.outcome /\ x.symbol = y.symbol
      BY <3>2 DEF Same
    <3> QED
      BY <3>1, <3>3
  <2>2. \A z \in found : Same(a, z) <=> Same(b, z)
    BY <1>5, <2>1 DEF Same
  <2>3. texts(a) = texts(b)
    BY <2>2
  <2> HIDE DEF texts
  <2> QED
    BY <1>1, <1>3, <1>5, <2>1, <2>3
<1> QED
  BY <1>4, <1>5

LEMMA LedgerStaysOK ==
  ASSUME NEW r, NEW e, NEW proven, LedgerOK(r.known)
  PROVE  LedgerOK(NextLedger(r, FindingsOf(r, e), proven))
<1> DEFINE current == FindingsOf(r, e)
           known == r.known.open \cup r.known.resolved
           absent == {x \in known : ~\E y \in current : Same(x, y)}
           resolved == {x \in absent : x \in r.known.resolved \/ Resolved(r, x, proven)}
           l == NextLedger(r, current, proven)
<1>1. l.open = current \cup (absent \ resolved) /\ l.resolved = resolved
  BY DEF NextLedger
<1>2. \A x, y \in current : Same(x, y) => x = y
  BY OneFindingEach
<1>3. \A x, y \in absent : Same(x, y) => x = y
  BY DEF LedgerOK
<1>4. \A x \in absent, y \in current : ~Same(x, y) /\ ~Same(y, x)
  BY DEF Same
<1>5. resolved \subseteq absent
  OBVIOUS
<1> HIDE DEF l, current, absent, resolved
<1>6. l.open \cup l.resolved = current \cup absent
  BY <1>1, <1>5
<1>7. \A x, y \in l.open \cup l.resolved : Same(x, y) => x = y
  BY <1>2, <1>3, <1>4, <1>6
<1>8. l.open \cap l.resolved = {}
  BY <1>1, <1>4, <1>5, SameItself
<1> QED
  BY <1>7, <1>8 DEF LedgerOK, l, current

(* While the model is asked, the ledger that was read is kept; what is     *)
(* decided is written as a whole. A row may be live while its job is busy. *)
RunsLedger ==
  /\ LedgerOK(ledger)
  /\ run.at = "ask" => LedgerOK(run.known)
  /\ run.at \in {"publish", "post"} => LedgerOK(run.next)
Verdicts == {"PASS", "FAIL", "FOLLOW_UP", "ABSTAIN"}
RunsVerdict ==
  /\ said.verdict \in Verdicts \cup {"none"}
  /\ run.at \in {"publish", "post"} => run.verdict \in Verdicts
Bounds ==
  /\ wording \in Nat /\ CurrentHead + wording <= MaxChanges + 2
  /\ faults \in 0..MaxFaults
  /\ run.at \in {"rest", "ask", "publish", "post", "report"}
RunRows ==
  /\ rows \in Seq(Range(rows)) /\ Len(rows) <= MaxRows
  /\ run.at = "ask" => Len(rows) < MaxRows
  /\ ~AtRest => run.busy
  /\ \A i \in DOMAIN rows : "live" \in DOMAIN rows[i] /\ (rows[i].live => run.busy)
GateInv == PassInv /\ RunsLedger /\ RunsVerdict /\ Bounds /\ RunRows

LEMMA InvMeansGateTypes == GateInv => GateTypeOK
<1> SUFFICES ASSUME GateInv PROVE GateTypeOK
  OBVIOUS
<1>1. Range(heads) \subseteq Contents
  BY DEF GateInv, PassInv, HeadsOK, Range
<1> QED
  BY <1>1 DEF GateInv, PassInv, HeadsOK, RunsLedger, LedgerOK, RunsVerdict, Verdicts, Bounds, RunRows,
    GateTypeOK, CurrentHead

LEMMA InitGateInv == GateInit => GateInv
<1> SUFFICES ASSUME GateInit PROVE GateInv
  OBVIOUS
<1>1. run = Resting(FALSE) /\ rows = <<>> /\ Len(heads) = 1 /\ wording = 1 /\ faults = 0
  BY DEF GateInit
<1>2. rows \in Seq(Range(rows)) /\ Len(rows) = 0
  BY <1>1
<1> QED
  BY <1>1, <1>2, InitPassInv, BoundAssumption
  DEF GateInit, GateInv, RunsLedger, LedgerOK, RunsVerdict, Verdicts, Bounds, RunRows, Resting, AtRest, CurrentHead

(* The table: a row is added while the model's answer is taken, and all    *)
(* rows are done when the job ends.                                        *)
LEMMA RowAdded ==
  ASSUME RunRows, run.at = "ask", NEW row, "live" \in DOMAIN row,
         rows' = Append(rows, row) \/ rows' = rows, run'.at \notin {"rest", "ask"}, run'.busy
  PROVE  RunRows'
<1>1. /\ Len(rows') <= Len(rows) + 1
      /\ rows' \in Seq(Range(rows) \cup {row})
      /\ \A i \in DOMAIN rows' : rows'[i] = row \/ (i \in DOMAIN rows /\ rows'[i] = rows[i])
  <2>1. rows \in Seq(Range(rows) \cup {row})
    <3>1. \A i \in 1..Len(rows) : rows[i] \in Range(rows) \cup {row}
      BY DEF RunRows
    <3> QED
      BY <3>1 DEF RunRows
  <2> QED
    BY <2>1
<1>2. rows' \in Seq(Range(rows'))
  BY <1>1 DEF Range
<1> QED
  BY <1>1, <1>2, BoundAssumption DEF RunRows, AtRest

LEMMA RowsDone ==
  ASSUME RunRows, JobEnds
  PROVE  RunRows'
<1>1. rows' = [i \in DOMAIN rows |-> [rows[i] EXCEPT !.live = FALSE]]
  BY DEF JobEnds
<1>2. DOMAIN rows = 1..Len(rows) /\ Len(rows) \in Nat
  BY DEF RunRows
<1> DEFINE done(i) == [rows[i] EXCEPT !.live = FALSE]
<1>3. rows' \in Seq(Range(rows')) /\ Len(rows') = Len(rows)
  <2>1. rows' = [i \in 1..Len(rows) |-> done(i)]
    BY <1>1, <1>2
  <2>2. \A i \in 1..Len(rows) : done(i) \in Range(rows')
    BY <2>1 DEF Range
  <2> HIDE DEF done
  <2> QED
    BY <1>2, <2>1, <2>2
<1>4. \A i \in DOMAIN rows' : "live" \in DOMAIN rows'[i] /\ rows'[i].live = FALSE
  BY <1>1 DEF RunRows
<1>5. run'.at = "rest"
  BY DEF JobEnds, Resting
<1> QED
  BY <1>3, <1>4, <1>5 DEF RunRows, AtRest

LEMMA RowsUntouched ==
  ASSUME RunRows, rows' = rows, run'.at # "ask", run'.busy
  PROVE  RunRows'
BY DEF RunRows, AtRest

LEMMA TurnVerdicts ==
  ASSUME NEW r, NEW envelope, NEW failed
  PROVE  Evaluated(r, envelope, failed).verdict \in Verdicts
BY DEF Evaluated, TurnVerdict, BaseVerdict, Verdicts

LEMMA EvaluatedLedger ==
  ASSUME NEW r, NEW envelope, NEW failed, LedgerOK(r.known)
  PROVE  LedgerOK(Evaluated(r, envelope, failed).next)
<1> DEFINE e == Filtered(r, envelope)
           proven == Grounded(e.coverage, r.menu)
<1>1. Evaluated(r, envelope, failed).next = NextLedger(r, FindingsOf(r, e), proven)
  BY DEF Evaluated
<1> HIDE DEF e, proven
<1> QED
  BY <1>1, LedgerStaysOK

LEMMA ConcludeGateInv ==
  ASSUME GateInv, run.at = "ask", NEW envelope, NEW passes, NEW calls, NEW stored,
         Conclude(envelope, passes, calls, stored), faults' \in 0..MaxFaults
  PROVE  GateInv'
<1> DEFINE v == Evaluated(run, envelope, passes)
           row == Row(run, v, calls)
<1>1. /\ run'.at = "publish" /\ run'.busy
      /\ run'.verdict = v.verdict /\ run'.next = v.next
      /\ rows' = Append(rows, row) \/ rows' = rows
      /\ UNCHANGED <<heads, wording, ledger, said>>
  BY DEF Conclude
<1>2. "live" \in DOMAIN row
  BY DEF Row
<1>3. v.verdict \in Verdicts /\ LedgerOK(v.next)
  BY TurnVerdicts, EvaluatedLedger DEF GateInv, RunsLedger
<1>4. PassInv'
  BY ConcludePassInv DEF GateInv
<1> HIDE DEF v, row
<1>5. RunRows'
  BY <1>1, <1>2, RowAdded DEF GateInv
<1>6. LedgerOK(ledger)'
  BY <1>1 DEF GateInv, RunsLedger, LedgerOK
<1>7. LedgerOK(run'.next)
  BY <1>1, <1>3
<1> QED
  BY <1>1, <1>3, <1>4, <1>5, <1>6, <1>7
  DEF GateInv, RunsLedger, RunsVerdict, Verdicts, Bounds, CurrentHead, LedgerOK

(* A job that ends, or starts over.                                        *)
LEMMA RestGateInv ==
  ASSUME GateInv, PassInv', NEW b, run' = Resting(b), UNCHANGED <<heads, wording, ledger>>,
         faults' \in 0..MaxFaults, said'.verdict \in Verdicts \cup {"none"},
         JobEnds \/ (b = TRUE /\ rows' = rows)
  PROVE  GateInv'
<1>1. run'.at = "rest" /\ run'.busy = b
  BY DEF Resting
<1>2. RunRows'
  BY <1>1, RowsDone, RowsUntouched DEF GateInv
<1> QED
  BY <1>1, <1>2 DEF GateInv, RunsLedger, RunsVerdict, Verdicts, Bounds, CurrentHead, LedgerOK

LEMMA FaultBound ==
  ASSUME faults \in 0..MaxFaults, NEW b \in BOOLEAN, MayFail(b), CountFault(b)
  PROVE  faults' \in 0..MaxFaults
BY BoundAssumption DEF MayFail, CountFault

LEMMA StepGateInv == GateInv /\ [GateNext]_gateVars => GateInv'
<1> SUFFICES ASSUME GateInv, [GateNext]_gateVars PROVE GateInv'
  OBVIOUS
<1>1. PassInv' /\ faults \in 0..MaxFaults /\ MaxRows \in Nat
  BY NextPassInv, BoundAssumption DEF GateInv, Bounds
<1>2. CASE Begin
  <2>1. /\ run'.at = "ask" /\ run'.busy /\ run'.known = ledger /\ Len(rows) < MaxRows
        /\ UNCHANGED <<heads, wording, ledger, rows, said>>
    BY <1>2 DEF Begin
  <2>2. faults' \in 0..MaxFaults
    BY <1>1, <1>2, FaultBound DEF Begin
  <2>3. RunRows'
    BY <2>1 DEF GateInv, RunRows, AtRest
  <2>4. LedgerOK(run'.known) /\ LedgerOK(ledger)'
    BY <2>1 DEF GateInv, RunsLedger, LedgerOK
  <2> QED
    BY <1>1, <2>1, <2>2, <2>3, <2>4
    DEF GateInv, RunsLedger, RunsVerdict, Bounds, CurrentHead, LedgerOK
<1>3. CASE Reuse
  BY <1>1, <1>3, FaultBound, ConcludeGateInv DEF Reuse
<1>4. CASE Ask
  <2>1. PICK fault \in BOOLEAN :
          /\ MayFail(fault) /\ CountFault(fault)
          /\ \E envelope, passes, calls, stored : Conclude(envelope, passes, calls, stored)
    BY <1>4, ZenonT(60) DEF Ask
  <2>2. PICK envelope, passes, calls, stored : Conclude(envelope, passes, calls, stored)
    BY <2>1
  <2> QED
    BY <1>1, <1>4, <2>1, <2>2, FaultBound, ConcludeGateInv DEF Ask
<1>5. CASE AskInVain
  <2> DEFINE row == [head |-> run.head, valid |-> FALSE, live |-> TRUE]
  <2>1. /\ run.at = "ask" /\ run'.at = "report" /\ run'.busy
        /\ rows' = Append(rows, row) /\ UNCHANGED <<heads, wording, ledger, said>>
    BY <1>5 DEF AskInVain
  <2>2. RunRows'
    BY <2>1, RowAdded DEF GateInv
  <2>3. faults' \in 0..MaxFaults
    BY <1>1, <1>5, FaultBound DEF AskInVain
  <2> QED
    BY <1>1, <2>1, <2>2, <2>3 DEF GateInv, RunsLedger, RunsVerdict, Bounds, CurrentHead, LedgerOK
<1>6. CASE Discard \/ Stop
  <2>1. JobEnds /\ run' = Resting(FALSE) /\ UNCHANGED <<heads, wording, ledger, said>>
    BY <1>6 DEF Discard, Stop, JobEnds
  <2>2. faults' \in 0..MaxFaults
    BY <1>1, <1>6, FaultBound DEF Discard, Stop
  <2> QED
    BY <1>1, <2>1, <2>2, RestGateInv DEF GateInv, RunsVerdict
<1>7. CASE Post \/ Report
  <2>1. JobEnds /\ run' = Resting(FALSE) /\ UNCHANGED <<heads, wording, ledger, faults>>
    BY <1>7 DEF Post, Report, JobEnds
  <2>2. said'.verdict \in Verdicts
    <3>1. CASE Post
      BY <3>1 DEF Post, Says, GateInv, RunsVerdict
    <3>2. CASE Report
      BY <3>2 DEF Report, Says, Verdicts
    <3> QED
      BY <1>7, <3>1, <3>2
  <2> QED
    BY <1>1, <2>1, <2>2, RestGateInv
<1>8. CASE Crash
  <2>1. run' = Resting(TRUE) /\ UNCHANGED <<heads, wording, ledger, rows, said>>
    BY <1>8 DEF Crash
  <2>2. faults' \in 0..MaxFaults
    BY <1>1, <1>8, FaultBound DEF Crash
  <2> QED
    BY <1>1, <2>1, <2>2, RestGateInv DEF GateInv, RunsVerdict
<1>9. CASE Persist
  <2>1. /\ run.at = "publish" /\ run'.at = "post" /\ ledger' = run.next
        /\ run'.verdict = run.verdict /\ run'.next = run.next /\ run'.busy = run.busy
        /\ UNCHANGED <<heads, wording, rows, said, faults>>
    BY <1>9 DEF Persist, GateInv, PassInv, RunShape
  <2>2. RunRows'
    BY <2>1 DEF GateInv, RunRows, AtRest
  <2>3. LedgerOK(ledger') /\ LedgerOK(run'.next)
    BY <2>1 DEF GateInv, RunsLedger
  <2> QED
    BY <1>1, <2>1, <2>2, <2>3 DEF GateInv, RunsLedger, RunsVerdict, Bounds, CurrentHead, LedgerOK
<1>10. CASE Push \/ Reword
  <2>1. UNCHANGED <<run, ledger, rows, said, faults>> /\ CurrentHead + wording < MaxChanges + 2
    BY <1>10 DEF Push, Reword, ChangesLeft
  <2>2. CurrentHead' + wording' = CurrentHead + wording + 1 /\ wording' \in Nat
    <3>1. CASE Push
      <4>1. PICK push \in Pushes : heads' = Append(heads, push[2]) /\ push[2] \in Contents
        BY <3>1, PushAssumption DEF Push, Contents, Range
      <4> QED
        BY <3>1, <4>1 DEF Push, CurrentHead, GateInv, PassInv, HeadsOK, Bounds
    <3>2. CASE Reword
      BY <3>2 DEF Reword, CurrentHead, GateInv, PassInv, HeadsOK, Bounds
    <3> QED
      BY <1>10, <3>1, <3>2
  <2>3. CurrentHead \in Nat
    BY DEF GateInv, PassInv, HeadsOK, CurrentHead
  <2> QED
    BY <1>1, <2>1, <2>2, <2>3, BoundAssumption
    DEF GateInv, RunsLedger, RunsVerdict, Bounds, RunRows, AtRest, LedgerOK
<1>11. CASE UNCHANGED gateVars
  BY <1>1, <1>11
  DEF gateVars, GateInv, RunsLedger, RunsVerdict, Bounds, RunRows, AtRest, LedgerOK, CurrentHead
<1> QED
  BY <1>2, <1>3, <1>4, <1>5, <1>6, <1>7, <1>8, <1>9, <1>10, <1>11 DEF GateNext

(* The ledger keeps one finding per identity, open or resolved but never   *)
(* both; a review works on a HEAD that exists; a recorded run waits for    *)
(* its job while that is busy; all stays within the bounds.                *)
THEOREM GateTypes == GateSpec => []GateTypeOK
<1> QED
  BY InitGateInv, StepGateInv, InvMeansGateTypes, PTL DEF GateSpec

-----------------------------------------------------------------------------
(***************************************************************************)
(* What is recorded can be read again. First, what is picked from a list.  *)
(***************************************************************************)
LEMMA LeastExists ==
  ASSUME NEW S \in SUBSET Nat, S # {}
  PROVE  \E x \in S : \A y \in S : x <= y
<1>1. PICK x \in S : \A y \in S : ~ (<<y, x>> \in OpToRel(<, Nat))
  BY NatLessThanWellFounded, WFMin
<1>2. ASSUME NEW y \in S PROVE x <= y
  <2>1. ~ (<<y, x>> \in OpToRel(<, Nat))
    BY <1>1
  <2>2. <<y, x>>[1] = y /\ <<y, x>>[2] = x
    OBVIOUS
  <2> QED
    BY <2>1, <2>2 DEF OpToRel
<1> QED
  BY <1>2

LEMMA GreatestExists ==
  ASSUME NEW n \in Nat, NEW P \in SUBSET (1..n), P # {}
  PROVE  Max(P) \in P
<1> DEFINE S == {n - x : x \in P}
<1>1. S \in SUBSET Nat /\ S # {}
  <2>1. ASSUME NEW x \in P PROVE n - x \in Nat
    <3>1. x \in 1..n
      OBVIOUS
    <3> QED
      BY <3>1
  <2> QED
    BY <2>1
<1>2. PICK d \in S : \A y \in S : d <= y
  BY <1>1, LeastExists
<1>3. PICK m \in P : d = n - m
  OBVIOUS
<1>4. \A x \in P : m >= x
  <2> SUFFICES ASSUME NEW x \in P PROVE m >= x
    OBVIOUS
  <2>1. d <= n - x /\ x \in 1..n /\ m \in 1..n
    BY <1>2
  <2> QED
    BY <1>3, <2>1
<1>5. \E y \in P : \A x \in P : y >= x
  BY <1>4
<1> QED
  BY <1>5 DEF Max

(* There is a j-th of a set of places: the number of those up to a place   *)
(* grows by one where it grows.                                            *)
LEMMA NthIsIn ==
  ASSUME NEW n \in Nat, NEW I \in SUBSET (1..n), NEW j \in 1..Cardinality(I)
  PROVE  Nth(I, j) \in I
<1> DEFINE UpTo(k) == {h \in I : h <= k}
           S == {k \in 0..n : Cardinality(UpTo(k)) >= j}
<1>1. IsFiniteSet(I) /\ \A k : IsFiniteSet(UpTo(k)) /\ Cardinality(UpTo(k)) \in Nat
  <2>1. IsFiniteSet(1..n)
    BY FS_Interval
  <2>2. IsFiniteSet(I)
    BY <2>1, FS_Subset
  <2>3. \A k : UpTo(k) \in SUBSET I
    OBVIOUS
  <2> QED
    BY <2>2, <2>3, FS_Subset, FS_CardinalityType
<1> HIDE DEF S
<1>0. \A i \in I : i \in Nat /\ 1 <= i /\ i <= n
  OBVIOUS
<1>2. UpTo(n) = I /\ UpTo(0) = {}
  <2>1. ASSUME NEW h \in I PROVE h <= n /\ ~(h <= 0)
    BY <1>0
  <2> QED
    BY <2>1
<1>3. n \in S /\ S \in SUBSET Nat
  <2>1. n \in 0..n /\ Cardinality(UpTo(n)) >= j
    BY <1>1, <1>2
  <2> QED
    BY <2>1 DEF S
<1>4. PICK k \in S : \A l \in S : k <= l
  BY <1>3, LeastExists
<1>5. k \in 1..n /\ Cardinality(UpTo(k)) >= j
  <2>1. k \in 0..n /\ Cardinality(UpTo(k)) >= j
    BY <1>4 DEF S
  <2>2. Cardinality(UpTo(0)) = 0
    BY <1>2, FS_EmptySet
  <2> HIDE DEF UpTo
  <2>3. k # 0
    BY <2>1, <2>2
  <2> QED
    BY <2>1, <2>3
<1>6. k - 1 \in 0..n /\ Cardinality(UpTo(k - 1)) < j
  <2>1. k - 1 \in 0..n /\ ~(k <= k - 1)
    BY <1>5
  <2>2. k - 1 \notin S
    BY <1>4, <2>1
  <2>3. Cardinality(UpTo(k - 1)) \in Nat
    BY <1>1
  <2>4. ~(Cardinality(UpTo(k - 1)) >= j)
    BY <2>1, <2>2 DEF S
  <2> HIDE DEF UpTo
  <2> QED
    BY <2>1, <2>3, <2>4
<1>7. CASE k \notin I
  <2>1. ASSUME NEW h \in I PROVE (h <= k) <=> (h <= k - 1)
    BY <1>0, <1>5, <1>7
  <2>2. UpTo(k) = UpTo(k - 1)
    BY <2>1
  <2>3. Cardinality(UpTo(k)) \in Nat
    BY <1>1
  <2> HIDE DEF UpTo
  <2> QED
    BY <1>5, <1>6, <2>2, <2>3
<1>8. CASE k \in I
  <2>0. ~(k <= k - 1) /\ k <= k /\ \A h \in I : (h <= k) <=> (h <= k - 1 \/ h = k)
    BY <1>0, <1>5
  <2>1. UpTo(k) = UpTo(k - 1) \cup {k} /\ k \notin UpTo(k - 1)
    <3>1. k \notin UpTo(k - 1) /\ k \in UpTo(k)
      BY <1>8, <2>0
    <3>2. ASSUME NEW h PROVE h \in UpTo(k) <=> h \in UpTo(k - 1) \/ h = k
      <4>1. CASE h \in I
        <5>1. (h <= k) <=> (h <= k - 1 \/ h = k)
          BY <2>0, <4>1
        <5> QED
          BY <4>1, <5>1
      <4>2. CASE h \notin I
        BY <1>8, <4>2
      <4> QED
        BY <4>1, <4>2
    <3> HIDE DEF UpTo
    <3> QED
      BY <3>1, <3>2
  <2>2. Cardinality(UpTo(k)) = Cardinality(UpTo(k - 1)) + 1
    <3>1. IsFiniteSet(UpTo(k - 1))
      BY <1>1
    <3> HIDE DEF UpTo
    <3> QED
      BY <2>1, <3>1, FS_AddElement
  <2>3. Cardinality(UpTo(k)) = j
    <3>2. Cardinality(UpTo(k - 1)) \in Nat
      BY <1>1
    <3> HIDE DEF UpTo
    <3> QED
      BY <1>5, <1>6, <2>2, <3>2
  <2>4. \E i \in I : Cardinality(UpTo(i)) = j
    BY <1>8, <2>3
  <2> QED
    BY <2>4 DEF Nth
<1> QED
  BY <1>7, <1>8

PickedFrom(n, I, s, t) ==
  /\ t \in Seq(Range(t)) /\ Len(t) = Cardinality(I) /\ Len(t) <= n
  /\ DOMAIN t = 1..Cardinality(I)
  /\ \A j \in 1..Cardinality(I) : Nth(I, j) \in I /\ t[j] = [s[Nth(I, j)] EXCEPT !.id = j]
LEMMA KeptIsPicked ==
  ASSUME NEW n \in Nat, NEW I \in SUBSET (1..n), NEW s
  PROVE  PickedFrom(n, I, s, Kept(s, I))
<1> DEFINE m == Cardinality(I)
           pick(j) == [s[Nth(I, j)] EXCEPT !.id = j]
           t == Kept(s, I)
<1>1. m \in Nat /\ m <= n
  <2>1. IsFiniteSet(1..n) /\ Cardinality(1..n) = n
    BY FS_Interval
  <2> QED
    BY <2>1, FS_Subset, FS_CardinalityType
<1>2. t = [j \in 1..m |-> pick(j)]
  BY DEF Kept
<1>3. \A j \in 1..m : Nth(I, j) \in I
  BY NthIsIn
<1> HIDE DEF t, m, pick
<1>4. DOMAIN t = 1..m /\ \A j \in 1..m : t[j] = pick(j) /\ pick(j) \in Range(t)
  BY <1>2 DEF Range
<1>5. t \in Seq(Range(t)) /\ Len(t) = m
  BY <1>1, <1>2, <1>4
<1> QED
  BY <1>1, <1>3, <1>4, <1>5 DEF PickedFrom, t, m, pick

-----------------------------------------------------------------------------
(* An envelope with the fields that the parser gives candidates and        *)
(* verifications.                                                          *)
CandidateFields(c) ==
  /\ {"id", "kind"} \subseteq DOMAIN c
  /\ c.kind = "missing" => "criterion" \in DOMAIN c /\ c.criterion \in Criteria
  /\ c.kind # "missing" => "claim" \in DOMAIN c
VerificationFields(v) == {"id", "verdict", "evidence"} \subseteq DOMAIN v
EnvelopeOK(e) ==
  /\ WellFormed(e)
  /\ e.candidates \in Seq(Range(e.candidates))
  /\ e.verifications \in Seq(Range(e.verifications))
  /\ \A i \in DOMAIN e.candidates :
       CandidateFields(e.candidates[i]) /\ VerificationFields(e.verifications[i])

LEMMA RenumberedCandidate ==
  ASSUME NEW c, NEW j, CandidateFields(c), NEW coverage
  PROVE  LET d == [c EXCEPT !.id = j]
         IN  /\ CandidateFields(d) /\ d.id = j /\ d.kind = c.kind
             /\ CandidateShape(coverage, c) => CandidateShape(coverage, d)
             /\ c.kind = "missing" => d.criterion = c.criterion
             /\ \A v : VerificationShape(c, v) => VerificationShape(d, v)
<1> DEFINE d == [c EXCEPT !.id = j]
<1>1. /\ DOMAIN d = DOMAIN c /\ d.id = j /\ d.kind = c.kind
      /\ c.kind = "missing" => d.criterion = c.criterion
      /\ c.kind # "missing" => d.claim = c.claim
  BY DEF CandidateFields
<1> HIDE DEF d
<1>2. CandidateFields(d)
  BY <1>1 DEF CandidateFields
<1>3. CandidateShape(coverage, c) => CandidateShape(coverage, d)
  BY <1>1 DEF CandidateShape
<1>4. \A v : VerificationShape(c, v) => VerificationShape(d, v)
  BY <1>1 DEF VerificationShape
<1> QED
  BY <1>1, <1>2, <1>3, <1>4 DEF d

LEMMA RenumberedVerification ==
  ASSUME NEW v, NEW j, VerificationFields(v), NEW c, VerificationShape(c, v)
  PROVE  LET w == [v EXCEPT !.id = j]
         IN  VerificationFields(w) /\ w.id = j /\ VerificationShape(c, w)
<1> DEFINE w == [v EXCEPT !.id = j]
<1>1. DOMAIN w = DOMAIN v /\ w.id = j /\ w.verdict = v.verdict /\ w.evidence = v.evidence
  BY DEF VerificationFields
<1> HIDE DEF w
<1> QED
  BY <1>1 DEF VerificationFields, VerificationShape, w

LEMMA FilteredIsOK ==
  ASSUME NEW r, NEW e, EnvelopeOK(e), CoverageShape(r.prior)
  PROVE  EnvelopeOK(Filtered(r, e))
<1> DEFINE n == Len(e.candidates)
           W == Wanted(r, e)
           g == Filtered(r, e)
           coverage == EffectiveCoverage(r, e.coverage)
<1>1. /\ n \in Nat /\ n <= MaxCandidates
      /\ DOMAIN e.candidates = 1..n /\ DOMAIN e.verifications = 1..n
      /\ \A i \in 1..n : /\ e.candidates[i].id = i /\ e.verifications[i].id = i
                         /\ CandidateShape(e.coverage, e.candidates[i])
                         /\ CandidateFields(e.candidates[i])
                         /\ VerificationFields(e.verifications[i])
                         /\ VerificationShape(e.candidates[i], e.verifications[i])
  BY DEF EnvelopeOK, WellFormed, VerificationsShape
<1>2. W \in SUBSET (1..n) /\ Judged(r, e) = W
  <2>1. W \in SUBSET (1..n)
    BY <1>1 DEF Wanted
  <2>2. {e.candidates[i].id : i \in W} = W
    BY <1>1, <2>1
  <2> HIDE DEF W
  <2>3. Judged(r, e) = {i \in 1..n : e.verifications[i].id \in W}
    BY <1>1, <2>2 DEF Judged, W
  <2> QED
    BY <1>1, <2>1, <2>3
<1>3. /\ g.coverage = coverage
      /\ g.candidates = Kept(e.candidates, W) /\ g.verifications = Kept(e.verifications, W)
  BY <1>2 DEF Filtered
<1>4. CoverageShape(coverage)
  BY DEF CoverageShape, EffectiveCoverage, EnvelopeOK, WellFormed
<1>5. ASSUME NEW i \in W PROVE CandidateShape(coverage, e.candidates[i])
  <2> DEFINE c == e.candidates[i]
  <2>1. CandidateShape(e.coverage, c) /\ CandidateFields(c)
    BY <1>1, <1>2
  <2>2. CASE c.kind = "missing"
    <3>1. c.criterion \in Criteria /\ c.criterion \notin StillProven(r)
      BY <1>5, <2>1, <2>2 DEF Wanted, CandidateFields
    <3>2. coverage[c.criterion] = e.coverage[c.criterion]
      BY <3>1 DEF EffectiveCoverage
    <3> QED
      BY <2>1, <2>2, <3>2 DEF CandidateShape
  <2>3. CASE c.kind # "missing"
    BY <2>1, <2>3 DEF CandidateShape
  <2> QED
    BY <2>2, <2>3
<1> HIDE DEF W, g, coverage, n
<1> DEFINE m == Cardinality(W)
<1>6. /\ g.candidates \in Seq(Range(g.candidates)) /\ Len(g.candidates) <= n
      /\ g.verifications \in Seq(Range(g.verifications))
      /\ DOMAIN g.candidates = 1..m /\ DOMAIN g.verifications = 1..m
      /\ Len(g.candidates) = m
      /\ \A j \in 1..m : /\ Nth(W, j) \in W
                         /\ g.candidates[j] = [e.candidates[Nth(W, j)] EXCEPT !.id = j]
                         /\ g.verifications[j] = [e.verifications[Nth(W, j)] EXCEPT !.id = j]
  <2>1. n \in Nat /\ W \in SUBSET (1..n)
    BY <1>1, <1>2
  <2>2. /\ PickedFrom(n, W, e.candidates, g.candidates)
        /\ PickedFrom(n, W, e.verifications, g.verifications)
    BY <1>3, <2>1, KeptIsPicked
  <2> QED
    BY <2>2 DEF PickedFrom
<1> HIDE DEF m
<1>7. ASSUME NEW j \in 1..m
      PROVE  /\ g.candidates[j].id = j /\ g.verifications[j].id = j
             /\ CandidateShape(g.coverage, g.candidates[j])
             /\ CandidateFields(g.candidates[j]) /\ VerificationFields(g.verifications[j])
             /\ VerificationShape(g.candidates[j], g.verifications[j])
  <2> DEFINE i == Nth(W, j)
  <2>1. i \in W /\ i \in 1..n
    BY <1>2, <1>6
  <2> HIDE DEF i
  <2>2. g.candidates[j] = [e.candidates[i] EXCEPT !.id = j]
    BY <1>6 DEF i
  <2>3. g.verifications[j] = [e.verifications[i] EXCEPT !.id = j]
    BY <1>6 DEF i
  <2>4. /\ CandidateShape(coverage, e.candidates[i])
        /\ CandidateFields(e.candidates[i]) /\ VerificationFields(e.verifications[i])
        /\ VerificationShape(e.candidates[i], e.verifications[i])
    BY <1>1, <1>5, <2>1
  <2>5. /\ g.candidates[j].id = j /\ CandidateShape(coverage, g.candidates[j])
        /\ CandidateFields(g.candidates[j])
        /\ VerificationShape(g.candidates[j], e.verifications[i])
    BY <2>2, <2>4, RenumberedCandidate
  <2>6. /\ g.verifications[j].id = j /\ VerificationFields(g.verifications[j])
        /\ VerificationShape(g.candidates[j], g.verifications[j])
    BY <2>3, <2>4, <2>5, RenumberedVerification, SMTT(30)
  <2> QED
    BY <1>3, <2>5, <2>6
<1>8. Len(g.candidates) <= MaxCandidates
  BY <1>1, <1>6 DEF MaxCandidates
<1>9. WellFormed(g)
  BY <1>3, <1>4, <1>6, <1>7, <1>8 DEF WellFormed, VerificationsShape
<1> QED
  BY <1>6, <1>7, <1>9 DEF EnvelopeOK, g

-----------------------------------------------------------------------------
(* What the model answers is such an envelope, whichever calls fail.       *)
Candidate(coverage, c) ==
  CandidateShape(coverage, c) /\ CandidateFields(c)

AreCandidates(coverage, m) ==
  /\ m \in Seq(Range(m)) /\ Len(m) <= MaxCandidates
  /\ \A i \in DOMAIN m : m[i].id = i /\ Candidate(coverage, m[i])
LEMMA MergedAreCandidates ==
  ASSUME NEW coverage, NEW claims, claims \in Seq(Range(claims)),
         \A c \in Range(claims) : DefectShape(c),
         NEW missing \in Seq(Criteria), \A k \in Range(missing) : coverage[k].status = "missing"
  PROVE  AreCandidates(coverage, Merged(claims, missing))
<1> DEFINE T == {Defect(c) : c \in Range(claims)} \cup {MissingTest(k) : k \in Range(missing)}
           A == [i \in DOMAIN claims |-> Defect(claims[i])]
           B == [i \in DOMAIN missing |-> MissingTest(missing[i])]
           all == A \o B
           n == Min({MaxCandidates, Len(all)})
           part == SubSeq(all, 1, n)
           m == Merged(claims, missing)
<1>1. \A t \in T : Candidate(coverage, t)
  <2>1. ASSUME NEW c \in Range(claims) PROVE Candidate(coverage, Defect(c))
    BY <2>1 DEF Candidate, Defect, CandidateShape, CandidateFields
  <2>2. ASSUME NEW k \in Range(missing) PROVE Candidate(coverage, MissingTest(k))
    <3>1. k \in Criteria
      BY DEF Range
    <3> QED
      BY <3>1 DEF Candidate, MissingTest, CandidateShape, CandidateFields
  <2> QED
    BY <2>1, <2>2
<1>2. A \in Seq(T) /\ B \in Seq(T)
  <2>1. \A i \in 1..Len(claims) : Defect(claims[i]) \in T
    BY DEF Range
  <2>2. \A i \in 1..Len(missing) : MissingTest(missing[i]) \in T
    BY DEF Range
  <2> HIDE DEF T
  <2> QED
    BY <2>1, <2>2
<1> HIDE DEF T, A, B
<1>3. all \in Seq(T) /\ Len(all) \in Nat
  BY <1>2
<1> HIDE DEF all
<1>4. n \in {MaxCandidates, Len(all)} /\ n <= MaxCandidates /\ n <= Len(all)
  <2> DEFINE S == {MaxCandidates, Len(all)}
  <2>1. \E x \in S : \A y \in S : x <= y
    BY <1>3 DEF MaxCandidates
  <2> QED
    BY <2>1 DEF Min
<1> HIDE DEF n
<1>5. part \in Seq(T) /\ Len(part) = n /\ n \in Nat
  BY <1>3, <1>4 DEF MaxCandidates
<1> HIDE DEF part
<1> DEFINE pick(i) == [part[i] EXCEPT !.id = i]
<1>6. m = [i \in 1..n |-> pick(i)]
  <2>1. m = Renumbered(part)
    BY DEF Merged, m, part, n, all, A, B
  <2>2. DOMAIN part = 1..n
    BY <1>5
  <2> QED
    BY <2>1, <2>2 DEF Renumbered
<1>7. \A i \in 1..n : pick(i).id = i /\ Candidate(coverage, pick(i))
  <2> SUFFICES ASSUME NEW i \in 1..n PROVE pick(i).id = i /\ Candidate(coverage, pick(i))
    OBVIOUS
  <2>1. part[i] \in T
    BY <1>5
  <2> QED
    BY <1>1, <2>1, RenumberedCandidate DEF Candidate
<1> HIDE DEF m, pick
<1>8. DOMAIN m = 1..n /\ \A i \in 1..n : m[i] = pick(i) /\ pick(i) \in Range(m)
  BY <1>6 DEF Range
<1>9. m \in Seq(Range(m)) /\ Len(m) = n
  BY <1>5, <1>6, <1>8
<1> QED
  BY <1>4, <1>7, <1>8, <1>9 DEF AreCandidates, m

LEMMA AskedIsOK ==
  ASSUME NEW a \in Answers, NEW passes, NEW lost,
         NEW checks \in [DOMAIN Extracted(a, passes).candidates \ lost -> Checks],
         \A i \in DOMAIN checks : VerificationShape(Extracted(a, passes).candidates[i], checks[i])
  PROVE  LET x == Extracted(a, passes)
         IN  EnvelopeOK([coverage |-> x.coverage, candidates |-> x.candidates,
                         verifications |-> Verifications(x.candidates, lost, checks)])
<1> DEFINE x == Extracted(a, passes)
           claims == IF "defect" \in passes THEN <<>> ELSE a.claims
           missing == IF "coverage" \in passes THEN <<>> ELSE a.missing
           v == Verifications(x.candidates, lost, checks)
           e == [coverage |-> x.coverage, candidates |-> x.candidates, verifications |-> v]
<1>1. x.candidates = Merged(claims, missing)
  BY DEF Extracted
<1>2. CoverageShape(x.coverage) /\ \A k \in Range(missing) : x.coverage[k].status = "missing"
  <2>1. CASE "coverage" \in passes
    <3>1. x.coverage = [k \in Criteria |-> Unknown] /\ missing = <<>>
      BY <2>1 DEF Extracted
    <3>2. CoverageShape(x.coverage)
      <4>1. <<>> \in Seq(Range(<<>>)) /\ Len(<<>>) = 0
        BY DEF Range
      <4>2. \A k \in Criteria : x.coverage[k].status = "unknown" /\ x.coverage[k].evidence = <<>>
        BY <3>1 DEF Unknown
      <4>3. ASSUME NEW c, \A k \in Criteria : c[k].status = "unknown" /\ c[k].evidence = <<>>
            PROVE  CoverageShape(c)
        <5> SUFFICES ASSUME NEW k \in Criteria
                     PROVE  /\ c[k].status \in {"covered", "missing", "unknown"}
                            /\ (c[k].status = "covered") <=> (c[k].evidence # <<>>)
                            /\ c[k].evidence \in Seq(Range(c[k].evidence))
                            /\ Len(c[k].evidence) <= 4
          BY DEF CoverageShape
        <5>1. c[k].status = "unknown" /\ c[k].evidence = <<>>
          BY <4>3
        <5> QED
          BY <4>1, <5>1
      <4> QED
        BY <4>2, <4>3
    <3> QED
      BY <3>1, <3>2 DEF Range
  <2>2. CASE "coverage" \notin passes
    <3>1. x.coverage = a.coverage /\ missing = a.missing
      BY <2>2 DEF Extracted
    <3> QED
      BY <3>1, AnswerAssumption
  <2> QED
    BY <2>1, <2>2
<1>3. /\ claims \in Seq(Range(claims)) /\ \A c \in Range(claims) : DefectShape(c)
      /\ missing \in Seq(Criteria)
  <2>1. /\ <<>> \in Seq(Range(<<>>)) /\ \A c \in Range(<<>>) : DefectShape(c)
        /\ <<>> \in Seq(Criteria)
    BY DEF Range
  <2>2. /\ a.claims \in Seq(Range(a.claims)) /\ \A c \in Range(a.claims) : DefectShape(c)
        /\ a.missing \in Seq(Criteria)
    BY AnswerAssumption
  <2> QED
    BY <2>1, <2>2
<1> HIDE DEF claims, missing
<1>4. /\ x.candidates \in Seq(Range(x.candidates)) /\ Len(x.candidates) <= MaxCandidates
      /\ \A i \in DOMAIN x.candidates :
           x.candidates[i].id = i /\ Candidate(x.coverage, x.candidates[i])
  <2>1. AreCandidates(x.coverage, Merged(claims, missing))
    BY <1>2, <1>3, MergedAreCandidates
  <2> QED
    BY <1>1, <2>1 DEF AreCandidates
<1> HIDE DEF x
<1> DEFINE w(i) == LET u == IF i \in lost THEN NoAnswer ELSE checks[i]
                   IN  [id |-> x.candidates[i].id, verdict |-> u.verdict, evidence |-> u.evidence]
           n == Len(x.candidates)
<1>5. v = [i \in 1..n |-> w(i)] /\ n \in Nat /\ DOMAIN x.candidates = 1..n
  BY <1>4 DEF Verifications
<1>6. ASSUME NEW i \in 1..n
      PROVE  w(i).id = i /\ VerificationShape(x.candidates[i], w(i)) /\ VerificationFields(w(i))
  <2>1. CASE i \in lost
    BY <1>4, <1>5, <2>1 DEF NoAnswer, VerificationShape, VerificationFields
  <2>2. CASE i \notin lost
    <3>1. i \in DOMAIN checks
      BY <1>5, <2>2 DEF x
    <3>2. VerificationShape(x.candidates[i], checks[i])
      BY <3>1 DEF x
    <3>3. /\ w(i).id = i /\ w(i).verdict = checks[i].verdict /\ w(i).evidence = checks[i].evidence
          /\ DOMAIN w(i) = {"id", "verdict", "evidence"}
      BY <1>4, <1>5, <2>2
    <3> HIDE DEF w
    <3> QED
      BY <3>2, <3>3 DEF VerificationShape, VerificationFields
  <2> QED
    BY <2>1, <2>2
<1> HIDE DEF v, w
<1>7. DOMAIN v = 1..n /\ \A i \in 1..n : v[i] = w(i) /\ w(i) \in Range(v)
  BY <1>5 DEF Range
<1>8. v \in Seq(Range(v))
  BY <1>5, <1>7
<1>9. e.coverage = x.coverage /\ e.candidates = x.candidates /\ e.verifications = v
  OBVIOUS
<1> HIDE DEF e
<1>10. WellFormed(e)
  BY <1>2, <1>4, <1>5, <1>6, <1>7, <1>9, SMTT(30) DEF WellFormed, VerificationsShape, Candidate
<1> QED
  BY <1>4, <1>5, <1>6, <1>7, <1>8, <1>9, <1>10 DEF EnvelopeOK, Candidate, e, v, x

LEMMA AskConcludes ==
  ASSUME Ask
  PROVE  \E envelope, passes, calls, stored :
           run.at = "ask" /\ EnvelopeOK(envelope) /\ Conclude(envelope, passes, calls, stored)
<1>1. PICK a \in Answers, passes \in {p \in SUBSET Passes : p # Passes}, stored \in BOOLEAN :
        LET x == Extracted(a, passes)
        IN  \E lost \in SUBSET DOMAIN x.candidates :
              \E checks \in [DOMAIN x.candidates \ lost -> Checks] :
                /\ \A i \in DOMAIN checks : VerificationShape(x.candidates[i], checks[i])
                /\ LET fault == passes # {} \/ lost # {} \/ ~stored
                   IN  MayFail(fault) /\ CountFault(fault)
                /\ Conclude([coverage |-> x.coverage, candidates |-> x.candidates,
                             verifications |-> Verifications(x.candidates, lost, checks)],
                            passes,
                            passes \cup {"verifier" : i \in lost}, stored)
  BY ZenonT(60) DEF Ask
<1> DEFINE x == Extracted(a, passes)
<1>2. PICK lost : \E checks \in [DOMAIN x.candidates \ lost -> Checks] :
        /\ \A i \in DOMAIN checks : VerificationShape(x.candidates[i], checks[i])
        /\ Conclude([coverage |-> x.coverage, candidates |-> x.candidates,
                     verifications |-> Verifications(x.candidates, lost, checks)],
                    passes, passes \cup {"verifier" : i \in lost}, stored)
  BY <1>1, ZenonT(30)
<1>3. PICK checks \in [DOMAIN x.candidates \ lost -> Checks] :
        /\ \A i \in DOMAIN checks : VerificationShape(x.candidates[i], checks[i])
        /\ Conclude([coverage |-> x.coverage, candidates |-> x.candidates,
                     verifications |-> Verifications(x.candidates, lost, checks)],
                    passes, passes \cup {"verifier" : i \in lost}, stored)
  BY <1>2
<1> DEFINE envelope == [coverage |-> x.coverage, candidates |-> x.candidates,
                        verifications |-> Verifications(x.candidates, lost, checks)]
<1>4. EnvelopeOK(envelope)
  BY <1>3, AskedIsOK
<1>5. run.at = "ask" /\ Conclude(envelope, passes, passes \cup {"verifier" : i \in lost}, stored)
  BY <1>3 DEF Ask
<1> HIDE DEF envelope
<1> QED
  BY <1>4, <1>5

(* The newest evidence is of a run that was read.                          *)
LEMMA StickyIsShaped ==
  ASSUME NEW n \in Nat, DOMAIN rows = 1..n, NEW history \in SUBSET (1..n),
         \A i \in history : WellFormed(rows[i].envelope)
  PROVE  CoverageShape(StickyCoverage(history))
<1> SUFFICES ASSUME NEW k \in Criteria
             PROVE  /\ StickyCoverage(history)[k].status \in {"covered", "missing", "unknown"}
                    /\ (StickyCoverage(history)[k].status = "covered")
                         <=> (StickyCoverage(history)[k].evidence # <<>>)
                    /\ StickyCoverage(history)[k].evidence
                         \in Seq(Range(StickyCoverage(history)[k].evidence))
                    /\ Len(StickyCoverage(history)[k].evidence) <= 4
  BY DEF CoverageShape
<1> DEFINE proving == {i \in history : k \in GroundedInRun(rows[i])}
           item == StickyCoverage(history)[k]
<1>1. item = IF proving = {} THEN Unknown ELSE rows[Max(proving)].envelope.coverage[k]
  BY DEF StickyCoverage
<1>2. CASE proving = {}
  BY <1>1, <1>2 DEF Unknown
<1>3. CASE proving # {}
  <2>1. Max(proving) \in history
    BY <1>3, GreatestExists
  <2>2. CoverageShape(rows[Max(proving)].envelope.coverage)
    BY <2>1 DEF WellFormed
  <2> QED
    BY <1>1, <1>3, <2>2 DEF CoverageShape
<1> QED
  BY <1>2, <1>3

(* Every recorded answer is an envelope, and so is one that is reused.     *)
RowsRead ==
  \A i \in DOMAIN rows :
    /\ {"valid", "live"} \subseteq DOMAIN rows[i]
    /\ rows[i].valid => "envelope" \in DOMAIN rows[i] /\ EnvelopeOK(rows[i].envelope)
AskRead ==
  run.at = "ask" =>
    /\ CoverageShape(run.prior)
    /\ run.cached # 0 => EnvelopeOK(rows[run.cached].envelope)
ReadInv == GateInv /\ RowsRead /\ AskRead

LEMMA ConcludeReads ==
  ASSUME ReadInv, run.at = "ask", NEW envelope, EnvelopeOK(envelope),
         NEW passes, NEW calls, NEW stored, Conclude(envelope, passes, calls, stored)
  PROVE  RowsRead' /\ AskRead'
<1> DEFINE v == Evaluated(run, envelope, passes)
           row == Row(run, v, calls)
<1>1. run'.at = "publish" /\ (rows' = Append(rows, row) \/ rows' = rows)
  BY DEF Conclude
<1>2. EnvelopeOK(v.envelope)
  <2>1. v.envelope = Filtered(run, envelope)
    BY DEF Evaluated
  <2>2. CoverageShape(run.prior)
    BY DEF ReadInv, AskRead
  <2> QED
    BY <2>1, <2>2, FilteredIsOK
<1> HIDE DEF v
<1>3. {"valid", "live", "envelope"} \subseteq DOMAIN row /\ row.envelope = v.envelope
  BY DEF Row
<1> HIDE DEF row
<1>4. \A i \in DOMAIN rows' : rows'[i] = row \/ (i \in DOMAIN rows /\ rows'[i] = rows[i])
  BY <1>1 DEF ReadInv, GateInv, RunRows
<1> QED
  BY <1>1, <1>2, <1>3, <1>4 DEF RowsRead, AskRead, ReadInv

LEMMA StepReads == ReadInv /\ [GateNext]_gateVars => ReadInv'
<1> SUFFICES ASSUME ReadInv, [GateNext]_gateVars PROVE RowsRead' /\ AskRead'
  BY StepGateInv DEF ReadInv
<1>1. DOMAIN rows = 1..Len(rows) /\ Len(rows) \in Nat
  BY DEF ReadInv, GateInv, RunRows
<1>2. CASE Begin
  <2>1. PICK listed, looked \in BOOLEAN :
          /\ run'.at = "ask" /\ rows' = rows /\ UNCHANGED <<heads, wording, ledger>>
          /\ run'.prior = StickyCoverage(IF listed THEN {i \in Complete : Decodes(i)} ELSE {})
          /\ run'.cached = IF looked THEN CacheHit ELSE 0
    BY <1>2 DEF Begin
  <2> DEFINE history == IF listed THEN {i \in Complete : Decodes(i)} ELSE {}
  <2>2. history \in SUBSET (1..Len(rows)) /\ \A i \in history : WellFormed(rows[i].envelope)
    BY <1>1 DEF Complete, Decodes
  <2> HIDE DEF history
  <2>3. CoverageShape(StickyCoverage(history))
    BY <1>1, <2>2, StickyIsShaped
  <2>4. ASSUME run'.cached # 0 PROVE EnvelopeOK(rows[run'.cached].envelope)
    <3>1. Reusable # {} /\ run'.cached = Max(Reusable)
      BY <2>1, <2>4 DEF CacheHit
    <3>2. Reusable \in SUBSET (1..Len(rows)) /\ Reusable \subseteq Complete
      BY <1>1 DEF Reusable, Complete
    <3>3. run'.cached \in Complete
      BY <1>1, <3>1, <3>2, GreatestExists
    <3> QED
      BY <3>3 DEF Complete, ReadInv, RowsRead
  <2>5. CoverageShape(run'.prior)
    BY <2>1, <2>3 DEF history
  <2>6. CoverageShape(run.prior)'
    BY <2>5 DEF CoverageShape
  <2>7. RowsRead'
    BY <2>1 DEF ReadInv, RowsRead, EnvelopeOK, WellFormed, CoverageShape
  <2>8. run'.cached # 0 => EnvelopeOK(rows'[run'.cached].envelope)
    BY <2>1, <2>4
  <2> QED
    BY <2>5, <2>7, <2>8 DEF AskRead
<1>3. CASE Reuse
  <2>1. run.at = "ask" /\ EnvelopeOK(rows[run.cached].envelope)
    BY <1>3 DEF Reuse, ReadInv, AskRead
  <2> QED
    BY <1>3, <2>1, ConcludeReads DEF Reuse
<1>4. CASE Ask
  <2>1. PICK envelope, passes, calls, stored :
          run.at = "ask" /\ EnvelopeOK(envelope) /\ Conclude(envelope, passes, calls, stored)
    BY <1>4, AskConcludes
  <2> QED
    BY <2>1, ConcludeReads
<1>5. CASE AskInVain
  <2> DEFINE row == [head |-> run.head, valid |-> FALSE, live |-> TRUE]
  <2>1. run'.at = "report" /\ rows' = Append(rows, row)
    BY <1>5 DEF AskInVain
  <2>2. {"valid", "live"} \subseteq DOMAIN row /\ ~row.valid
    OBVIOUS
  <2> HIDE DEF row
  <2>3. \A i \in DOMAIN rows' : rows'[i] = row \/ (i \in DOMAIN rows /\ rows'[i] = rows[i])
    BY <2>1 DEF ReadInv, GateInv, RunRows
  <2> QED
    BY <2>1, <2>2, <2>3 DEF ReadInv, RowsRead, AskRead
<1>6. CASE Discard \/ Post \/ Report \/ Stop
  <2>0. JobEnds
    BY <1>6 DEF Discard, Post, Report, Stop
  <2>1. /\ run'.at = "rest"
        /\ rows' = [i \in DOMAIN rows |-> [rows[i] EXCEPT !.live = FALSE]]
    BY <2>0 DEF JobEnds, Resting
  <2>2. ASSUME NEW i \in DOMAIN rows'
        PROVE  /\ i \in DOMAIN rows /\ DOMAIN rows'[i] = DOMAIN rows[i]
               /\ rows'[i].valid = rows[i].valid
               /\ "envelope" \in DOMAIN rows[i] => rows'[i].envelope = rows[i].envelope
    BY <2>1 DEF ReadInv, RowsRead
  <2> QED
    BY <2>1, <2>2 DEF ReadInv, RowsRead, AskRead
<1>7. CASE Crash
  <2>1. run'.at = "rest" /\ rows' = rows
    BY <1>7 DEF Crash, Resting
  <2> QED
    BY <2>1 DEF ReadInv, RowsRead, AskRead
<1>8. CASE Persist
  <2>1. run'.at = "post" /\ rows' = rows
    BY <1>8 DEF Persist, ReadInv, GateInv, PassInv, RunShape
  <2> QED
    BY <2>1 DEF ReadInv, RowsRead, AskRead
<1>9. CASE Push \/ Reword \/ UNCHANGED gateVars
  <2>1. run' = run /\ rows' = rows
    BY <1>9 DEF Push, Reword, gateVars
  <2> QED
    BY <2>1 DEF ReadInv, RowsRead, AskRead
<1> QED
  BY <1>2, <1>3, <1>4, <1>5, <1>6, <1>7, <1>8, <1>9 DEF GateNext

LEMMA ReadInvHolds == GateSpec => []ReadInv
<1>1. GateInit => ReadInv
  BY InitGateInv DEF GateInit, Resting, ReadInv, RowsRead, AskRead
<1> QED
  BY <1>1, StepReads, PTL DEF GateSpec

(* Whatever the model answers, whichever calls fail, and whatever earlier  *)
(* evidence takes out of the answer: what is recorded is again what the    *)
(* strict parser accepts.                                                  *)
THEOREM RecordedRunsDecode == GateSpec => []RecordedRunDecodes
<1>1. ReadInv => RecordedRunDecodes
  BY DEF ReadInv, RowsRead, RecordedRunDecodes, EnvelopeOK
<1> QED
  BY <1>1, ReadInvHolds, PTL

-----------------------------------------------------------------------------
(***************************************************************************)
(* What was proven stays proven, as long as no line of the test occurs     *)
(* twice: a citation is then found on the menu if and only if it is found  *)
(* in the file, once the pins are on the menu.                             *)
(***************************************************************************)
DistinctTests == \A f \in Contents : IsInjective(f.tests)

LEMMA LocateOne ==
  ASSUME NEW S, IsFiniteSet(S), NEW e
  PROVE  /\ Locate(S, e) \subseteq S
         /\ \A x, y \in Locate(S, e) : x = y
<1> DEFINE same == {r \in S : r.quote = e.quote}
<1>1. IsFiniteSet(same) /\ same \subseteq S
  BY FS_Subset
<1>2. Cardinality(same) = 1 => \A x, y \in same : x = y
  BY <1>1, FS_Singleton
<1>3. Locate(S, e) = IF e \in S THEN {e} ELSE IF Cardinality(same) = 1 THEN same ELSE {}
  BY DEF Locate
<1> HIDE DEF same
<1> QED
  BY <1>1, <1>2, <1>3

LEMMA QuotesAreRows ==
  ASSUME NEW f, IsInjective(f.tests), NEW r \in TestRows(f), NEW q \in TestRows(f),
         r.quote = q.quote
  PROVE  r = q
BY DEF TestRows, IsInjective

LEMMA LocateOnMenu ==
  ASSUME NEW f, IsInjective(f.tests), NEW menu \in SUBSET TestRows(f), NEW e,
         Locate(TestRows(f), e) \subseteq menu
  PROVE  Locate(menu, e) = Locate(TestRows(f), e)
<1> DEFINE rows0 == TestRows(f)
           all == {r \in rows0 : r.quote = e.quote}
           same == {r \in menu : r.quote = e.quote}
<1>1. CASE e \in rows0
  BY <1>1 DEF Locate
<1>2. CASE e \notin rows0 /\ all = {}
  <2>1. same = {}
    BY <1>2
  <2>2. Cardinality(all) # 1 /\ Cardinality(same) # 1
    BY <1>2, <2>1, FS_EmptySet
  <2> QED
    BY <1>2, <2>2 DEF Locate
<1>3. CASE e \notin rows0 /\ all # {}
  <2>1. PICK r \in all : TRUE
    BY <1>3
  <2>2. all = {r}
    BY <2>1, QuotesAreRows
  <2>3. Cardinality(all) = 1
    BY <2>2, FS_Singleton
  <2>4. Locate(rows0, e) = {r}
    BY <1>3, <2>2, <2>3 DEF Locate
  <2>5. same = {r}
    BY <2>2, <2>4
  <2>6. Cardinality(same) = 1
    BY <2>5, FS_Singleton
  <2>7. e \notin menu
    BY <1>3
  <2> QED
    BY <2>4, <2>5, <2>6, <2>7 DEF Locate
<1> QED
  BY <1>1, <1>2, <1>3

LEMMA ProvenOnMenu ==
  ASSUME NEW f, IsInjective(f.tests), NEW menu \in SUBSET TestRows(f), NEW k, NEW item,
         item.evidence \in Seq(Range(item.evidence)), item.evidence # <<>>,
         Pins(f, Range(item.evidence)) \subseteq menu, Proven(k, item, TestRows(f))
  PROVE  Proven(k, item, menu)
<1>1. ASSUME NEW e \in Range(item.evidence) PROVE Locate(menu, e) = Locate(TestRows(f), e)
  <2>1. Locate(TestRows(f), e) \subseteq menu
    BY DEF Pins
  <2> QED
    BY <2>1, LocateOnMenu
<1>2. item.evidence[1] \in Range(item.evidence)
  BY DEF Range
<1>3. {e \in Range(item.evidence) : Locate(menu, e) # {}}
        = {e \in Range(item.evidence) : Locate(TestRows(f), e) # {}}
  BY <1>1
<1>4. Locate(menu, item.evidence[1]) # {}
  BY <1>1, <1>2 DEF Proven
<1> QED
  BY <1>3, <1>4 DEF Proven

(* As many rows as citations, at most: they all fit if the menu has room.  *)
LEMMA PinsOnMenu ==
  ASSUME NEW f, f.tests \in Seq(Range(f.tests)), NEW cited, IsFiniteSet(cited),
         Cardinality(cited) <= MenuSize, NEW menu \in Menus(f, Pins(f, cited))
  PROVE  Pins(f, cited) \subseteq menu
<1> DEFINE pins == Pins(f, cited)
           rows0 == TestRows(f)
           found == {e \in cited : Locate(rows0, e) # {}}
           where == [e \in found |-> CHOOSE x : x \in Locate(rows0, e)]
           n == Min({MenuSize, Cardinality(rows0)})
<1>1. IsFiniteSet(rows0) /\ Cardinality(rows0) \in Nat
  <2> DEFINE place == [i \in DOMAIN f.tests |-> [quote |-> f.tests[i], line |-> i]]
  <2>1. IsFiniteSet(DOMAIN f.tests)
    BY FS_Interval
  <2>2. place \in Surjection(DOMAIN f.tests, rows0)
    BY DEF Surjection, TestRows
  <2> HIDE DEF place
  <2> QED
    BY <2>1, <2>2, FS_Surjection, FS_CardinalityType
<1>2. IsFiniteSet(pins) /\ Cardinality(pins) <= Cardinality(cited)
  <2>1. IsFiniteSet(found) /\ Cardinality(found) <= Cardinality(cited)
    BY FS_Subset
  <2>2. \A e \in found : where[e] \in Locate(rows0, e)
    OBVIOUS
  <2>3. \A x \in pins : \E e \in found : x = where[e]
    <3> SUFFICES ASSUME NEW e \in cited, NEW x \in Locate(rows0, e)
                 PROVE  e \in found /\ x = where[e]
      BY DEF Pins
    <3> QED
      BY <1>1, <2>2, LocateOne
  <2>4. where \in Surjection(found, pins)
    <3>1. \A e \in found : where[e] \in pins
      BY <2>2 DEF Pins
    <3> QED
      BY <2>3, <3>1 DEF Surjection
  <2>5. IsFiniteSet(pins) /\ Cardinality(pins) <= Cardinality(found)
    BY <2>1, <2>4, FS_Surjection
  <2>6. Cardinality(pins) \in Nat /\ Cardinality(found) \in Nat /\ Cardinality(cited) \in Nat
    BY <2>1, <2>5, FS_CardinalityType
  <2> QED
    BY <2>1, <2>5, <2>6
<1>3. pins \in SUBSET rows0
  BY <1>1, LocateOne DEF Pins
<1>4. Cardinality(pins) <= Cardinality(rows0)
  BY <1>1, <1>3, FS_Subset
<1>5. n \in {MenuSize, Cardinality(rows0)}
  <2> DEFINE S == {MenuSize, Cardinality(rows0)}
  <2>1. \E x \in S : \A y \in S : x <= y
    BY <1>1, GroundingAssumption
  <2> QED
    BY <2>1 DEF Min
<1>6. Cardinality(menu) = n /\ (pins \subseteq menu \/ menu \subseteq pins)
  BY DEF Menus
<1>7. CASE menu \subseteq pins
  <2>1. Cardinality(pins) \in Nat /\ Cardinality(cited) \in Nat /\ MenuSize \in Nat
    BY <1>2, FS_CardinalityType, GroundingAssumption
  <2>2. Cardinality(menu) <= Cardinality(pins)
    BY <1>2, <1>7, FS_Subset
  <2> HIDE DEF pins, n, rows0
  <2>3. Cardinality(pins) <= n
    BY <1>1, <1>2, <1>4, <1>5, <2>1
  <2>4. n \in Nat
    BY <1>1, <1>5, <2>1
  <2>5. Cardinality(menu) = Cardinality(pins)
    BY <1>6, <2>1, <2>2, <2>3, <2>4
  <2>6. menu = pins
    BY <1>2, <1>7, <2>5, FS_Subset
  <2> QED
    BY <2>6 DEF pins
<1> QED
  BY <1>6, <1>7

(* What a review knows of earlier proofs while it asks: for each criterion *)
(* the newest, and a menu with its rows.                                   *)
Known == {k \in Automated : ProvingRuns(k) # {}}
AskKnows ==
  /\ \A k \in Criteria : run.prior[k] = IF k \in Known THEN NewestProof(k) ELSE Unknown
  /\ run.menu \in Menus(Files(run.head),
                        Pins(Files(run.head), UNION {Range(run.prior[k].evidence) : k \in Criteria}))
(* A review knows what is recorded, unless its criteria were reworded.     *)
UpToDate == run.listed /\ run.wording = wording
WordingKnown ==
  run.at \in {"ask", "publish"} =>
    {"listed", "wording"} \subseteq DOMAIN run /\ run.wording \in Nat /\ run.wording <= wording
KnownInv ==
  /\ ReadInv /\ WordingKnown
  /\ run.at = "ask" /\ UpToDate => AskKnows
  /\ ProvenStaysProven

(* A row that is added is live, so it adds nothing to what is known.       *)
LiveRowsAdded ==
  /\ DOMAIN rows \subseteq DOMAIN rows'
  /\ \A i \in DOMAIN rows : rows'[i] = rows[i]
  /\ \A i \in DOMAIN rows' \ DOMAIN rows : rows'[i].live

LEMMA KnownStays ==
  ASSUME LiveRowsAdded, wording' = wording, ReadInv, NEW k
  PROVE  /\ ProvingRuns(k)' = ProvingRuns(k)
         /\ ProvingRuns(k) # {} => NewestProof(k)' = NewestProof(k)
<1>1. Complete' = Complete /\ Complete \subseteq DOMAIN rows
  BY DEF Complete, LiveRowsAdded
<1>2. \A i \in Complete : Decodes(i)' <=> Decodes(i)
  BY <1>1 DEF Decodes, LiveRowsAdded, WellFormed, CoverageShape
<1>3. ProvingRuns(k)' = ProvingRuns(k)
  <2>1. ProvingRuns(k)' = {i \in Complete' : /\ Decodes(i)'
                             /\ rows'[i].envelope.coverage[k].status = "covered"
                             /\ k \notin rows'[i].unproven}
    BY DEF ProvingRuns
  <2>2. \A i \in Complete : rows'[i] = rows[i]
    BY <1>1 DEF LiveRowsAdded
  <2> QED
    BY <1>1, <1>2, <2>1, <2>2 DEF ProvingRuns
<1>4. ASSUME ProvingRuns(k) # {} PROVE NewestProof(k)' = NewestProof(k)
  <2>1. ProvingRuns(k) \in SUBSET (1..Len(rows)) /\ Len(rows) \in Nat
    BY <1>1 DEF ProvingRuns, ReadInv, GateInv, RunRows
  <2>2. Max(ProvingRuns(k)) \in ProvingRuns(k)
    BY <1>4, <2>1, GreatestExists
  <2>3. Max(ProvingRuns(k)) \in DOMAIN rows
    BY <1>1, <2>2 DEF ProvingRuns
  <2>4. NewestProof(k)' = rows'[Max(ProvingRuns(k)')].envelope.coverage[k]
    BY DEF NewestProof
  <2> QED
    BY <1>3, <2>3, <2>4 DEF NewestProof, LiveRowsAdded
<1> QED
  BY <1>3, <1>4

(* What a review lists is what is known.                                   *)
LEMMA StickyIsKnown ==
  ASSUME NEW k \in Criteria
  PROVE  StickyCoverage({i \in Complete : Decodes(i)})[k]
           = IF k \in Known THEN NewestProof(k) ELSE Unknown
<1> DEFINE history == {i \in Complete : Decodes(i)}
           proving == {i \in history : k \in GroundedInRun(rows[i])}
<1>1. StickyCoverage(history)[k]
        = IF proving = {} THEN Unknown ELSE rows[Max(proving)].envelope.coverage[k]
  BY DEF StickyCoverage
<1>2. proving = IF k \in Automated THEN ProvingRuns(k) ELSE {}
  BY DEF GroundedInRun, ProvingRuns
<1> HIDE DEF proving, history
<1>3. CASE k \in Known
  BY <1>1, <1>2, <1>3 DEF Known, NewestProof, history
<1>4. CASE k \notin Known
  BY <1>1, <1>2, <1>4 DEF Known, history
<1> QED
  BY <1>3, <1>4

(* So a known proof that holds in the files is found, and its criterion is *)
(* not among the missing tests.                                            *)
LEMMA KnownIsFound ==
  ASSUME DistinctTests, ReadInv, run.at = "ask", AskKnows,
         Cardinality(UNION {Range(NewestProof(k).evidence) : k \in Known}) <= MenuSize,
         NEW k \in Known, Proven(k, NewestProof(k), TestRows(Files(run.head)))
  PROVE  k \in StillProven(run)
<1> DEFINE f == Files(run.head)
           cited == UNION {Range(run.prior[q].evidence) : q \in Criteria}
<1>1. f \in Contents
  BY DEF ReadInv, GateInv, PassInv, HeadsOK, AtRest, Files
<1>2. f.tests \in Seq(Range(f.tests)) /\ IsInjective(f.tests)
  <2>1. PICK push \in Pushes : f \in Range(push)
    BY <1>1 DEF Contents
  <2> QED
    BY <1>1, <2>1, PushAssumption DEF DistinctTests
<1>3. CoverageShape(run.prior) /\ k \in Criteria /\ k \in Automated
  BY DEF ReadInv, AskRead, Known, Automated
<1>4. cited = UNION {Range(NewestProof(q).evidence) : q \in Known}
  <2>1. \A q \in Criteria : q \notin Known => Range(run.prior[q].evidence) = {}
    BY DEF AskKnows, Unknown, Range
  <2>2. \A q \in Known : q \in Criteria /\ run.prior[q] = NewestProof(q)
    BY DEF AskKnows, Known, Automated
  <2> QED
    BY <2>1, <2>2
<1>5. IsFiniteSet(cited)
  <2> DEFINE T == {Range(run.prior[q].evidence) : q \in Criteria}
             g == [q \in Criteria |-> Range(run.prior[q].evidence)]
  <2>1. IsFiniteSet(T)
    <3>1. g \in Surjection(Criteria, T)
      BY DEF Surjection
    <3> HIDE DEF g, T
    <3> QED
      BY <3>1, FS_Surjection, GroundingAssumption
  <2>2. ASSUME NEW q \in Criteria PROVE IsFiniteSet(Range(run.prior[q].evidence))
    <3> DEFINE s == run.prior[q].evidence
    <3>1. s \in Seq(Range(s))
      BY <1>3 DEF CoverageShape
    <3> HIDE DEF s
    <3>2. IsFiniteSet(DOMAIN s)
      BY <3>1, FS_Interval
    <3>3. s \in Surjection(DOMAIN s, Range(s))
      BY <3>1 DEF Surjection, Range
    <3> QED
      BY <3>2, <3>3, FS_Surjection DEF s
  <2> QED
    BY <2>1, <2>2, FS_UNION
<1>6. Pins(f, cited) \subseteq run.menu
  <2>1. run.menu \in Menus(f, Pins(f, cited)) /\ Cardinality(cited) <= MenuSize
    BY <1>4 DEF AskKnows
  <2> HIDE DEF f, cited
  <2> QED
    BY <1>2, <1>5, <2>1, PinsOnMenu
<1>7. run.menu \in SUBSET TestRows(f)
  BY DEF ReadInv, GateInv, PassInv, MenuIsOfHead
<1> DEFINE item == run.prior[k]
<1>8. /\ item = NewestProof(k) /\ Proven(k, item, TestRows(f))
      /\ item.evidence \in Seq(Range(item.evidence)) /\ item.evidence # <<>>
  <2>1. item = NewestProof(k)
    BY <1>3 DEF AskKnows
  <2>2. item.status = "covered"
    BY <2>1 DEF Proven
  <2> QED
    BY <1>3, <2>1, <2>2 DEF CoverageShape
<1>9. Pins(f, Range(item.evidence)) \subseteq run.menu
  BY <1>3, <1>6 DEF Pins
<1> HIDE DEF f, item
<1>10. Proven(k, item, run.menu)
  BY <1>2, <1>7, <1>8, <1>9, ProvenOnMenu
<1> QED
  BY <1>3, <1>10 DEF StillProven, Grounded, item

LEMMA FoundIsKept ==
  ASSUME NEW r, NEW envelope, EnvelopeOK(envelope), CoverageShape(r.prior), NEW failed,
         NEW k \in StillProven(r)
  PROVE  LET v == Evaluated(r, envelope, failed)
         IN  k \in v.proven /\ ~\E x \in v.current : IsMissingTest(x) /\ x.criterion = k
<1> DEFINE e == Filtered(r, envelope)
           v == Evaluated(r, envelope, failed)
           W == Wanted(r, envelope)
<1>1. v.proven = Grounded(e.coverage, r.menu) /\ v.current = FindingsOf(r, e)
  BY DEF Evaluated
<1>2. k \in Criteria /\ k \in Automated /\ Proven(k, r.prior[k], r.menu)
  BY DEF StillProven, Grounded, Automated
<1>3. k \in v.proven
  <2>1. e.coverage[k] = IF k \in Grounded(envelope.coverage, r.menu)
                        THEN envelope.coverage[k] ELSE r.prior[k]
    BY <1>2 DEF Filtered, EffectiveCoverage
  <2>2. Proven(k, e.coverage[k], r.menu)
    BY <1>2, <2>1 DEF Grounded
  <2> QED
    BY <1>1, <1>2, <2>2 DEF Grounded
<1>4. ASSUME NEW i \in DOMAIN e.candidates, e.candidates[i].kind = "missing"
      PROVE  e.candidates[i].criterion # k
  <2> DEFINE n == Len(envelope.candidates)
             j == Nth(W, i)
  <2>1. n \in Nat /\ W \in SUBSET (1..n)
    BY DEF EnvelopeOK, Wanted
  <2>2. PickedFrom(n, W, envelope.candidates, e.candidates)
    BY <2>1, KeptIsPicked DEF Filtered
  <2>3. j \in W /\ e.candidates[i] = [envelope.candidates[j] EXCEPT !.id = i]
    BY <1>4, <2>2 DEF PickedFrom
  <2>4. CandidateFields(envelope.candidates[j])
    BY <2>1, <2>3 DEF EnvelopeOK
  <2> HIDE DEF e, W, j
  <2>5. /\ envelope.candidates[j].kind = "missing"
        /\ e.candidates[i].criterion = envelope.candidates[j].criterion
    BY <1>4, <2>3, <2>4, RenumberedCandidate
  <2>6. envelope.candidates[j].criterion \notin StillProven(r)
    BY <2>3, <2>5 DEF W, Wanted
  <2> QED
    BY <2>5, <2>6
<1>5. ASSUME NEW x \in v.current, IsMissingTest(x), x.criterion = k PROVE FALSE
  <2> DEFINE f == Files(r.head)
             found == {IF e.candidates[i].kind = "missing"
                       THEN [criterion |-> e.candidates[i].criterion, wording |-> r.wording]
                       ELSE DefectFinding(f, e.candidates[i].claim) : i \in Accepted(f, e)}
  <2>1. PICK z \in found :
          x = IF IsMissingTest(z) THEN z
              ELSE [z EXCEPT !.texts = UNION {y.texts : y \in {u \in found : Same(z, u)}}]
    BY <1>1 DEF FindingsOf
  <2>2. IsMissingTest(z)
    BY <1>5, <2>1 DEF IsMissingTest
  <2>3. PICK i \in Accepted(f, e) :
          z = IF e.candidates[i].kind = "missing"
              THEN [criterion |-> e.candidates[i].criterion, wording |-> r.wording]
              ELSE DefectFinding(f, e.candidates[i].claim)
    OBVIOUS
  <2>4. i \in DOMAIN e.candidates
    BY DEF Accepted
  <2>5. e.candidates[i].kind = "missing"
    BY <2>2, <2>3 DEF IsMissingTest, DefectFinding
  <2>6. e.candidates[i].criterion = k
    BY <1>5, <2>1, <2>2, <2>3, <2>5
  <2> QED
    BY <1>4, <2>4, <2>5, <2>6
<1> QED
  BY <1>3, <1>5

LEMMA ConcludeKnown ==
  ASSUME DistinctTests, KnownInv, run.at = "ask", NEW envelope, EnvelopeOK(envelope),
         NEW passes, NEW calls, NEW stored, Conclude(envelope, passes, calls, stored)
  PROVE  WordingKnown' /\ ProvenStaysProven'
<1> DEFINE v == Evaluated(run, envelope, passes)
           row == Row(run, v, calls)
           cited == UNION {Range(NewestProof(k).evidence) : k \in Known}
<1>1. /\ run'.at = "publish" /\ run'.listed = run.listed /\ run'.wording = run.wording
      /\ {"listed", "wording"} \subseteq DOMAIN run' /\ run'.head = run.head
      /\ run'.proven = v.proven /\ run'.current = v.current
      /\ rows' = Append(rows, row) \/ rows' = rows
      /\ wording' = wording /\ heads' = heads
  BY DEF Conclude
<1>2. LiveRowsAdded
  <2>1. row.live
    BY DEF Row
  <2>2. rows \in Seq(Range(rows))
    BY DEF KnownInv, ReadInv, GateInv, RunRows
  <2> HIDE DEF row
  <2> QED
    BY <1>1, <2>1, <2>2 DEF LiveRowsAdded
<1>3. \A k : /\ ProvingRuns(k)' = ProvingRuns(k)
             /\ ProvingRuns(k) # {} => NewestProof(k)' = NewestProof(k)
  BY <1>1, <1>2, KnownStays DEF KnownInv
<1> HIDE DEF v, row
<1>4. WordingKnown'
  BY <1>1 DEF KnownInv, WordingKnown
<1>5. ASSUME UpToDate, Cardinality(cited) <= MenuSize,
             NEW k \in Known, Proven(k, NewestProof(k), TestRows(Files(run.head)))
      PROVE  k \in v.proven /\ ~\E x \in v.current : IsMissingTest(x) /\ x.criterion = k
  <2>1. k \in StillProven(run)
    BY <1>5, KnownIsFound DEF KnownInv
  <2>2. CoverageShape(run.prior)
    BY DEF KnownInv, ReadInv, AskRead
  <2> QED
    BY <2>1, <2>2, FoundIsKept DEF v
<1>6. {k \in Automated : ProvingRuns(k)' # {}} = Known
  BY <1>3 DEF Known
<1>7. \A k \in Known : NewestProof(k)' = NewestProof(k)
  BY <1>3 DEF Known
<1>8. UNION {Range(NewestProof(k)'.evidence) : k \in {k \in Automated : ProvingRuns(k)' # {}}}
        = cited
  BY <1>6, <1>7
<1>9. TestRows(Files(run.head))' = TestRows(Files(run.head))
  BY <1>1 DEF Files
<1> QED
  BY <1>1, <1>4, <1>5, <1>6, <1>7, <1>8, <1>9 DEF ProvenStaysProven, UpToDate

(* A step that touches neither the review nor the table, and no HEAD.      *)
LEMMA KnownUntouched ==
  ASSUME KnownInv, rows' = rows, run' = run, wording' = wording, ReadInv',
         run.at = "ask" \/ run.at = "publish" => Files(run.head)' = Files(run.head)
  PROVE  KnownInv'
<1>1. LiveRowsAdded
  BY DEF LiveRowsAdded
<1>2. \A k : /\ ProvingRuns(k)' = ProvingRuns(k)
             /\ ProvingRuns(k) # {} => NewestProof(k)' = NewestProof(k)
  BY <1>1, KnownStays DEF KnownInv
<1>3. Known' = Known /\ \A k \in Known : NewestProof(k)' = NewestProof(k)
  BY <1>2 DEF Known
<1>4. run.at = "ask" /\ UpToDate => AskKnows'
  <2> SUFFICES ASSUME run.at = "ask", UpToDate PROVE AskKnows'
    OBVIOUS
  <2>1. AskKnows
    BY DEF KnownInv
  <2>2. \A k \in Criteria : run.prior[k] = IF k \in Known' THEN NewestProof(k)' ELSE Unknown
    BY <1>3, <2>1 DEF AskKnows
  <2>3. Files(run.head)' = Files(run.head)
    OBVIOUS
  <2> QED
    BY <2>1, <2>2, <2>3 DEF AskKnows
<1>5. ProvenStaysProven'
  <2> SUFFICES ASSUME run.at = "publish", UpToDate PROVE ProvenStaysProven'
    BY DEF ProvenStaysProven, UpToDate
  <2>1. {k \in Automated : ProvingRuns(k)' # {}} = {k \in Automated : ProvingRuns(k) # {}}
    BY <1>2
  <2>2. \A k \in {k \in Automated : ProvingRuns(k) # {}} : NewestProof(k)' = NewestProof(k)
    BY <1>2
  <2>3. UNION {Range(NewestProof(k)'.evidence) : k \in {k \in Automated : ProvingRuns(k)' # {}}}
          = UNION {Range(NewestProof(k).evidence) : k \in {k \in Automated : ProvingRuns(k) # {}}}
    BY <2>1, <2>2
  <2>4. TestRows(Files(run.head))' = TestRows(Files(run.head))
    <3>1. Files(run.head)' = Files(run.head)
      OBVIOUS
    <3> QED
      BY <3>1 DEF TestRows
  <2>5. ProvenStaysProven
    BY DEF KnownInv
  <2> QED
    BY <2>1, <2>2, <2>3, <2>4, <2>5 DEF ProvenStaysProven, UpToDate
<1> QED
  BY <1>4, <1>5 DEF KnownInv, WordingKnown, UpToDate

LEMMA StepKnown == DistinctTests /\ KnownInv /\ [GateNext]_gateVars => KnownInv'
<1> SUFFICES ASSUME DistinctTests, KnownInv, [GateNext]_gateVars PROVE KnownInv'
  OBVIOUS
<1>1. ReadInv /\ ReadInv' /\ wording \in Nat
  BY StepReads DEF KnownInv, ReadInv, GateInv, Bounds
<1>2. CASE Begin
  <2>1. PICK listed, looked \in BOOLEAN :
          LET prior == StickyCoverage(IF listed THEN {i \in Complete : Decodes(i)} ELSE {})
              cited == UNION {Range(prior[k].evidence) : k \in Criteria}
          IN  \E menu \in Menus(Files(CurrentHead), Pins(Files(CurrentHead), cited)) :
                run' = [at |-> "ask", busy |-> TRUE, head |-> CurrentHead, wording |-> wording,
                        known |-> ledger, prior |-> prior, listed |-> listed, menu |-> menu,
                        cached |-> IF looked THEN CacheHit ELSE 0]
    BY <1>2 DEF Begin
  <2> DEFINE prior == StickyCoverage(IF listed THEN {i \in Complete : Decodes(i)} ELSE {})
  <2>2. /\ run'.at = "ask" /\ run'.head = CurrentHead /\ run'.wording = wording
        /\ run'.listed = listed /\ run'.prior = prior
        /\ {"listed", "wording"} \subseteq DOMAIN run'
        /\ run'.menu \in Menus(Files(CurrentHead),
             Pins(Files(CurrentHead), UNION {Range(prior[k].evidence) : k \in Criteria}))
    BY <2>1
  <2>3. rows' = rows /\ wording' = wording /\ heads' = heads
    BY <1>2 DEF Begin
  <2>4. LiveRowsAdded
    BY <2>3 DEF LiveRowsAdded
  <2>5. \A k : /\ ProvingRuns(k)' = ProvingRuns(k)
               /\ ProvingRuns(k) # {} => NewestProof(k)' = NewestProof(k)
    BY <1>1, <2>3, <2>4, KnownStays
  <2>6. Known' = Known /\ \A k \in Known : NewestProof(k)' = NewestProof(k)
    BY <2>5 DEF Known
  <2>7. ASSUME listed PROVE AskKnows'
    <3>1. \A k \in Criteria : prior[k] = IF k \in Known THEN NewestProof(k) ELSE Unknown
      BY <2>7, StickyIsKnown
    <3> HIDE DEF prior
    <3>2. \A k \in Criteria : run'.prior[k] = IF k \in Known' THEN NewestProof(k)' ELSE Unknown
      BY <2>2, <2>6, <3>1
    <3>3. Files(run.head)' = Files(CurrentHead)
      BY <2>2, <2>3 DEF Files
    <3>4. run'.menu \in Menus(Files(run.head)',
             Pins(Files(run.head)', UNION {Range(run'.prior[k].evidence) : k \in Criteria}))
      BY <2>2, <3>3
    <3> QED
      BY <3>2, <3>4 DEF AskKnows
  <2> QED
    BY <1>1, <2>2, <2>3, <2>7 DEF KnownInv, WordingKnown, UpToDate, ProvenStaysProven
<1>3. CASE Reuse
  <2>1. run.at = "ask" /\ EnvelopeOK(rows[run.cached].envelope)
    BY <1>1, <1>3 DEF Reuse, ReadInv, AskRead
  <2>2. WordingKnown' /\ ProvenStaysProven' /\ run'.at = "publish"
    BY <1>3, <2>1, ConcludeKnown DEF Reuse, Conclude
  <2> QED
    BY <1>1, <2>2 DEF KnownInv
<1>4. CASE Ask
  <2>1. PICK envelope, passes, calls, stored :
          run.at = "ask" /\ EnvelopeOK(envelope) /\ Conclude(envelope, passes, calls, stored)
    BY <1>4, AskConcludes
  <2>2. WordingKnown' /\ ProvenStaysProven' /\ run'.at = "publish"
    BY <2>1, ConcludeKnown DEF Conclude
  <2> QED
    BY <1>1, <2>2 DEF KnownInv
<1>5. CASE AskInVain \/ Discard \/ Post \/ Report \/ Stop \/ Crash \/ Persist
  <2>1. run'.at \notin {"ask", "publish"}
    <3>1. AskInVain => run'.at = "report"
      BY DEF AskInVain
    <3>2. Persist => run'.at = "post"
      BY <1>1 DEF Persist, ReadInv, GateInv, PassInv, RunShape
    <3>3. ASSUME NEW b, run' = Resting(b) PROVE run'.at = "rest"
      BY <3>3 DEF Resting
    <3> QED
      BY <1>5, <3>1, <3>2, <3>3 DEF Discard, Post, Report, Stop, Crash, JobEnds
  <2> QED
    BY <1>1, <2>1 DEF KnownInv, WordingKnown, ProvenStaysProven
<1>6. CASE Push
  <2>1. PICK push \in Pushes : heads' = Append(heads, push[2]) /\ push[2] \in Contents
    BY <1>6, PushAssumption DEF Push, Contents, Range
  <2>2. heads \in Seq(Contents) /\ (~AtRest => run.head \in 1..Len(heads))
    BY <1>1 DEF ReadInv, GateInv, PassInv, HeadsOK
  <2>3. rows' = rows /\ run' = run /\ wording' = wording
    BY <1>6 DEF Push
  <2>4. run.at = "ask" \/ run.at = "publish" => Files(run.head)' = Files(run.head)
    BY <2>1, <2>2, <2>3 DEF Files, AtRest
  <2> QED
    BY <1>1, <2>3, <2>4, KnownUntouched
<1>7. CASE Reword
  <2>1. run' = run /\ wording' = wording + 1
    BY <1>7 DEF Reword
  <2>2. run.at \in {"ask", "publish"} => ~(run'.wording = wording')
    BY <1>1, <2>1 DEF KnownInv, WordingKnown
  <2> QED
    BY <1>1, <2>1, <2>2 DEF KnownInv, WordingKnown, UpToDate, ProvenStaysProven
<1>8. CASE UNCHANGED gateVars
  <2>1. rows' = rows /\ run' = run /\ wording' = wording /\ heads' = heads
    BY <1>8 DEF gateVars
  <2>2. Files(run.head)' = Files(run.head)
    BY <2>1 DEF Files
  <2> QED
    BY <1>1, <2>1, <2>2, KnownUntouched
<1> QED
  BY <1>2, <1>3, <1>4, <1>5, <1>6, <1>7, <1>8 DEF GateNext

(* If no line occurs twice in the test: a criterion whose newest proof is  *)
(* in the files of this HEAD is taken as proven, and no test is reported   *)
(* missing for it, whatever the model answers and whichever calls fail.    *)
THEOREM ProofsStay ==
  ASSUME DistinctTests
  PROVE  GateSpec => []ProvenStaysProven
<1>1. GateInit => KnownInv
  BY InitGateInv DEF GateInit, Resting, ReadInv, RowsRead, AskRead, KnownInv, WordingKnown,
    ProvenStaysProven
<1>2. KnownInv /\ [GateNext]_gateVars => KnownInv'
  BY StepKnown
<1>3. KnownInv => ProvenStaysProven
  BY DEF KnownInv
<1> QED
  BY <1>1, <1>2, <1>3, PTL DEF GateSpec

-----------------------------------------------------------------------------
(***************************************************************************)
(* A pass that is reused is a pass again, as long as the menus hold every  *)
(* line of the test: two reviews of a HEAD then choose from the same rows, *)
(* and what earlier runs add to the answers of a pass is nothing new.      *)
(***************************************************************************)
WholeMenus == \A f \in Contents : Len(f.tests) <= MenuSize

LEMMA MenuIsWhole ==
  ASSUME NEW f, f.tests \in Seq(Range(f.tests)), Len(f.tests) <= MenuSize,
         NEW pins, NEW menu \in Menus(f, pins)
  PROVE  menu = TestRows(f)
<1> DEFINE all == TestRows(f)
           place == [i \in DOMAIN f.tests |-> [quote |-> f.tests[i], line |-> i]]
           S == {MenuSize, Cardinality(all)}
<1>1. /\ IsFiniteSet(DOMAIN f.tests) /\ Cardinality(DOMAIN f.tests) = Len(f.tests)
      /\ Len(f.tests) \in Nat
  <2>1. DOMAIN f.tests = 1..Len(f.tests) /\ Len(f.tests) \in Nat
    OBVIOUS
  <2>2. IsFiniteSet(1..Len(f.tests)) /\ Cardinality(1..Len(f.tests)) = Len(f.tests)
    BY <2>1, FS_Interval
  <2> QED
    BY <2>1, <2>2
<1>2. place \in Surjection(DOMAIN f.tests, all)
  BY DEF Surjection, TestRows
<1> HIDE DEF place
<1>3. IsFiniteSet(all) /\ Cardinality(all) \in Nat /\ Cardinality(all) <= MenuSize
  <2>1. IsFiniteSet(all) /\ Cardinality(all) <= Len(f.tests)
    BY <1>1, <1>2, FS_Surjection
  <2>2. Cardinality(all) \in Nat
    BY <2>1, FS_CardinalityType
  <2> HIDE DEF all
  <2> QED
    BY <1>1, <2>1, <2>2, GroundingAssumption
<1>4. menu \in SUBSET all /\ Cardinality(menu) = Min(S)
  BY DEF Menus
<1>5. Min(S) = Cardinality(all)
  <2> HIDE DEF all
  <2>1. Cardinality(all) \in S /\ \A y \in S : Cardinality(all) <= y
    BY <1>3, GroundingAssumption
  <2>2. Min(S) \in S /\ \A y \in S : Min(S) <= y
    BY <2>1 DEF Min
  <2> QED
    BY <1>3, <2>2, GroundingAssumption
<1> QED
  BY <1>3, <1>4, <1>5, FS_Subset

(* Nothing that is picked from is left out: every place is the n-th for    *)
(* some n.                                                                 *)
LEMMA NthReaches ==
  ASSUME NEW n \in Nat, NEW I \in SUBSET (1..n), NEW i \in I
  PROVE  \E j \in 1..Cardinality(I) : Nth(I, j) = i
<1> DEFINE UpTo(k) == {h \in I : h <= k}
           j == Cardinality(UpTo(i))
<1>1. \A k \in I : k \in Nat /\ k <= k
  OBVIOUS
<1>2. IsFiniteSet(I) /\ Cardinality(I) \in Nat
  <2>1. IsFiniteSet(1..n)
    BY FS_Interval
  <2> QED
    BY <2>1, FS_Subset, FS_CardinalityType
<1>3. ASSUME NEW k \in I
      PROVE  IsFiniteSet(UpTo(k)) /\ Cardinality(UpTo(k)) \in Nat /\ Cardinality(UpTo(k)) <= Cardinality(I)
  <2>1. UpTo(k) \in SUBSET I
    OBVIOUS
  <2> QED
    BY <1>2, <2>1, FS_Subset, FS_CardinalityType
<1>4. ASSUME NEW k \in I, NEW l \in I, k < l PROVE Cardinality(UpTo(k)) # Cardinality(UpTo(l))
  <2>0. \A h \in I : h <= k => h <= l
    BY <1>1, <1>4
  <2>1. UpTo(k) \in SUBSET UpTo(l)
    BY <2>0
  <2>2. l \in UpTo(l) /\ l \notin UpTo(k)
    BY <1>1, <1>4
  <2>3. IsFiniteSet(UpTo(l))
    BY <1>3
  <2> HIDE DEF UpTo
  <2> QED
    BY <2>1, <2>2, <2>3, FS_Subset
<1>5. \A k \in I : Cardinality(UpTo(k)) = j => k = i
  <2> SUFFICES ASSUME NEW k \in I, Cardinality(UpTo(k)) = j, k # i PROVE FALSE
    OBVIOUS
  <2>1. k < i \/ i < k
    BY <1>1
  <2> HIDE DEF UpTo
  <2> QED
    BY <1>4, <2>1
<1>6. Nth(I, j) = i
  <2>1. Nth(I, j) \in I /\ Cardinality(UpTo(Nth(I, j))) = j
    BY DEF Nth
  <2> QED
    BY <1>5, <2>1
<1>7. j \in 1..Cardinality(I)
  <2>1. i \in UpTo(i)
    BY <1>1
  <2>2. j # 0
    BY <1>3, <2>1, FS_EmptySet
  <2>3. j \in Nat /\ j <= Cardinality(I)
    BY <1>3
  <2> HIDE DEF j
  <2> QED
    BY <1>2, <2>2, <2>3
<1> QED
  BY <1>6, <1>7

(* What a recorded pass says of the answers, given the files of its HEAD:  *)
(* everything is proven, no accepted candidate blocks, nothing that could  *)
(* block is undecided, and no finding that the review did not meet again   *)
(* is left open and blocks. Found and LeftOpen are FindingsOf and          *)
(* NextLedger of the files.                                                *)
Found(f, words, e) ==
  {IF e.candidates[i].kind = "missing"
   THEN [criterion |-> e.candidates[i].criterion, wording |-> words]
   ELSE DefectFinding(f, e.candidates[i].claim) : i \in Accepted(f, e)}
MergedFindings(found) ==
  {IF IsMissingTest(x) THEN x
   ELSE [x EXCEPT !.texts = UNION {y.texts : y \in {z \in found : Same(x, z)}}] : x \in found}
LeftOpen(f, words, known, current) ==
  {x \in known.open \ known.resolved :
     /\ ~\E y \in current : Same(x, y)
     /\ ~IF IsMissingTest(x) THEN x.wording = words /\ x.criterion \in Automated
         ELSE ~(x.texts \subseteq Range(f.code))}
NoBlockers(f, e) ==
  \A i \in Accepted(f, e) :
    e.candidates[i].kind # "missing" /\ Severity(e.candidates[i].claim.outcome) # "fatal"
NothingOpen(f, e) ==
  \A i \in DOMAIN e.candidates \ Accepted(f, e) :
    e.verifications[i].verdict = "uncertain" => IsAdvisory(e.candidates[i])
IsPass(f, words, known, e) ==
  /\ f.complete
  /\ \A k \in Automated : Proven(k, e.coverage[k], TestRows(f))
  /\ NoBlockers(f, e) /\ NothingOpen(f, e)
  /\ ~\E x \in LeftOpen(f, words, known, MergedFindings(Found(f, words, e))) : Blocks(x)

LEMMA FindingsBlock ==
  ASSUME NEW f, NEW words, NEW e
  PROVE  (\E x \in MergedFindings(Found(f, words, e)) : Blocks(x)) <=> ~NoBlockers(f, e)
<1> DEFINE found == Found(f, words, e)
           texts(z) == UNION {w.texts : w \in {v \in found : Same(z, v)}}
           merged(z) == IF IsMissingTest(z) THEN z ELSE [z EXCEPT !.texts = texts(z)]
           raw(i) == IF e.candidates[i].kind = "missing"
                     THEN [criterion |-> e.candidates[i].criterion, wording |-> words]
                     ELSE DefectFinding(f, e.candidates[i].claim)
<1>1. /\ MergedFindings(found) = {merged(z) : z \in found}
      /\ found = {raw(i) : i \in Accepted(f, e)}
  BY DEF MergedFindings, Found
<1> HIDE DEF found
<1>2. ASSUME NEW i \in Accepted(f, e)
      PROVE  Blocks(merged(raw(i))) <=>
               ~(e.candidates[i].kind # "missing" /\ Severity(e.candidates[i].claim.outcome) # "fatal")
  <2>1. CASE e.candidates[i].kind = "missing"
    <3>1. IsMissingTest(raw(i))
      BY <2>1 DEF IsMissingTest
    <3> QED
      BY <2>1, <3>1 DEF Blocks
  <2>2. CASE e.candidates[i].kind # "missing"
    <3> DEFINE c == e.candidates[i].claim
    <3>1. PICK s, t : raw(i) = [outcome |-> c.outcome, symbol |-> s, texts |-> t]
      BY <2>2 DEF DefectFinding
    <3>2. ~IsMissingTest(raw(i))
      BY <3>1 DEF IsMissingTest
    <3> HIDE DEF raw, texts
    <3>3. merged(raw(i)) = [outcome |-> c.outcome, symbol |-> s, texts |-> texts(raw(i))]
      BY <3>1, <3>2
    <3> HIDE DEF merged
    <3>4. ~IsMissingTest(merged(raw(i))) /\ merged(raw(i)).outcome = c.outcome
      BY <3>3 DEF IsMissingTest
    <3> QED
      BY <2>2, <3>4 DEF Blocks
  <2> QED
    BY <2>1, <2>2
<1> HIDE DEF merged, raw
<1>3. (\E x \in MergedFindings(found) : Blocks(x)) <=> \E i \in Accepted(f, e) : Blocks(merged(raw(i)))
  BY <1>1
<1> QED
  BY <1>2, <1>3 DEF NoBlockers, found

(* A verdict of PASS records such answers.                                 *)
LEMMA PassIsRecorded ==
  ASSUME NEW r, NEW envelope, NEW failed, r.menu = TestRows(Files(r.head)),
         Evaluated(r, envelope, failed).verdict = "PASS"
  PROVE  IsPass(Files(r.head), r.wording, r.known, Evaluated(r, envelope, failed).envelope)
<1> DEFINE f == Files(r.head)
           e == Filtered(r, envelope)
           proven == Grounded(e.coverage, r.menu)
           current == FindingsOf(r, e)
           next == NextLedger(r, current, proven)
           unconfirmed == next.open \ current
           items == Items(r, e, failed, proven, unconfirmed)
           blocking == {x \in current : Blocks(x)}
           unresolved == Unresolved(r, e, failed, proven, unconfirmed)
           base == BaseVerdict(blocking, unresolved)
           v == Evaluated(r, envelope, failed)
<1>1. v.envelope = e /\ v.verdict = TurnVerdict(base, said.round + 1, items)
  BY DEF Evaluated
<1>2. current = MergedFindings(Found(f, r.wording, e))
  BY DEF FindingsOf, MergedFindings, Found
<1>3. proven = Automated => unconfirmed \subseteq LeftOpen(f, r.wording, r.known, current)
                            /\ LeftOpen(f, r.wording, r.known, current) \subseteq unconfirmed
  <2> HIDE DEF current, proven
  <2>1. ASSUME proven = Automated, NEW x
        PROVE  x \in unconfirmed <=> x \in LeftOpen(f, r.wording, r.known, current)
    BY <2>1, SameItself DEF NextLedger, LeftOpen, Resolved
  <2> QED
    BY <2>1
<1> HIDE DEF v, e, current, next, items, proven
<1>4. base = "PASS"
  BY <1>1 DEF TurnVerdict, BaseVerdict, v
<1>5. blocking = {} /\ ~unresolved
  BY <1>4 DEF BaseVerdict
<1>6. /\ f.complete /\ proven = Automated
      /\ ~\E x \in unconfirmed : Blocks(x)
      /\ \A i \in DOMAIN e.candidates \ Accepted(f, e) :
           e.verifications[i].verdict = "uncertain" => IsAdvisory(e.candidates[i])
  BY <1>5 DEF Unresolved
<1>7. \A k \in Automated : Proven(k, e.coverage[k], TestRows(f))
  BY <1>6 DEF proven, Grounded
<1>8. NoBlockers(f, e)
  BY <1>2, <1>5, FindingsBlock
<1> QED
  BY <1>1, <1>2, <1>3, <1>6, <1>7, <1>8 DEF IsPass, NothingOpen, v

(* What is picked stands or falls as what it was picked from.              *)
LEMMA RenumberedStands ==
  ASSUME NEW f, NEW c, CandidateFields(c), NEW v, VerificationFields(v), NEW j
  PROVE  LET d == [c EXCEPT !.id = j]
             w == [v EXCEPT !.id = j]
         IN  /\ Stands(f, d, w) <=> Stands(f, c, v)
             /\ IsAdvisory(d) <=> IsAdvisory(c)
             /\ d.kind = c.kind /\ w.verdict = v.verdict
             /\ c.kind # "missing" => d.claim = c.claim
<1> DEFINE d == [c EXCEPT !.id = j]
           w == [v EXCEPT !.id = j]
<1>1. /\ d.kind = c.kind
      /\ c.kind = "missing" => d.criterion = c.criterion
      /\ c.kind # "missing" => d.claim = c.claim
  BY DEF CandidateFields
<1>2. w.verdict = v.verdict /\ w.evidence = v.evidence
  BY DEF VerificationFields
<1> HIDE DEF d, w
<1>3. Stands(f, d, w) <=> Stands(f, c, v)
  BY <1>1, <1>2 DEF Stands
<1>4. IsAdvisory(d) <=> IsAdvisory(c)
  BY <1>1 DEF IsAdvisory
<1> QED
  BY <1>1, <1>2, <1>3, <1>4 DEF d, w

LEMMA FilteredPicks ==
  ASSUME NEW r, NEW e, EnvelopeOK(e)
  PROVE  LET n == Len(e.candidates)
             W == Wanted(r, e)
             g == Filtered(r, e)
         IN  /\ n \in Nat /\ DOMAIN e.candidates = 1..n /\ W \in SUBSET (1..n)
             /\ PickedFrom(n, W, e.candidates, g.candidates)
             /\ PickedFrom(n, W, e.verifications, g.verifications)
             /\ \A i \in W : \E j \in 1..Cardinality(W) : Nth(W, j) = i
<1> DEFINE n == Len(e.candidates)
           W == Wanted(r, e)
           g == Filtered(r, e)
<1>1. /\ n \in Nat /\ DOMAIN e.candidates = 1..n /\ DOMAIN e.verifications = 1..n
      /\ \A i \in 1..n : e.candidates[i].id = i /\ e.verifications[i].id = i
  BY DEF EnvelopeOK, WellFormed, VerificationsShape
<1>2. W \in SUBSET (1..n)
  BY <1>1 DEF Wanted
<1>3. {e.candidates[i].id : i \in W} = W
  BY <1>1, <1>2
<1> HIDE DEF W
<1>4. Judged(r, e) = W
  BY <1>1, <1>2, <1>3 DEF Judged, W
<1>5. g.candidates = Kept(e.candidates, W) /\ g.verifications = Kept(e.verifications, W)
  BY <1>4 DEF Filtered, W
<1> HIDE DEF g, n
<1>6. /\ PickedFrom(n, W, e.candidates, g.candidates)
      /\ PickedFrom(n, W, e.verifications, g.verifications)
  BY <1>1, <1>2, <1>5, KeptIsPicked
<1>7. \A i \in W : \E j \in 1..Cardinality(W) : Nth(W, j) = i
  BY <1>1, <1>2, NthReaches
<1> QED
  BY <1>1, <1>2, <1>6, <1>7 DEF W, g, n

(* And such answers pass again on the same HEAD, over the same findings,   *)
(* whatever has been recorded since.                                       *)
LEMMA PassAgain ==
  ASSUME NEW r, NEW e, EnvelopeOK(e), CoverageShape(r.prior),
         r.menu = TestRows(Files(r.head)), IsPass(Files(r.head), r.wording, r.known, e)
  PROVE  Evaluated(r, e, {}).verdict = "PASS"
<1> DEFINE f == Files(r.head)
           n == Len(e.candidates)
           W == Wanted(r, e)
           m == Cardinality(W)
           g == Filtered(r, e)
<1>1. /\ n \in Nat /\ DOMAIN e.candidates = 1..n /\ W \in SUBSET (1..n)
      /\ PickedFrom(n, W, e.candidates, g.candidates)
      /\ PickedFrom(n, W, e.verifications, g.verifications)
      /\ \A i \in W : \E j \in 1..m : Nth(W, j) = i
  BY FilteredPicks
<1>2. EnvelopeOK(g)
  BY FilteredIsOK
<1>3. /\ f.complete /\ NoBlockers(f, e) /\ NothingOpen(f, e)
      /\ \A k \in Automated : Proven(k, e.coverage[k], TestRows(f))
      /\ ~\E x \in LeftOpen(f, r.wording, r.known, MergedFindings(Found(f, r.wording, e))) : Blocks(x)
  BY DEF IsPass
<1>4. InputValid(e) /\ InputValid(g)
  BY <1>2 DEF EnvelopeOK, WellFormed, VerificationsShape, InputValid
<1>5. ASSUME NEW i \in 1..n, i \notin W PROVE i \notin Accepted(f, e)
  BY <1>1, <1>3, <1>5 DEF Wanted, NoBlockers
<1>6. Grounded(g.coverage, r.menu) = Automated
  <2>1. Grounded(e.coverage, r.menu) = Automated
    BY <1>3 DEF Grounded
  <2>2. StillProven(r) \ Grounded(e.coverage, r.menu) = {}
    BY <2>1 DEF StillProven, Grounded
  <2>3. \A k \in Automated : g.coverage[k] = e.coverage[k]
    BY <2>2 DEF Filtered, EffectiveCoverage, Automated
  <2> QED
    BY <1>3, <2>3 DEF Grounded
<1> HIDE DEF W, g, n, m, f
<1>7. ASSUME NEW j \in 1..m
      PROVE  /\ Nth(W, j) \in W /\ Nth(W, j) \in 1..n
             /\ j \in Accepted(f, g) <=> Nth(W, j) \in Accepted(f, e)
             /\ IsAdvisory(g.candidates[j]) <=> IsAdvisory(e.candidates[Nth(W, j)])
             /\ g.verifications[j].verdict = e.verifications[Nth(W, j)].verdict
             /\ g.candidates[j].kind = e.candidates[Nth(W, j)].kind
             /\ e.candidates[Nth(W, j)].kind # "missing"
                  => g.candidates[j].claim = e.candidates[Nth(W, j)].claim
  <2> DEFINE i == Nth(W, j)
  <2>1. /\ i \in W /\ i \in 1..n /\ j \in DOMAIN g.candidates
        /\ g.candidates[j] = [e.candidates[i] EXCEPT !.id = j]
        /\ g.verifications[j] = [e.verifications[i] EXCEPT !.id = j]
    BY <1>1 DEF PickedFrom, m
  <2> HIDE DEF i
  <2>2. CandidateFields(e.candidates[i]) /\ VerificationFields(e.verifications[i])
    BY <1>1, <2>1 DEF EnvelopeOK
  <2>3. /\ Stands(f, g.candidates[j], g.verifications[j])
             <=> Stands(f, e.candidates[i], e.verifications[i])
        /\ IsAdvisory(g.candidates[j]) <=> IsAdvisory(e.candidates[i])
        /\ g.candidates[j].kind = e.candidates[i].kind
        /\ g.verifications[j].verdict = e.verifications[i].verdict
        /\ e.candidates[i].kind # "missing" => g.candidates[j].claim = e.candidates[i].claim
    BY SMTT(30), <2>1, <2>2, RenumberedStands
  <2>4. j \in Accepted(f, g) <=> i \in Accepted(f, e)
    BY <1>1, <1>4, <2>1, <2>3 DEF Accepted
  <2> QED
    BY <2>1, <2>3, <2>4 DEF i
<1>8. DOMAIN g.candidates = 1..m /\ Accepted(f, g) \subseteq 1..m /\ Accepted(f, e) \subseteq 1..n
  BY <1>1, <1>4 DEF PickedFrom, Accepted, m
<1>9. Found(f, r.wording, g) = Found(f, r.wording, e)
  <2> DEFINE raw(h, i) == IF h.candidates[i].kind = "missing"
                          THEN [criterion |-> h.candidates[i].criterion, wording |-> r.wording]
                          ELSE DefectFinding(f, h.candidates[i].claim)
  <2>1. ASSUME NEW j \in Accepted(f, g)
        PROVE  Nth(W, j) \in Accepted(f, e) /\ raw(g, j) = raw(e, Nth(W, j))
    <3>1. j \in 1..m /\ Nth(W, j) \in Accepted(f, e)
      BY <1>7, <1>8
    <3>2. e.candidates[Nth(W, j)].kind # "missing"
      BY <1>3, <3>1 DEF NoBlockers
    <3> QED
      BY <1>7, <3>1, <3>2
  <2>2. ASSUME NEW i \in Accepted(f, e)
        PROVE  \E j \in Accepted(f, g) : Nth(W, j) = i
    BY <1>1, <1>5, <1>7, <1>8
  <2>3. /\ Found(f, r.wording, g) = {raw(g, i) : i \in Accepted(f, g)}
        /\ Found(f, r.wording, e) = {raw(e, i) : i \in Accepted(f, e)}
    BY DEF Found
  <2> HIDE DEF raw
  <2> QED
    BY <2>1, <2>2, <2>3
<1>10. NoBlockers(f, g)
  BY <1>3, <1>7, <1>8 DEF NoBlockers
<1>11. NothingOpen(f, g)
  <2> SUFFICES ASSUME NEW j \in 1..m, j \notin Accepted(f, g),
                      g.verifications[j].verdict = "uncertain"
               PROVE  IsAdvisory(g.candidates[j])
    BY <1>8 DEF NothingOpen
  <2>1. /\ Nth(W, j) \in DOMAIN e.candidates \ Accepted(f, e)
        /\ e.verifications[Nth(W, j)].verdict = "uncertain"
    BY <1>1, <1>7
  <2> QED
    BY <1>3, <1>7, <2>1 DEF NothingOpen
<1> DEFINE current == FindingsOf(r, g)
           next == NextLedger(r, current, Automated)
           unconfirmed == next.open \ current
           items == Items(r, g, {}, Automated, unconfirmed)
           blocking == {x \in current : Blocks(x)}
           unresolved == Unresolved(r, g, {}, Automated, unconfirmed)
<1>12. Evaluated(r, e, {}).verdict = TurnVerdict(BaseVerdict(blocking, unresolved), said.round + 1, items)
  BY <1>6 DEF Evaluated, g
<1>13. current = MergedFindings(Found(f, r.wording, e))
  <2>1. current = MergedFindings(Found(f, r.wording, g))
    BY DEF FindingsOf, MergedFindings, Found, f
  <2> QED
    BY <1>9, <2>1
<1> HIDE DEF current
<1>14. unconfirmed \subseteq LeftOpen(f, r.wording, r.known, current)
  BY SameItself DEF NextLedger, LeftOpen, Resolved, f
<1>15. blocking = {}
  BY <1>9, <1>10, <1>13, FindingsBlock
<1> HIDE DEF unconfirmed, items
<1>16. ~unresolved
  BY <1>3, <1>4, <1>11, <1>13, <1>14 DEF Unresolved, NothingOpen, f
<1> QED
  BY <1>12, <1>15, <1>16 DEF TurnVerdict, BaseVerdict

(* Every recorded pass is of such answers, and a review that is to reuse a *)
(* run has the HEAD, the criteria and the findings of that run.            *)
RowsPass ==
  \A i \in DOMAIN rows : rows[i].valid =>
    /\ {"head", "wording", "known", "verdict", "envelope"} \subseteq DOMAIN rows[i]
    /\ rows[i].head \in 1..Len(heads)
    /\ rows[i].verdict = "PASS" =>
         IsPass(heads[rows[i].head], rows[i].wording, rows[i].known, rows[i].envelope)
SameQuestion(row) ==
  row.valid /\ row.head = run.head /\ row.wording = run.wording /\ row.known = run.known
AskCached ==
  run.at = "ask" =>
    /\ run.menu = TestRows(heads[run.head])
    /\ run.cached # 0 => run.cached \in DOMAIN rows /\ SameQuestion(rows[run.cached])
PublishCached ==
  run.at = "publish" /\ run.cached # 0 =>
    run.cached \in DOMAIN rows /\ (rows[run.cached].verdict = "PASS" => run.verdict = "PASS")
CacheInv == ReadInv /\ RowsPass /\ AskCached /\ PublishCached

LEMMA ConcludePasses ==
  ASSUME CacheInv, run.at = "ask", NEW envelope, NEW passes, NEW calls, NEW stored,
         Conclude(envelope, passes, calls, stored)
  PROVE  /\ RowsPass' /\ AskCached'
         /\ run'.at = "publish" /\ run'.cached = run.cached
         /\ run'.verdict = Evaluated(run, envelope, passes).verdict
         /\ \A i \in DOMAIN rows : i \in DOMAIN rows' /\ rows'[i] = rows[i]
<1> DEFINE v == Evaluated(run, envelope, passes)
           row == Row(run, v, calls)
<1>1. /\ run'.at = "publish" /\ run'.cached = run.cached /\ run'.verdict = v.verdict
      /\ rows' = Append(rows, row) \/ rows' = rows
      /\ heads' = heads
  BY DEF Conclude
<1>2. /\ {"head", "wording", "known", "verdict", "envelope"} \subseteq DOMAIN row
      /\ row.head = run.head /\ row.wording = run.wording /\ row.known = run.known
      /\ row.verdict = v.verdict /\ row.envelope = v.envelope
  BY DEF Row
<1>3. run.head \in 1..Len(heads) /\ run.menu = TestRows(Files(run.head))
  BY DEF CacheInv, AskCached, ReadInv, GateInv, PassInv, HeadsOK, AtRest, Files
<1>4. v.verdict = "PASS" => IsPass(Files(run.head), run.wording, run.known, v.envelope)
  BY <1>3, PassIsRecorded
<1> HIDE DEF v, row
<1>5. rows \in Seq(Range(rows))
  BY DEF CacheInv, ReadInv, GateInv, RunRows
<1>6. /\ \A i \in DOMAIN rows' : rows'[i] = row \/ (i \in DOMAIN rows /\ rows'[i] = rows[i])
      /\ \A i \in DOMAIN rows : i \in DOMAIN rows' /\ rows'[i] = rows[i]
  BY <1>1, <1>5
<1>7. RowsPass'
  BY <1>1, <1>2, <1>3, <1>4, <1>6 DEF CacheInv, RowsPass, Files
<1> QED
  BY <1>1, <1>6, <1>7 DEF AskCached, v

LEMMA CachePasses ==
  ASSUME CacheInv, Reuse
  PROVE  RowsPass' /\ AskCached' /\ PublishCached'
<1> DEFINE row == rows[run.cached]
<1>1. /\ run.at = "ask" /\ run.cached # 0
      /\ \E stored \in BOOLEAN : Conclude(row.envelope, {}, {}, stored)
  BY DEF Reuse
<1>2. /\ RowsPass' /\ AskCached' /\ run'.cached = run.cached
      /\ run'.verdict = Evaluated(run, row.envelope, {}).verdict
      /\ \A i \in DOMAIN rows : i \in DOMAIN rows' /\ rows'[i] = rows[i]
  BY <1>1, ConcludePasses
<1>3. /\ run.cached \in DOMAIN rows /\ SameQuestion(row)
      /\ run.menu = TestRows(Files(run.head))
      /\ EnvelopeOK(row.envelope) /\ CoverageShape(run.prior)
  BY <1>1 DEF CacheInv, AskCached, ReadInv, AskRead, Files
<1>4. ASSUME row.verdict = "PASS" PROVE Evaluated(run, row.envelope, {}).verdict = "PASS"
  <2>1. IsPass(Files(run.head), run.wording, run.known, row.envelope)
    BY <1>3, <1>4 DEF CacheInv, RowsPass, SameQuestion, Files
  <2> QED
    BY <1>3, <2>1, PassAgain
<1> QED
  BY <1>2, <1>3, <1>4 DEF PublishCached

LEMMA BeginCache ==
  ASSUME WholeMenus, CacheInv, Begin
  PROVE  RowsPass' /\ AskCached' /\ PublishCached'
<1>1. PICK pins, menu, looked :
        /\ menu \in Menus(Files(CurrentHead), pins)
        /\ run'.at = "ask" /\ run'.head = CurrentHead /\ run'.wording = wording
        /\ run'.known = ledger /\ run'.menu = menu
        /\ run'.cached = IF looked THEN CacheHit ELSE 0
  BY DEF Begin
<1>2. rows' = rows /\ heads' = heads
  BY DEF Begin
<1>3. Files(CurrentHead) \in Contents
  BY DEF CacheInv, ReadInv, GateInv, PassInv, HeadsOK, Files, CurrentHead
<1>4. /\ Files(CurrentHead).tests \in Seq(Range(Files(CurrentHead).tests))
      /\ Len(Files(CurrentHead).tests) <= MenuSize
  <2>1. PICK push \in Pushes : Files(CurrentHead) \in Range(push)
    BY <1>3 DEF Contents
  <2> QED
    BY <1>3, <2>1, PushAssumption DEF WholeMenus
<1>5. menu = TestRows(heads[CurrentHead])
  BY <1>1, <1>4, MenuIsWhole DEF Files
<1>6. ASSUME run'.cached # 0
      PROVE  /\ run'.cached \in DOMAIN rows /\ rows[run'.cached].valid
             /\ rows[run'.cached].head = CurrentHead
             /\ rows[run'.cached].wording = wording /\ rows[run'.cached].known = ledger
  <2>1. Reusable # {} /\ run'.cached = Max(Reusable)
    BY <1>1, <1>6 DEF CacheHit
  <2>2. Reusable \in SUBSET (1..Len(rows)) /\ Len(rows) \in Nat
    BY DEF Reusable, Complete, CacheInv, ReadInv, GateInv, RunRows
  <2>3. run'.cached \in Reusable
    BY <2>1, <2>2, GreatestExists
  <2> QED
    BY <2>2, <2>3 DEF Reusable, Complete
<1>7. RowsPass' /\ PublishCached'
  BY <1>1, <1>2 DEF CacheInv, RowsPass, PublishCached
<1>8. AskCached'
  BY <1>1, <1>2, <1>5, <1>6 DEF AskCached, SameQuestion
<1> QED
  BY <1>7, <1>8

LEMMA StepCache == WholeMenus /\ CacheInv /\ [GateNext]_gateVars => CacheInv'
<1> SUFFICES ASSUME WholeMenus, CacheInv, [GateNext]_gateVars
             PROVE  RowsPass' /\ AskCached' /\ PublishCached'
  BY StepReads DEF CacheInv
<1>1. ReadInv /\ RowsPass /\ AskCached /\ PublishCached
  BY DEF CacheInv
<1>2. CASE Begin
  BY <1>2, BeginCache
<1>3. CASE Reuse
  BY <1>3, CachePasses
<1>4. CASE Ask
  <2>1. PICK envelope, passes, calls, stored : Conclude(envelope, passes, calls, stored)
    BY <1>4, AskConcludes DEF CacheInv
  <2>2. run.at = "ask" /\ run.cached = 0
    BY <1>4 DEF Ask
  <2> QED
    BY <2>1, <2>2, ConcludePasses DEF PublishCached
<1>5. CASE AskInVain
  <2> DEFINE row == [head |-> run.head, valid |-> FALSE, live |-> TRUE]
  <2>1. run'.at = "report" /\ rows' = Append(rows, row) /\ heads' = heads /\ ~row.valid
    BY <1>5 DEF AskInVain
  <2> HIDE DEF row
  <2>2. \A i \in DOMAIN rows' : rows'[i] = row \/ (i \in DOMAIN rows /\ rows'[i] = rows[i])
    BY <1>1, <2>1 DEF ReadInv, GateInv, RunRows
  <2> QED
    BY <1>1, <2>1, <2>2 DEF RowsPass, AskCached, PublishCached
<1>6. CASE Discard \/ Post \/ Report \/ Stop
  <2>1. JobEnds /\ heads' = heads
    BY <1>6 DEF Discard, Post, Report, Stop
  <2>2. /\ run'.at = "rest"
        /\ rows' = [i \in DOMAIN rows |-> [rows[i] EXCEPT !.live = FALSE]]
    BY <2>1 DEF JobEnds, Resting
  <2>3. ASSUME NEW i \in DOMAIN rows', rows'[i].valid
        PROVE  /\ i \in DOMAIN rows /\ rows[i].valid /\ DOMAIN rows'[i] = DOMAIN rows[i]
               /\ rows'[i].head = rows[i].head /\ rows'[i].wording = rows[i].wording
               /\ rows'[i].known = rows[i].known /\ rows'[i].verdict = rows[i].verdict
               /\ rows'[i].envelope = rows[i].envelope
    <3>1. i \in DOMAIN rows /\ rows'[i] = [rows[i] EXCEPT !.live = FALSE]
      BY <2>2, <2>3
    <3>2. rows[i].valid
      BY <1>1, <2>3, <3>1 DEF ReadInv, RowsRead
    <3>3. {"head", "wording", "known", "verdict", "envelope"} \subseteq DOMAIN rows[i]
      BY <1>1, <3>1, <3>2 DEF RowsPass
    <3> QED
      BY <3>1, <3>2, <3>3
  <2> QED
    BY <1>1, <2>1, <2>2, <2>3 DEF RowsPass, AskCached, PublishCached
<1>7. CASE Crash \/ Persist
  <2>1. run'.at \notin {"ask", "publish"} /\ rows' = rows /\ heads' = heads
    <3>1. run.at = "publish" => "at" \in DOMAIN run
      BY <1>1 DEF ReadInv, GateInv, PassInv, RunShape
    <3>2. CASE Crash
      BY <3>2 DEF Crash, Resting
    <3>3. CASE Persist
      BY <3>1, <3>3 DEF Persist
    <3> QED
      BY <1>7, <3>2, <3>3
  <2> QED
    BY <1>1, <2>1 DEF RowsPass, AskCached, PublishCached
<1>8. CASE Push \/ Reword \/ UNCHANGED gateVars
  <2>1. run' = run /\ rows' = rows
    BY <1>8 DEF Push, Reword, gateVars
  <2>2. /\ Len(heads') >= Len(heads) /\ Len(heads') \in Nat /\ Len(heads) \in Nat
        /\ \A h \in 1..Len(heads) : heads'[h] = heads[h]
    <3>1. CASE Push
      <4>1. PICK push \in Pushes : heads' = Append(heads, push[2]) /\ push[2] \in Contents
        BY <3>1, PushAssumption DEF Push, Contents, Range
      <4> QED
        BY <1>1, <4>1 DEF ReadInv, GateInv, PassInv, HeadsOK
    <3>2. CASE Reword \/ UNCHANGED gateVars
      BY <1>1, <3>2 DEF Reword, gateVars, ReadInv, GateInv, PassInv, HeadsOK
    <3> QED
      BY <1>8, <3>1, <3>2
  <2>3. run.at = "ask" => run.head \in 1..Len(heads)
    BY <1>1 DEF ReadInv, GateInv, PassInv, HeadsOK, AtRest
  <2> QED
    BY <1>1, <2>1, <2>2, <2>3 DEF RowsPass, AskCached, PublishCached, SameQuestion
<1> QED
  BY <1>2, <1>3, <1>4, <1>5, <1>6, <1>7, <1>8 DEF GateNext

(* If the menus hold every line of the test: a review that reuses a run    *)
(* that passed passes too, over the same HEAD, criteria and findings,      *)
(* whatever evidence other runs have recorded since.                       *)
THEOREM PassesAreRepeated ==
  ASSUME WholeMenus
  PROVE  GateSpec => []CachedPassIsRepeated
<1>1. GateInit => CacheInv
  BY InitGateInv DEF GateInit, Resting, ReadInv, RowsRead, AskRead, CacheInv, RowsPass,
    AskCached, PublishCached
<1>2. CacheInv /\ [GateNext]_gateVars => CacheInv'
  BY StepCache
<1>3. CacheInv => CachedPassIsRepeated
  BY DEF CacheInv, PublishCached, CachedPassIsRepeated
<1> QED
  BY <1>1, <1>2, <1>3, PTL DEF GateSpec
=============================================================================
