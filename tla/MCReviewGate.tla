----------------------------- MODULE MCReviewGate -----------------------------
(* The instance for TLC: two criteria, the second proven only by two test  *)
(* lines together; a fatal and an advisory claim; a push moves the tests   *)
(* and drops one, drops lines of the claims or doubles one.                *)
EXTENDS ReviewGate

MCProofs == <<{{"t1"}}, {{"t1", "t2"}}>>

Says0(names, does) == [names |-> names, does |-> does, comment |-> FALSE]
MCLineFacts ==
  [open |-> Says0({<<"f">>}, {}), guard |-> Says0({}, {}), safe |-> Says0({}, {}),
   boom |-> Says0({}, {"crash"})]

Bare ==
  [tests |-> <<"t3", "t1">>, code |-> <<"open", "guard", "boom">>, added |-> {3},
   complete |-> FALSE, inventory |-> TRUE]
Whole ==
  [tests |-> <<"t1", "t2">>, code |-> <<"safe", "open", "guard", "boom">>, added |-> {4},
   complete |-> TRUE, inventory |-> TRUE]
Broken ==
  [tests |-> <<"t3", "t4", "t1">>, code |-> <<"open", "safe", "boom", "boom">>, added |-> {2, 3, 4},
   complete |-> TRUE, inventory |-> FALSE]
MCPushes == {<<Bare, Whole>>, <<Whole, Broken>>}

Cites(quote, line) == [quote |-> quote, line |-> line]
Covered(evidence) == [status |-> "covered", evidence |-> evidence]
Missing == [status |-> "missing", evidence |-> <<>>]
Line(line, text) == [line |-> line, text |-> text]

Crash0 == [outcome |-> "crash", symbol |-> <<"m", "f">>, root |-> Line(3, "boom"),
           chain |-> <<Line(7, "guard"), Line(3, "boom")>>]
Slip0 == [outcome |-> "slip", symbol |-> <<"f">>, root |-> Line(3, "boom"),
          chain |-> <<Line(1, "open"), Line(3, "boom")>>]

Full == <<Covered(<<Cites("t1", 1)>>), Covered(<<Cites("t2", 2), Cites("t1", 1)>>)>>
Wrong == <<Covered(<<Cites("t3", 1)>>), Covered(<<Cites("t2", 3), Cites("t1", 9)>>)>>
Neither == <<Missing, Missing>>
MCAnswers ==
  {[coverage |-> Full, missing |-> <<>>, claims |-> <<>>],
   [coverage |-> Full, missing |-> <<>>, claims |-> <<Crash0>>],
   [coverage |-> Wrong, missing |-> <<>>, claims |-> <<Slip0>>],
   [coverage |-> Neither, missing |-> <<1, 2>>, claims |-> <<>>]}

(* A claim that is rejected counts for no more than one never made.        *)
MCChecks ==
  {[verdict |-> "confirmed", evidence |-> {Line(5, "boom")}],
   [verdict |-> "uncertain", evidence |-> {Line(1, "open")}]}
================================================================================
