----------------------------- MODULE MCJobTyping -----------------------------
(* A small instance of JobTyping: a document that holds one character, and   *)
(* a plan whose only mistake, a doubled letter, is found at the very end.    *)
EXTENDS JobTyping

T(char) == [kind |-> "type", char |-> char]
Rest == [kind |-> "rest"]
Fix(offset, remove, insert) ==
  [kind |-> "repair", offset |-> offset, remove |-> remove, insert |-> insert]

MCCharacters == {"o", "a", "b", "c"}
MCBefore == <<"o">>

\* The one a cancellation can reach after its last correction.
MCPlanEndingInRepair == {<<T("a"), T("b"), T("b"), T("c"), Rest, Fix(1, 2, <<"b">>)>>}
=============================================================================
