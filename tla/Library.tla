------------------------------ MODULE Library ------------------------------
(***************************************************************************)
(* The string and file functions, called by one script.  They share no       *)
(* state - the text and the tokenisations of TextCalls, the files and        *)
(* handles of Streams - so that nothing is lost by taking apart the scripts  *)
(* that use the ones and those that use the others.                          *)
(***************************************************************************)
EXTENDS TextCalls, Streams

LibraryVars == <<textVars, streamVars>>

LibraryInit == TextInit /\ StreamInit

NoTexts == text = NoText /\ loops = <<>> /\ ended = <<>> /\ ~mixed
NoFiles == files = <<>> /\ streams = <<>>

TextScript == NoFiles /\ TextNext /\ UNCHANGED streamVars
StreamScript == NoTexts /\ StreamNext /\ UNCHANGED textVars

LibrarySpec == LibraryInit /\ [][TextScript \/ StreamScript]_LibraryVars

\* The functions agree with one another, on texts (TextsAgree) and on the lines of
\* files (LinesAgree).
CallsAgree == TextsAgree /\ LinesAgree

=============================================================================
