------------------------------- MODULE Texts -------------------------------
(***************************************************************************)
(* A text on its way through Parser: written by the printer or by anybody, *)
(* and then parsed as execute() of fastql/execution/execute.py does first. *)
(***************************************************************************)
EXTENDS Parser

\* What there may be: definitions to print, and texts of no printer.
CONSTANTS ToPrint, OtherTexts

VARIABLES
  reading,       \* "written", "text", "syntax" or "parsed"
  written,     \* the definitions that were printed, <<>> for another text
  text,
  definitions  \* what the parser gave

textVars == <<reading, written, text, definitions>>

TextInit ==
  /\ definitions = <<>>
  /\ \/ reading = "written" /\ written \in ToPrint /\ text = <<>>
     \/ reading = "text" /\ written = <<>> /\ text \in OtherTexts

PrintWritten ==
  /\ reading = "written"
  /\ text' = PrintDocument(written)
  /\ reading' = "text"
  /\ UNCHANGED <<written, definitions>>

ParseText ==
  LET parsed == ParseDefinitions(text) IN
  /\ reading = "text"
  /\ definitions' = parsed.node
  /\ reading' = IF parsed.ok THEN "parsed" ELSE "syntax"
  /\ UNCHANGED <<written, text>>

TextNext == PrintWritten \/ ParseText

TextSpec == TextInit /\ [][TextNext]_textVars

-----------------------------------------------------------------------------
\* The parser gives what is written, all of it and nothing else: what it accepts is
\* printed as the text it was, but for the word "query" before a bare selection set;
\* and it accepts what was printed, as the definitions that were printed.
TextIsKept ==
  /\ reading = "parsed" =>
       \/ PrintDocument(definitions) = text
       \/ /\ SubSeq(text, 1, 2) = <<Word("query"), Mark("{")>>
          /\ PrintDocument(definitions) = Tail(text)
  /\ written # <<>> /\ reading \in {"syntax", "parsed"} => reading = "parsed" /\ definitions = written
=============================================================================
