------------------------------ MODULE MCTexts ------------------------------
(***************************************************************************)
(* A document with everything the grammar knows, the same with one token   *)
(* too few, one twice, or two in the other order, and the samples with one *)
(* of their sets of fragments.                                             *)
(***************************************************************************)
EXTENDS Texts, Samples

Everything ==
  << [Operation("q", "query",
                <<[Var("v", NonNullOf(ListOf(NonNullOf(IntType)))) EXCEPT !.default = List(<<One, Null>>)], Var("w", Named("In"))>>,
                <<FieldNode("x", "g", <<NamedValue("o", Object([r |-> V])), NamedValue("e", Leaf("enum", "P"))>>,
                            <<If("skip", Leaf("bool", "true"))>>, <<>>),
                  On("", <<If("include", Leaf("bool", "false"))>>, <<Spread("G", <<>>)>>),
                  O("on", <<On("A", <<>>, <<F("query")>>)>>)>>) EXCEPT !.directives = <<If("skip", V)>>],
     Fragment("G", "Query", <<F("fragment")>>) >>
WholeText == PrintDocument(Everything)
Without(i) == SubSeq(WholeText, 1, i - 1) \o SubSeq(WholeText, i + 1, Len(WholeText))
Bare == <<[Everything[1] EXCEPT !.vars = <<>>, !.directives = <<>>]>>

MCOtherTexts ==
  {Without(i) : i \in 1..Len(WholeText)}
  \cup {SubSeq(WholeText, 1, i) \o SubSeq(WholeText, i, Len(WholeText)) : i \in 1..Len(WholeText)}
  \cup {[WholeText EXCEPT ![i] = WholeText[i + 1], ![i + 1] = WholeText[i]] : i \in 1..Len(WholeText) - 1}
  \cup {Tail(Tail(PrintDocument(Bare))),
        <<Word("query")>> \o PrintDocument(<<[Bare[1] EXCEPT !.name = ""]>>)}
MCToPrint ==
  {Everything} \cup {<<Query(<<Var("v", NonNullOf(Named("Boolean")))>>, sub)>> \o fs : sub \in Uppers, fs \in Fragments}
=============================================================================
