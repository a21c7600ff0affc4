---------------------------- MODULE SlideLanguage ----------------------------
(***************************************************************************)
(* What the parser promises: which token sequences are presentations.      *)
(*                                                                         *)
(* A presentation is read phrase by phrase.  A phrase is a slide header, a *)
(* slide item or a separator; a separator stands before a slide, so two    *)
(* separators never meet and none comes last.  This is the language the    *)
(* report gives in its chapter on the grammar and the accept and reject    *)
(* tests sample; the productions of the grammar, its lists, its optional   *)
(* parts and its conflicts are not visible here.                           *)
(***************************************************************************)
EXTENDS Sequences, SequencesExt

CONSTANT Tokens     \* the tokens offered, EOF among them

Header ==
  {<<"HASH", "STRING">> \o subtitle \o id :
     subtitle \in {<<>>, <<"DOUBLE_HASH", "STRING">>},
     id \in {<<>>, <<"AT_ID", "STRING">>}}

Separator == <<"TRIPLE_MINUS">>

Item ==
  {<<"MINUS", "TEXT_CONTENT">>, <<"NUMBERED_LIST", "TEXT_CONTENT">>,
   <<"AT_IMG", "STRING", "STRING">>, <<"AT_IMG", "STRING", "STRING", "STRING">>,
   <<"AT_CODE", "CODE_CONTENT", "AT_END">>,
   <<"AT_NOTE", "STRING">>,
   <<"AT_LINK", "STRING">>, <<"AT_LINK", "STRING", "STRING">>}
  \cup
  {<<"AT_BLOCK", "TIPO_EQUALS", type>> \o title \o <<"TEXT_CONTENT", "AT_END">> :
     type \in {"NORMAL", "ALERT", "EXAMPLE"}, title \in {<<>>, <<"STRING">>}}

Phrases == Header \cup Item \cup {Separator}

\* The sequences of tokens that begin a phrase, each phrase included.
Openings == UNION {Prefixes(p) : p \in Phrases}

VARIABLES
  phrase,     \* the tokens of the phrase being read, the last complete one included
  pending,    \* a token offered and not yet judged, or "none"
  verdict     \* "open", "accepted" or "rejected"

langVars == <<phrase, pending, verdict>>

Init ==
  /\ phrase = <<>>
  /\ pending = "none"
  /\ verdict = "open"

Continues(t) == Append(phrase, t) \in Openings

Begins(t) ==
  /\ <<t>> \in Openings
  /\ phrase \in Phrases \cup {<<>>}
  /\ ~(phrase = Separator /\ t = "TRIPLE_MINUS")

\* The phrase after token t, where t may come next.
Advance(t) == IF Continues(t) THEN Append(phrase, t) ELSE <<t>>

Complete == phrase \in Phrases \ {Separator}

Offer(t) ==
  /\ pending = "none" /\ verdict = "open"
  /\ pending' = t
  /\ UNCHANGED <<phrase, verdict>>

Take ==
  /\ pending \notin {"none", "YYEOF"} /\ verdict = "open"
  /\ Continues(pending) \/ Begins(pending)
  /\ phrase' = Advance(pending)
  /\ pending' = "none"
  /\ UNCHANGED verdict

Accept ==
  /\ pending = "YYEOF" /\ verdict = "open"
  /\ Complete
  /\ verdict' = "accepted"
  /\ pending' = "none"
  /\ UNCHANGED phrase

Reject ==
  /\ pending # "none" /\ verdict = "open"
  /\ IF pending = "YYEOF" THEN ~Complete ELSE ~(Continues(pending) \/ Begins(pending))
  /\ verdict' = "rejected"
  /\ pending' = "none"
  /\ UNCHANGED phrase

Judge == Take \/ Accept \/ Reject

Next == (\E t \in Tokens : Offer(t)) \/ Judge

Spec == Init /\ [][Next]_langVars /\ WF_langVars(Judge)

=============================================================================
