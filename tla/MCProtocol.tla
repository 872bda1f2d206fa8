----------------------------- MODULE MCProtocol -----------------------------
(* Every text of at most five words out of nine, and every command of at    *)
(* most two arguments.                                                      *)
EXTENDS Protocol

CONSTANTS f, g, v

Tokens == Types \cup {"", f, g, v}

Pair(t, w) == [name |-> t, eq |-> TRUE, value |-> w]

\* Commands, a word that is none, values with both quotes, none, the first or
\* the second, and a word with nothing but quotes around its '='.
Words ==
  {Bare(t) : t \in Types \cup {f}} \cup
  {Pair(f, Quoted(v)), Pair(f, Plain(v)), Pair(g, [Plain(v) EXCEPT !.open = TRUE]),
   Pair(g, [Plain(v) EXCEPT !.close = TRUE]), Pair("", Quoted(""))}

AllTexts == SeqOf(Words, 5)

Args == [field : {f, g}, words : {<<v>>, <<f>>, <<v, g>>}, quoted : BOOLEAN]

AllCommands ==
  [type : {"SET_FIELDS"}, key : {f},
   args : SeqOf({a \in Args : Len(a.words) > 1 => a.quoted}, 2)] \cup
  [type : {"GETALL"}, key : {f}, args : {<<>>}] \cup
  [type : {"GET_FIELDS"}, key : {g}, args : SeqOf({f, g}, 2)]
=============================================================================
