----------------------------- MODULE MCSession ------------------------------
(* A SET_FIELDS of two fields, one with quotes around a value that can be    *)
(* cut; a GETALL; a GET_FIELDS that fills the buffer exactly.               *)
EXTENDS Session

Arg(field, value, quoted) == [field |-> field, value |-> value, quoted |-> quoted]

Set == [type |-> "SET_FIELDS", key |-> <<"k", "1">>,
        args |-> <<Arg(<<"f">>, <<"v">>, FALSE), Arg(<<"g">>, <<"v", "w">>, TRUE)>>]
GetAll    == [type |-> "GETALL", key |-> <<"k">>, args |-> <<>>]
GetFields == [type |-> "GET_FIELDS", key |-> <<"k">>, args |-> <<Arg(<<"f", "1">>, <<>>, FALSE)>>]

ThreeMessages == {Set, GetAll, GetFields}
ThreeLengths  == {Len(Text(m)) : m \in ThreeMessages}

AllPieces ==
  {"SET_", "GET_", "FIELDS", "GET", "ALL", "=", Quote, " ", "\n", "k", "1", "f", "g", "v", "w"}

\* Every piece of a word that a cut can leave.
Tokens ==
  {"", "SET_FIELDS", "SET_", "FIELDS", "GET_FIELDS", "GET_", "GETALL", "GET", "ALL",
   "k1", "k", "1", "f", "f1", "g", "v", "vw", "w"}

\* No argument of these messages is a command.
ASSUME MCCommandsFirst == CommandsFirst
=============================================================================
