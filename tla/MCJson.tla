-------------------------------- MODULE MCJson --------------------------------
(* A small instance of Json: the caller reads texts and makes a few calls.  *)
EXTENDS Json

K(k) == Word("name", <<k>>)
N(n) == Word("number", <<n>>)
\* A string written so, with its closing quote
T(raw) == Word("string", Append(raw, Quote))
C == Sign(":")
O == Sign("{")
P == Sign("}")
S == Sign(",")
B == Sign("blank")

\* Keys 0, 2 and 4 are three words in capitals, 1 and 5 are 0 and 4 in small letters
MCTexts ==
  { <<O, K(4), C, N(1), S, K(0), C, O, K(2), C, N(1), P, S, K(2), C, N(2), P>>,
    <<O, K(2), C, N(1), S, K(5), C, O, K(2), C, Sign("null"), P, P>>,
    <<O, K(2), C, N(1), P>>,
    <<O, K(1), C, N(1), S, K(2), C, N(1), P>>,
    <<Sign("["), B, N(1), S, O, K(0), C, N(2), P, B, Sign("]"), N(9)>>,
    <<Sign("["), N(2), S, N(1), S, Sign("["), Sign("]"), Sign("]")>>,
    <<O, K(0), C, N(1), S, P>>,
    \* "A\"\/\u00e9" and "\u20AC\uD83d\uDE00\n"
    <<Sign("["), T(<<65, 92, 34, 92, 47, 92, 117, 48, 48, 101, 57>>), S,
      T(<<92, 117, 50, 48, 65, 67, 92, 117, 68, 56, 51, 100, 92, 117, 68, 69, 48, 48,
          92, 110>>), Sign("]")>>,
    \* "\u001f" and "x\u0000y", "\uD83Dx", "\q"
    <<Sign("["), T(<<92, 117, 48, 48, 49, 102>>), S,
      T(<<120, 92, 117, 48, 48, 48, 48, 121>>), Sign("]")>>,
    <<Sign("["), T(<<92, 117, 68, 56, 51, 68, 120>>), Sign("]")>>,
    <<Sign("["), T(<<92, 113>>), Sign("]")>>,
    <<Sign("["), Sign("["), Sign("["), Sign("]"), Sign("]"), Sign("]")>> }
MCItems == {<<"array", <<>>>>, <<"number", <<3>>>>}
MCRows == {<<"number", <<<<1>>, <<2>>>>>>, <<"string", <<<<92, 9>>>>>>}
MCPatches ==
  { Patch("remove", <<Key(0)>>, <<>>, NoValue),
    Patch("remove", <<>>, <<>>, NoValue),
    Patch("add", <<Key(0)>>, <<>>, Value("array", <<>>, <<[key |-> NoKey, item |-> Value("number", <<7>>, <<>>)]>>)),
    Patch("add", <<Index(1)>>, <<>>, Value("number", <<7>>, <<>>)),
    Patch("add", <<End>>, <<>>, Value("number", <<7>>, <<>>)),
    Patch("replace", <<Index(1), Key(0)>>, <<>>, Value("number", <<7>>, <<>>)),
    Patch("replace", <<>>, <<>>, Value("number", <<7>>, <<>>)),
    Patch("copy", <<Key(2)>>, <<Key(0)>>, NoValue),
    Patch("move", <<Key(0), Key(4)>>, <<Key(4)>>, NoValue),
    Patch("move", <<Key(0), Key(4)>>, <<Key(0)>>, NoValue),
    Patch("test", <<>>, <<>>, NoValue),
    Patch("test", <<Key(0)>>, <<>>, NoValue) }

=============================================================================
