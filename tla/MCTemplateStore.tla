--------------------------- MODULE MCTemplateStore ---------------------------
(***************************************************************************)
(* Template stores to check: every text of up to four pieces, and texts     *)
(* with loops, conditions and includes in a store of several files.          *)
(***************************************************************************)
EXTENDS TemplateMeaning

Char == [k |-> "char"]
NewLine == [k |-> "nl"]
Var(a, b) == [k |-> "var", var |-> <<a, b>>]
Str(n) == [k |-> "str", name |-> n]
If(a, b, inv) == [k |-> "if", var |-> <<a, b>>, inv |-> inv]
For(x, a, b) == [k |-> "for", var |-> x, list |-> <<a, b>>]
EndIf == [k |-> "endif"]
EndFor == [k |-> "endfor"]
Include(p) == [k |-> "include", path |-> p]
Empty == [k |-> "empty"]
Bad == [k |-> "bad"]

A == <<"a">>
B == <<"b">>
E == <<"e">>
DeB == <<"de", "b">>
DeOnly == <<"de", "o">>

\* All texts of up to four pieces over text, newline and the control tokens.
ShortTexts == SeqOf({Char, NewLine, If("c", "", FALSE), EndIf, For("x", "l", ""), EndFor}, 4)

\* Tokens the short texts do not have.
OddTexts == {<<Char, Bad>>, <<Empty>>, <<Char, Empty, Char>>, <<Empty, Var("t", "")>>,
             <<If("c", "", TRUE), Empty, EndIf>>, <<Str("")>>, <<Str("s"), Str("n")>>,
             <<Var("", "t")>>, <<Var("l", "")>>, <<If("t", "", FALSE), EndIf>>,
             <<For("x", "", "t"), Char, EndFor>>, <<For("x", "", "t"), NewLine, EndFor>>,
             <<For("x", "t", ""), Char, EndFor>>,
             <<If("u", "", FALSE), Char, EndIf, If("l", "", FALSE), EndIf>>}

Inner == {<<Char>>, <<Var("x", "")>>, <<Var("x", "k")>>, <<Include(B)>>,
          <<If("x", "k", FALSE), Char, EndIf>>, <<If("x", "k", TRUE), Include(E), EndIf>>,
          <<For("y", "x", "m"), Var("y", ""), Include(B), EndFor>>,
          <<For("x", "l", ""), Var("x", "k"), EndFor>>}

MainTexts == {pre \o <<For("x", "l", "")>> \o in \o <<EndFor>> \o post :
                pre \in {<<>>, <<Var("x", "")>>}, in \in Inner,
                post \in {<<>>, <<Include(B)>>, <<Var("x", "")>>}}
             \cup {<<Include(B), Include(B)>>, <<Include(DeOnly)>>, <<Include(A)>>}

IncludedTexts == {<<Char>>, <<Include(A)>>, <<Include(E), Char>>, <<Var("x", "k"), Include(E)>>}

\* A store of one file, or of a main template, an included one, an empty one or
\* not, and localized versions.
MCFiles ==
    [{A} -> ShortTexts \cup OddTexts]
    \cup {A :> a @@ B :> b @@ E :> e @@ DeB :> <<Char, NewLine>> @@ DeOnly :> <<Char>> :
            a \in MainTexts, b \in IncludedTexts, e \in {<<>>, <<Var("t", "")>>}}

Object(k, m) == [t |-> "object", v |-> [k |-> k, m |-> m]]
Array(s) == [t |-> "array", v |-> s]

MCDics ==
    {[c |-> Bool(TRUE), t |-> Text("maybe"), u |-> Text("yes"), l |-> Array(<<Null, Null>>)],
     [c |-> Text("off"), x |-> Text("no"), t |-> Text("on"),
      l |-> Array(<<Object(Text("1"), Array(<<Text("i"), Text("j")>>)),
                    Object(Bool(FALSE), Null)>>)]}

MCStrLists == {<<>>, <<"", "s">> :> Text("default") @@ <<"de", "s">> :> Text("deutsch")}
MCUnreadable == {{}, {A}, {B}}
MCLangs == {"de"}
MCRequests == {A, DeOnly}
MCNames == {"x", "y"}
MCValues == {Null, Bool(TRUE), Bool(FALSE), Array(<<Null, Null>>), Array(<<Text("i"), Text("j")>>),
             Object(Text("1"), Array(<<Text("i"), Text("j")>>)), Object(Bool(FALSE), Null)}
            \cup {Text(w) : w \in {"maybe", "yes", "no", "off", "on", "1", "i", "j"}}
            \cup UNION {{d["l"]} : d \in MCDics}
=============================================================================
