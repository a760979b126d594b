----------------------------- MODULE SyntaxTree -----------------------------
(***************************************************************************)
(* SyntaxTree::parse(): the text of a template becomes a list of items      *)
(* linked by parent, first child and next sibling.                          *)
(*                                                                          *)
(* A text is a sequence of pieces, a piece a record with a kind k.  "char"   *)
(* and "nl" are plain text; the other kinds are tokens in double curly       *)
(* brackets: "var", "str", "if", "for", "endif", "endfor", "include",        *)
(* "empty" (only blanks) and "bad" (does not match its regular expression).  *)
(* Positions are positions of pieces, and 0 is InvalidIndex.                 *)
(***************************************************************************)
EXTENDS Naturals, Sequences, SequencesExt

Plain == {"char", "nl"}
Control == {"if", "for", "endif", "endfor"}
Opener == {"if", "for"}
Kinds == Plain \cup Control \cup {"var", "str", "include", "empty", "bad"}

IsText(s) == s \in Seq({s[i] : i \in DOMAIN s}) /\ \A i \in DOMAIN s : s[i].k \in Kinds

NoItem == 0

(***************************************************************************)
(* The local variables of parse(): the list of items, the parent and the    *)
(* last sibling of the next item, whether the parent has to be told of its   *)
(* first child, the kind of the current section, the start of the text not   *)
(* yet handled, and whether an error has ended the run.                      *)
(***************************************************************************)
NewParser == [tree |-> <<>>, idxParentItem |-> NoItem, idxLastSibling |-> NoItem,
              updateParent |-> FALSE, curSection |-> "Root", curSectionStart |-> 1,
              err |-> FALSE]

\* tree.push_back() followed by updateLinks(): an item of type t with its text
\* or its token.
Push(p, t, text) ==
    LET n == Len(p.tree) + 1
        isNewChild(j) == p.updateParent /\ j = p.idxParentItem
        linked == [j \in 1..(n - 1) |->
                     [p.tree[j] EXCEPT
                        !.idxFirstChild = IF isNewChild(j) THEN n ELSE p.tree[j].idxFirstChild,
                        !.idxNextSibling = IF j = p.idxLastSibling THEN n
                                           ELSE p.tree[j].idxNextSibling]]
        new == [t |-> t, text |-> text, idxNextSibling |-> NoItem,
                idxFirstChild |-> NoItem, idxParent |-> p.idxParentItem]
    IN  [p EXCEPT !.tree = Append(linked, new),
                  !.updateParent = FALSE, !.idxLastSibling = n]

SectionOf(tree, idx) ==
    IF idx = NoItem THEN "Root"
    ELSE IF tree[idx].t = "ForLoop" THEN "ForLoop" ELSE "Condition"

\* Slip: the items of a block are linked to the item before the block.
LevelDownKeepSibling(p) ==
    [p EXCEPT !.idxParentItem = Len(p.tree), !.updateParent = TRUE,
              !.curSection = SectionOf(p.tree, Len(p.tree))]

LevelDown(p) ==
    [p EXCEPT !.idxParentItem = Len(p.tree), !.updateParent = TRUE,
              !.idxLastSibling = NoItem,
              !.curSection = SectionOf(p.tree, Len(p.tree))]

LevelUp(p) ==
    IF p.idxParentItem = NoItem THEN p
    ELSE LET up == p.tree[p.idxParentItem].idxParent
         IN  [p EXCEPT !.idxLastSibling = p.idxParentItem, !.idxParentItem = up,
                       !.updateParent = FALSE, !.curSection = SectionOf(p.tree, up)]

(***************************************************************************)
(* doSyntaxCheck(): a malformed token, or an end that does not fit the      *)
(* current section.                                                         *)
(***************************************************************************)
SyntaxOkay(token, secType) ==
    /\ token.k # "bad"
    /\ token.k = "endif" => secType = "Condition"
    /\ token.k = "endfor" => secType = "ForLoop"

\* Slip: the newline goes even if there is text before the token.
SkipAnyNewLineChar(s, i) ==
    /\ s[i].k \in Control
    /\ i < Len(s) => s[i + 1].k = "nl"

\* A control token alone on its line takes the newline behind it away.
SkipNewLineChar(s, i) ==
    /\ s[i].k \in Control
    /\ i > 1 => s[i - 1].k = "nl"
    /\ i < Len(s) => s[i + 1].k = "nl"

TypeOf(token) ==
    CASE token.k = "if" -> "Condition"
      [] token.k = "for" -> "ForLoop"
      [] token.k = "include" -> "IncludeCmd"
      [] OTHER -> "Variable"

\* The text before token i, if any, becomes an item of its own.
TextBefore(s, p, i) ==
    IF p.curSectionStart # i THEN Push(p, "Static", SubSeq(s, p.curSectionStart, i - 1)) ELSE p

(***************************************************************************)
(* One round of the loop over the tokens.  Of an empty token only the two   *)
(* opening brackets are consumed (sm.size() counts the matched groups, not   *)
(* the characters): the section after it starts within the token itself,     *)
(* and the piece stands for the rest of the token in the static text.        *)
(***************************************************************************)
HandleToken(s, p, i) ==
    LET q == TextBefore(s, p, i)
        token == s[i]
        start == IF SkipNewLineChar(s, i) THEN i + 2 ELSE i + 1
    IN  IF token.k = "empty" THEN [q EXCEPT !.curSectionStart = i]
        ELSE IF ~SyntaxOkay(token, q.curSection) THEN [q EXCEPT !.err = TRUE]
        ELSE LET r == IF token.k \in {"endif", "endfor"} THEN LevelUp(q)
                      ELSE IF token.k \in Opener THEN LevelDown(Push(q, TypeOf(token), token))
                      ELSE Push(q, TypeOf(token), token)
             IN  [r EXCEPT !.curSectionStart = start]

\* The loop: the parser after each piece of s.
Loop(s) ==
    LET parser[i \in 0..Len(s)] ==
          LET p == parser[i - 1]
          IN  IF i = 0 THEN NewParser
              ELSE IF p.err \/ s[i].k \in Plain THEN p
              ELSE HandleToken(s, p, i)
    IN  parser

\* The whole of parse(): its loop, the check of the section it ends in, and
\* the text behind the last token.
Parse(s) ==
    LET p == Loop(s)[Len(s)]
    IN  IF p.err \/ s = <<>> THEN p
        ELSE IF p.curSection # "Root" THEN [p EXCEPT !.err = TRUE]
        ELSE IF p.curSectionStart <= Len(s)
             THEN Push(p, "Static", SubSeq(s, p.curSectionStart, Len(s)))
        ELSE p

-----------------------------------------------------------------------------
(***************************************************************************)
(* What the list of items has to be, said without the parser.               *)
(***************************************************************************)

\* The blocks that are open after each piece of s: a reduction that drops a
\* beginning whenever the end of its kind meets it.
Begin == [endif |-> "if", endfor |-> "for"]

Opened(s) ==
    LET open[i \in 0..Len(s)] ==
          LET before == open[i - 1]
              kind == s[i].k
          IN  IF i = 0 THEN <<>>
              ELSE IF kind \in Opener THEN Append(before, kind)
              ELSE IF kind \notin DOMAIN Begin THEN before
              ELSE IF before # <<>> /\ Last(before) = Begin[kind] THEN Front(before)
              ELSE Append(before, "error")
    IN  open

Nested(s) == Opened(s)[Len(s)] = <<>>

WellFormed(s) == (\A i \in DOMAIN s : s[i].k # "bad") /\ Nested(s)

\* The items from each item on, in the order of a walk that takes the children
\* of an item before its next sibling, as getSyntaxSubtree() does.
Walk(tree) ==
    LET walk[idx \in 0..Len(tree)] ==
          IF idx = NoItem THEN <<>>
          ELSE <<idx>> \o walk[tree[idx].idxFirstChild] \o walk[tree[idx].idxNextSibling]
    IN  walk

\* Every link leads forward, and to the item it says.
LinksFit(tree) ==
    \A i \in DOMAIN tree :
        LET c == tree[i].idxFirstChild
            n == tree[i].idxNextSibling
        IN  /\ c # NoItem => c = i + 1 /\ c \in DOMAIN tree /\ tree[c].idxParent = i
            /\ n # NoItem => /\ n \in DOMAIN tree /\ n > i
                             /\ tree[n].idxParent = tree[i].idxParent

\* The walk reaches every item once and in the order of the text, and the
\* links to the parents are those of the walk.
IsDocumentTree(tree) ==
    /\ LinksFit(tree)
    /\ tree # <<>> => Walk(tree)[1] = [i \in DOMAIN tree |-> i]

\* The texts for which the code does what the comment in it says.
NoEmptyToken(s) == \A i \in DOMAIN s : s[i].k # "empty"

\* A newline behind a control token that has a line of its own.
Hidden(s, i) ==
    /\ s[i].k = "nl" /\ i > 1
    /\ s[i - 1].k \in Control
    /\ i > 2 => s[i - 2].k = "nl"

\* What is to be found in the items, after each piece of s.  Of an empty token
\* nothing is: the comment in parse() says that it is skipped, although
\* HandleToken() leaves most of it in the text.
Kept(s) ==
    LET kept[i \in 0..Len(s)] ==
          IF i = 0 THEN <<>>
          ELSE IF s[i].k \in {"endif", "endfor", "empty"} \/ Hidden(s, i) THEN kept[i - 1]
          ELSE Append(kept[i - 1], s[i])
    IN  kept

\* The pieces of the items, up to each of them.
Contents(tree) ==
    LET contents[j \in 0..Len(tree)] ==
          IF j = 0 THEN <<>>
          ELSE contents[j - 1] \o IF tree[j].t = "Static" THEN tree[j].text ELSE <<tree[j].text>>
    IN  contents

\* No piece of the text is lost, twice or in another place, and no token is
\* taken for text or for another one.
HoldsText(tree, s) ==
    /\ Contents(tree)[Len(tree)] = Kept(s)[Len(s)]
    /\ \A j \in DOMAIN tree :
         IF tree[j].t = "Static"
         THEN \A i \in DOMAIN tree[j].text : tree[j].text[i].k \in Plain
         ELSE tree[j].t = TypeOf(tree[j].text)
=============================================================================
