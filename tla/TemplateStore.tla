---------------------------- MODULE TemplateStore ----------------------------
(***************************************************************************)
(* TemplateStore: a directory of templates, parsed once, and get(), which   *)
(* expands a template with a dictionary.  getTemplate_Recursive() and        *)
(* getSyntaxSubtree() call each other; here their activations are the        *)
(* elements of a stack and every item of a syntax tree is a step.            *)
(*                                                                          *)
(* A path is a sequence of directory names and a file name; the leading '/'  *)
(* is gone.  The dictionary is a function from names to JSON values, a value *)
(* a record with its type t and its content v.  The string list is a         *)
(* function from pairs of language and name to texts.                        *)
(***************************************************************************)
EXTENDS SyntaxTree, TLC

CONSTANTS Files,      \* the possible contents of the root directory: functions
                      \* from paths to texts
          Dics,       \* the possible dictionaries
          StrLists,   \* the possible string lists
          Langs,      \* the language codes that setLang() may be given
          Requests,   \* the paths that get() may be asked for
          Unreadable, \* the possible sets of files that cannot be read
          MaxCalls    \* bound on the calls of get()

ASSUME StoreAssumption ==
    /\ MaxCalls \in Nat
    /\ \A f \in Files : \A path \in DOMAIN f : IsText(f[path])

VARIABLES files,      \* the texts on disk; no call changes them
          docs,       \* the parsed templates, a function from paths to trees
          strList,    \* the string list; no entries if none is loaded
          langCode,
          dic,        \* the dictionary of the current call
          stack,      \* the activations of getTemplate_Recursive()
          visited,    \* visitedTemplates
          result,     \* the text produced by the current or the last call
          status,     \* "new", "ready", "expanding", or "invalid" (ctor threw)
          asked,      \* the path of the last call, if the language and the
                      \* string list are still those of the call
          calls       \* calls of get() so far

storeVars == <<files, docs, strList, langCode, dic, stack, visited, result, status,
               asked, calls>>

-----------------------------------------------------------------------------
Null == [t |-> "null", v |-> <<>>]
Text(x) == [t |-> "str", v |-> x]
Raised(e) == [t |-> "exception", v |-> e]

JsonEmpty(val) == val.t = "null" \/ (val.t \in {"array", "object"} /\ val.v = <<>>)

\* json2String(): what a value leaves in the text, or the exception for a
\* value that has no text.
Json2String(val) ==
    CASE val.t = "null" -> <<>>
      [] val.t = "bool" -> <<Text(IF val.v THEN "1" ELSE "0")>>
      [] val.t \in {"str", "exception"} -> <<val>>
      [] OTHER -> <<Raised("InvalidType")>>

TrueWords == {"yes", "true", "on", "1"}
FalseWords == {"no", "false", "off", "0"}

Bool(b) == [t |-> "bool", v |-> b]

\* The value of a condition, or the exception of the code.
CondValue(val) ==
    IF JsonEmpty(val) THEN Bool(FALSE)
    ELSE IF val.t \in {"bool", "exception"} THEN val
    ELSE IF val.t \in {"array", "object"} THEN Raised("InvalidType")
    ELSE IF val.v \in TrueWords THEN Bool(TRUE)
    ELSE IF val.v \in FalseWords THEN Bool(FALSE)
    ELSE Raised("Unparseable")

\* resolveVariable() for a name <<first, second>>: a local variable hides an
\* entry of the dictionary.  Where the code throws out_of_range there is no value,
\* and all its callers catch that; a name without a first part is not caught.
Resolve(var, dictionary, scope) ==
    LET first == var[1]
        base == IF first \in DOMAIN scope THEN <<scope[first]>>
                ELSE IF first \in DOMAIN dictionary THEN <<dictionary[first]>>
                ELSE <<>>
    IN  IF first = "" THEN <<Raised("InvalidName")>>
        ELSE IF base = <<>> \/ var[2] = "" THEN base
        ELSE IF base[1].t = "object" /\ var[2] \in DOMAIN base[1].v
             THEN <<base[1].v[var[2]]>>
        ELSE <<>>

\* getString(): the language of the store first, then the default section.
GetString(list, lang, name) ==
    IF <<lang, name>> \in DOMAIN list THEN <<list[<<lang, name>>]>>
    ELSE IF <<"", name>> \in DOMAIN list THEN <<list[<<"", name>>]>>
    ELSE <<Text("???")>>

\* getLocalizedTemplateName(): the default has to exist for the localized
\* version to be looked for.  <<>> is the empty name.
LocalizedFor(lang, known, path) ==
    IF path \notin known THEN <<>>
    ELSE IF lang # "" /\ <<lang>> \o path \in known THEN <<lang>> \o path
    ELSE path

Localized(path) == LocalizedFor(langCode, DOMAIN docs, path)

-----------------------------------------------------------------------------
Top == Last(stack)
Block == Last(Top.blocks)
Tree == docs[Top.doc]
Item == Tree[Block.idx]
Running == status = "expanding"
AtItem(type) == Running /\ stack # <<>> /\ Block.idx # NoItem /\ Item.t = type

WithTop(blocks, scope) ==
    [stack EXCEPT ![Len(stack)].blocks = blocks, ![Len(stack)].scope = scope]

\* A block of activation a moves on to the next sibling.
NextSibling(a) ==
    LET b == Last(a.blocks)
    IN  [a EXCEPT !.blocks[Len(a.blocks)].idx = docs[a.doc][b.idx].idxNextSibling]

Advance == [stack EXCEPT ![Len(stack)] = NextSibling(Top)]

\* An exception leaves all activations; what they had produced is lost, and
\* visitedTemplates with it, which is local to get().
Throw(e) ==
    /\ status' = "ready"
    /\ stack' = <<>>
    /\ visited' = <<>>
    /\ result' = <<Raised(e)>>

Fixed == UNCHANGED <<files, docs, strList, langCode>>
Same == Fixed /\ UNCHANGED <<dic, asked, calls>>

\* The caller of an activation that has returned: the block with the include
\* command, or get().
Return(rest) ==
    /\ stack' = IF rest = <<>> THEN <<>>
                ELSE [rest EXCEPT ![Len(rest)] = NextSibling(Last(rest))]
    /\ status' = IF rest = <<>> THEN "ready" ELSE "expanding"

(***************************************************************************)
(* getTemplate_Recursive() up to the call of getSyntaxSubtree(), with the   *)
(* activations below it in rest.  An empty template returns at once, and     *)
(* leaves its name in visitedTemplates.                                      *)
(***************************************************************************)
Enter(path, rest, seen, text) ==
    LET name == Localized(path)
        new == [doc |-> name, scope |-> <<>>, blocks |-> <<[idx |-> 1, todo |-> <<>>]>>]
    IN  IF name = <<>> THEN Throw("NoSuchTemplate")
        ELSE IF Contains(seen, name) THEN Throw("Circular")
        ELSE /\ visited' = Append(seen, name)
             /\ result' = text
             /\ IF docs[name] = <<>> THEN Return(rest)
                ELSE stack' = Append(rest, new) /\ status' = "expanding"

-----------------------------------------------------------------------------
StoreInit ==
    /\ files \in Files
    /\ docs = <<>>
    /\ strList = <<>>
    /\ langCode = ""
    /\ dic = <<>>
    /\ stack = <<>>
    /\ visited = <<>>
    /\ result = <<>>
    /\ status = "new"
    /\ asked = <<>>
    /\ calls = 0

\* The constructor: files that cannot be read or parsed are left out.
Construct ==
    /\ status = "new"
    /\ \E unreadable \in Unreadable :
         LET good == {path \in DOMAIN files \ unreadable : ~Parse(files[path]).err}
         IN  /\ docs' = [path \in good |-> Parse(files[path]).tree]
             /\ status' = IF good = {} THEN "invalid" ELSE "ready"
    /\ UNCHANGED <<files, strList, langCode, dic, stack, visited, result, asked, calls>>

\* The language and the string list may change between calls (as long as
\* there is a call to come).
SetLang ==
    /\ status = "ready" /\ calls < MaxCalls
    /\ asked' = <<>>
    /\ \E lang \in Langs \ {langCode} : langCode' = lang
    /\ UNCHANGED <<files, docs, strList, dic, stack, visited, result, status, calls>>

\* setStringlist() with a file that can be read; otherwise nothing changes.
SetStringlist ==
    /\ status = "ready" /\ calls < MaxCalls
    /\ asked' = <<>>
    /\ \E list \in StrLists \ {strList} : strList' = list
    /\ UNCHANGED <<files, docs, langCode, dic, stack, visited, result, status, calls>>

Get ==
    /\ status = "ready"
    /\ calls < MaxCalls
    /\ calls' = calls + 1
    /\ \E path \in Requests, d \in Dics :
         /\ asked' = path
         /\ dic' = d
         /\ Enter(path, <<>>, <<>>, <<>>)
    /\ Fixed

-----------------------------------------------------------------------------
\* The handlers of getSyntaxSubtree(), one for each type of item.
Emit(text) ==
    /\ result' = result \o text
    /\ stack' = Advance
    /\ UNCHANGED <<visited, status>>

StaticText == AtItem("Static") /\ Emit(Item.text) /\ Same

Variable ==
    /\ AtItem("Variable")
    /\ LET token == Item.text
           found == Resolve(token.var, dic, Top.scope)
           text == IF token.k = "str"
                   THEN IF token.name = "" THEN <<>> ELSE GetString(strList, langCode, token.name)
                   ELSE IF found = <<>> THEN <<>> ELSE Json2String(found[1])
       IN  IF text # <<>> /\ text[1].t = "exception" THEN Throw(text[1].v) ELSE Emit(text)
    /\ Same

IncludeCmd == AtItem("IncludeCmd") /\ Enter(Item.text.path, stack, visited, result) /\ Same

Condition ==
    /\ AtItem("Condition")
    /\ LET found == Resolve(Item.text.var, dic, Top.scope)
           val == CondValue(IF found = <<>> THEN Null ELSE found[1])
           inside == val.v # Item.text.inv /\ Item.idxFirstChild # NoItem
           block == [idx |-> Item.idxFirstChild, todo |-> <<>>]
       IN  IF val.t = "exception" THEN Throw(val.v)
           ELSE /\ stack' = IF inside THEN WithTop(Append(Top.blocks, block), Top.scope)
                            ELSE Advance
                /\ UNCHANGED <<visited, result, status>>
    /\ Same

\* localScopeVars.emplace(): an entry that is there already stays.
Emplace(scope, name, val) ==
    [x \in DOMAIN scope \cup {name} |-> IF x \in DOMAIN scope THEN scope[x] ELSE val]

\* Slip: the variable of a loop outlives the round.
EraseNothing(scope, name) == scope

Erase(scope, name) == [x \in DOMAIN scope \ {name} |-> scope[x]]

\* Slip: the next round starts with the same element again.
LoopRoundAgain(blocks, scope, todo) ==
    LET loop == Tree[Last(blocks).idx]
        block == [idx |-> loop.idxFirstChild, todo |-> todo]
        there == [Top EXCEPT !.blocks = blocks, !.scope = scope]
    IN  IF todo = <<>> THEN [stack EXCEPT ![Len(stack)] = NextSibling(there)]
        ELSE WithTop(Append(blocks, block), Emplace(scope, loop.text.var, todo[1]))

\* The stack with the loop of the innermost block in its next round, or past
\* the loop if todo is empty.
LoopRound(blocks, scope, todo) ==
    LET loop == Tree[Last(blocks).idx]
        block == [idx |-> loop.idxFirstChild, todo |-> Tail(todo)]
        there == [Top EXCEPT !.blocks = blocks, !.scope = scope]
    IN  IF todo = <<>> THEN [stack EXCEPT ![Len(stack)] = NextSibling(there)]
        ELSE WithTop(Append(blocks, block), Emplace(scope, loop.text.var, todo[1]))

ForLoop ==
    /\ AtItem("ForLoop")
    /\ LET found == Resolve(Item.text.list, dic, Top.scope)
           isList == /\ Item.idxFirstChild # NoItem
                     /\ found # <<>>
                     /\ found[1].t = "array"
       IN  IF Item.idxFirstChild # NoItem /\ found # <<>> /\ found[1].t = "exception"
           THEN Throw(found[1].v)
           ELSE /\ stack' = LoopRound(Top.blocks, Top.scope,
                                      IF isList THEN found[1].v ELSE <<>>)
                /\ UNCHANGED <<visited, result, status>>
    /\ Same

\* The end of a block: the body of a loop, the body of a condition, or a
\* whole template, whose name is taken off visitedTemplates.
EndBlock ==
    /\ Running /\ Block.idx = NoItem
    /\ LET blocks == Front(Top.blocks)
           opener == Tree[Last(blocks).idx]
       IN  IF blocks = <<>>
           THEN /\ Return(Front(stack))
                /\ visited' = Front(visited)
           ELSE /\ stack' = IF opener.t = "ForLoop"
                            THEN LoopRound(blocks, Erase(Top.scope, opener.text.var),
                                           Block.todo)
                            ELSE LoopRound(blocks, Top.scope, <<>>)
                /\ UNCHANGED <<visited, status>>
    /\ UNCHANGED result
    /\ Same

Expand == StaticText \/ Variable \/ IncludeCmd \/ Condition \/ ForLoop \/ EndBlock

\* A store that nobody asks anything any more.
Idle == status \in {"invalid", "ready"} /\ UNCHANGED storeVars

StoreNext == Construct \/ SetLang \/ SetStringlist \/ Get \/ Expand \/ Idle

\* get() is plain sequential code: once called it takes its steps.
StoreSpec == StoreInit /\ [][StoreNext]_storeVars /\ WF_storeVars(Expand)

-----------------------------------------------------------------------------
(***************************************************************************)
(* Type correctness, and that exactly a running call has activations: every *)
(* block stands at an item of its tree or at its end, and only the           *)
(* variables of open loops are in a scope.                                   *)
(***************************************************************************)
StoreTypeOK ==
    /\ status \in {"new", "ready", "expanding", "invalid"}
    /\ DOMAIN docs \subseteq DOMAIN files
    /\ calls \in 0..MaxCalls
    /\ langCode \in Langs \cup {""}
    /\ (stack # <<>>) = Running
    /\ \A i \in DOMAIN stack :
         LET a == stack[i]
             open == {docs[a.doc][a.blocks[b].idx] : b \in 1..(Len(a.blocks) - 1)}
         IN  /\ a.doc \in DOMAIN docs
             /\ a.blocks # <<>>
             /\ \A b \in DOMAIN a.blocks : a.blocks[b].idx \in DOMAIN docs[a.doc] \cup {NoItem}
             /\ DOMAIN a.scope \subseteq {j.text.var : j \in {o \in open : o.t = "ForLoop"}}

\* The store holds the templates that are well nested and only those, and the links
\* of every tree lead through all of its items in the order of the text, none twice.
\* Unless the text has an empty token, the items hold the text, without loss.
ParsedAsWritten ==
    /\ status = "new" => \A path \in DOMAIN files :
                             WellFormed(files[path]) = ~Parse(files[path]).err
    /\ calls = 0 => \A path \in DOMAIN docs :
                        /\ WellFormed(files[path])
                        /\ IsDocumentTree(docs[path])
                        /\ NoEmptyToken(files[path]) => HoldsText(docs[path], files[path])
    /\ status = "invalid" => docs = <<>>

\* What the comment in parse() says: an empty token is skipped, and the text goes on
\* after its closing bracket.  The code goes on after its two opening brackets.
EmptyTokensAreSkipped ==
    calls = 0 => \A path \in DOMAIN docs : HoldsText(docs[path], files[path])

\* A template that is being expanded is not entered again, and visitedTemplates
\* has every one of them, in their order: this is what ends the recursion.
NeverActiveTwice ==
    /\ \A i, j \in DOMAIN stack : stack[i].doc = stack[j].doc => i = j
    /\ \E f \in [DOMAIN stack -> DOMAIN visited] :
         /\ \A i \in DOMAIN stack : visited[f[i]] = stack[i].doc
         /\ \A i, j \in DOMAIN stack : i < j => f[i] < f[j]

\* Every call of get() comes to an end.
GetReturns == Running ~> ~Running
=============================================================================
