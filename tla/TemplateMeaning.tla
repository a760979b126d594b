--------------------------- MODULE TemplateMeaning ---------------------------
(***************************************************************************)
(* What get() of a TemplateStore has to return, said on the texts           *)
(* themselves and without the syntax tree, the stack and the list of         *)
(* visited templates.                                                        *)
(***************************************************************************)
EXTENDS TemplateStore, FiniteSets

CONSTANTS LocalNames,   \* the names of the variables of loops
          JsonValues   \* what the dictionaries are made of, at any depth

IsException(x) == "t" \in DOMAIN x /\ x.t = "exception"

\* A directory has finitely many files, the parts of a value are values, and
\* nothing that is to be written is an exception.
ASSUME MeaningAssumption ==
    /\ \A f \in Files : IsFiniteSet(DOMAIN f)
    /\ \A f \in Files : \A path \in DOMAIN f : \A i \in DOMAIN f[path] :
         LET p == f[path][i]
         IN  ~IsException(p) /\ (p.k = "for" => p.var \in LocalNames)
    /\ \A d \in Dics : \A x \in DOMAIN d : d[x] \in JsonValues
    /\ \A v \in JsonValues :
         /\ v.t \in {"null", "bool", "str", "array", "object"}
         /\ v.t = "array" => v.v \in Seq(JsonValues)
         /\ v.t = "object" => \A x \in DOMAIN v.v : v.v[x] \in JsonValues
    /\ \A list \in StrLists : \A key \in DOMAIN list : list[key].t = "str"

Scopes == UNION {[D -> JsonValues] : D \in SUBSET LocalNames}

\* The end that belongs to the opening token i of s: the first piece after which
\* fewer blocks are open.
Closer(s, i) ==
    LET depth(j) == Len(Opened(s)[j])
    IN  CHOOSE j \in (i + 1)..Len(s) : /\ depth(j) < depth(i)
                                       /\ \A k \in i..(j - 1) : depth(k) >= depth(i)

\* The texts from each of them on, joined.
Joined(texts) ==
    LET joined[i \in 1..(Len(texts) + 1)] ==
          IF i > Len(texts) THEN <<>> ELSE texts[i] \o joined[i + 1]
    IN  joined

\* What an answer depends on: the texts, the templates, and what they are filled with.
Environment == [files |-> files, known |-> DOMAIN docs, dic |-> dic,
                strList |-> strList, langCode |-> langCode]

\* The scope within a loop over its variable.
Bound(scope, var, val) ==
    [x \in DOMAIN scope \cup {var} |-> IF x = var THEN val ELSE scope[x]]

\* What piece i of s stands for: sub has the meanings of the templates that may
\* be included, within that of the text between the token and its end.
Piece(env, s, sub, i, scope, within) ==
    LET p == s[i]
        found(var) == Resolve(var, env.dic, scope)
        name == LocalizedFor(env.langCode, env.known, p.path)
        cond == CondValue(IF found(p.var) = <<>> THEN Null ELSE found(p.var)[1])
        list == found(p.list)
        round(val) == within[Bound(scope, p.var, val)]
        hasContent == \E j \in (i + 1)..(Closer(s, i) - 1) : ~Hidden(s, j)
    IN  CASE p.k = "var" /\ found(p.var) # <<>> -> Json2String(found(p.var)[1])
          [] p.k = "str" /\ p.name # "" -> GetString(env.strList, env.langCode, p.name)
          [] p.k = "include" ->
               IF name = <<>> THEN <<Raised("NoSuchTemplate")>>
               ELSE IF name \notin DOMAIN sub THEN <<Raised("Circular")>>
               ELSE sub[name]
          [] p.k = "if" ->
               IF cond.t = "exception" THEN <<cond>>
               ELSE IF cond.v # p.inv THEN within[scope] ELSE <<>>
          [] p.k = "for" /\ list # <<>> /\ hasContent ->
               IF list[1].t = "exception" THEN list
               ELSE IF list[1].t # "array" THEN <<>>
               ELSE Joined([j \in DOMAIN list[1].v |-> round(list[1].v[j])])[1]
          [] p.k = "char" -> <<p>>
          [] p.k = "nl" /\ ~Hidden(s, i) -> <<p>>
          [] OTHER -> <<>>

\* The text from piece i to the end of its block, for each scope of variables.
Meaning(env, s, sub) ==
    LET meaning[i \in 1..(Len(s) + 1)] ==
          [scope \in Scopes |->
             IF i > Len(s) THEN <<>>
             ELSE IF s[i].k \in DOMAIN Begin THEN <<>>
             ELSE LET end == IF s[i].k \in Opener THEN Closer(s, i) ELSE i
                  IN  Piece(env, s, sub, i, scope, meaning[i + 1]) \o meaning[end + 1][scope]]
    IN  meaning

\* The meanings of the templates, if only those in free may be used.
Expansion(env) ==
    LET expansion[free \in SUBSET env.known] ==
          [name \in free |->
             Meaning(env, env.files[name], expansion[free \ {name}])[1][<<>>]]
    IN  expansion

\* The first exception of a text, or the text.
FirstException(text) ==
    CHOOSE i \in DOMAIN text : /\ IsException(text[i])
                               /\ \A j \in 1..(i - 1) : ~IsException(text[j])

Outcome(text) ==
    IF \E i \in DOMAIN text : IsException(text[i]) THEN <<text[FirstException(text)]>> ELSE text

\* The answer to a call of get().
Answer(env, path) ==
    LET name == LocalizedFor(env.langCode, env.known, path)
    IN  IF name = <<>> THEN <<Raised("NoSuchTemplate")>>
        ELSE Outcome(Expansion(env)[env.known][name])

\* No loop reuses the variable of a loop around it.
NoShadowing(s) ==
    \A i \in DOMAIN s : s[i].k = "for" =>
        \A j \in (i + 1)..Closer(s, i) : s[j].k = "for" => s[j].var # s[i].var

NoEmptyTemplate == \A path \in DOMAIN docs : docs[path] # <<>>

-----------------------------------------------------------------------------
\* get() returns what the texts mean: all substitutions, loops, conditions and
\* includes in their order and with the right variables, or the first
\* exception on the way.  Three habits of the code are left out: a loop that
\* reuses the variable of a loop around it, the rest of an empty token in the
\* output, and the false alarm about circular includes that an empty template
\* leaves behind.
OutputIsMeaning ==
    (status = "ready" /\ asked # <<>>) =>
        \/ result = Answer(Environment, asked)
        \/ ~NoEmptyTemplate /\ result = <<Raised("Circular")>>
        \/ \E path \in DOMAIN docs : ~NoShadowing(files[path]) \/ ~NoEmptyToken(files[path])

\* The answers are right, and reached by a recursion without a circle.
GetIsRight == OutputIsMeaning /\ NeverActiveTwice
=============================================================================
