----------------------------- MODULE Condition -----------------------------
(***************************************************************************)
(* Conditions: the language of filter=, warn=, crit= and ok=.  A text is   *)
(* already split into tokens here: words [w |-> ..], quoted texts          *)
(* [q |-> ..] and numbers with a unit [n |-> .., u |-> ..].  A value is a  *)
(* number [n |-> ..], a text [s |-> ..] or a list [l |-> ..] of them; data *)
(* is a function from the keywords that are present to values.             *)
(***************************************************************************)
EXTENDS Thresholds, Matching

CONSTANTS
    Now,        \* time.Now() of the parser, in seconds
    Midnight    \* what the word today stands for

\* What OperatorParse makes of a word, "" for an error.
OperatorParse(w) ==
    CASE w \in {"==", "=", "is", "eq"} -> "="
      [] w \in {"!=", "is not", "ne"} -> "!="
      [] w \in {"like", "ilike"} -> "like"
      [] w \in {"unlike", "not like", "not ilike"} -> "unlike"
      [] w \in {"slike", "strictlike"} -> "slike"
      [] w \in {"not slike", "not strictlike"} -> "not slike"
      [] w \in {"~", "regexp", "regex"} -> "~"
      [] w \in {"!~", "not regex", "not regexp"} -> "!~"
      [] w \in {"~~", "regexpi", "regexi"} -> "~~"
      [] w \in {"!~~", "not regexi", "not regexpi"} -> "!~~"
      [] w \in {"<", "lt"} -> "<"
      [] w \in {"<=", "le", "lte"} -> "<="
      [] w \in {">", "gt", "gte"} -> ">"
      [] w \in {">=", "ge"} -> ">="
      [] w \in {"in", "not in"} -> w
      [] OTHER -> ""

GroupOperatorParse(t) ==
    CASE t \in {[w |-> "and"], [w |-> "&&"]} -> "and"
      [] t \in {[w |-> "or"], [w |-> "||"]} -> "or"
      [] OTHER -> ""

\* A node of a condition; only the fields of its kind are meaningful.
Node(kind, kw, op, val, unit, gop, group) ==
    [kind |-> kind, kw |-> kw, op |-> op, val |-> val, unit |-> unit,
     gop |-> gop, group |-> group, black |-> {}]
None == Node("none", "", "", Text(""), "", "", <<>>)
Leaf(kw, op, val, unit) == Node("cond", kw, op, val, unit, "", <<>>)
Group(gop, group) == Node("cond", "", "", Text(""), "", gop, group)

----------------------------------------------------------------------------
(* Units.  attr gives the unit of a check's keywords.                      *)

GetUnit(attr, kw) == IF kw \in DOMAIN attr THEN attr[kw] ELSE "none"

ByteFactor ==
    [u \in {"", "B", "K", "KB", "M", "MB", "KiB", "MiB"} |->
        CASE u \in {"", "B"} -> 1 [] u \in {"K", "KB"} -> 1000
          [] u = "KiB" -> 1024 [] u \in {"M", "MB"} -> 1000 * 1000
          [] u = "MiB" -> 1024 * 1024]

\* Milliseconds of n units: ExpandDuration, nothing for an unknown unit.
DurationMs(n, u) ==
    CASE u = "ms" -> {n} [] u \in {"", "s"} -> {n * 1000}
      [] u = "m" -> {n * 60000} [] u = "h" -> {n * 3600000}
      [] u = "d" -> {n * 86400000} [] u = "w" -> {n * 604800000}
      [] OTHER -> {}

\* Seconds as they are formatted with no digits: half to even.
RoundSeconds(ms) ==
    LET q == ms \div 1000  r == ms % 1000
    IN IF r > 500 \/ (r = 500 /\ q % 2 = 1) THEN q + 1 ELSE q

Bad == [ok |-> FALSE]
Val(v, u) == [ok |-> TRUE, val |-> v, unit |-> u]

\* Without an attribute unit: best effort by the name of the unit.
ExpandUnitByName(n, u) ==
    IF u \in {"KB", "MB", "KiB", "MiB"} THEN Val(Num(n * ByteFactor[u]), "B")
    ELSE IF u \in {"ms", "h", "d", "w"}
         THEN Val(Num(RoundSeconds(CHOOSE m \in DurationMs(n, u) : TRUE)), "s")
         ELSE Val(Num(n), u)

\* A number with a unit, by the unit of its keyword.
ExpandNumber(unit, n, u) ==
    CASE u = "%" -> Val(Num(n), "%")
      [] unit \in {"byte", "bytes/s"} /\ u # "%" ->
            IF u \notin DOMAIN ByteFactor THEN Bad
            ELSE Val(Num(n * ByteFactor[u]), IF unit = "byte" THEN "B" ELSE "B/s")
      [] unit \in {"date", "duration"} /\ u # "%" ->
            IF DurationMs(n, u) = {} THEN Bad
            ELSE LET s == RoundSeconds(CHOOSE m \in DurationMs(n, u) : TRUE)
                 IN Val(Num(IF unit = "date" THEN Now + s ELSE s),
                        IF unit = "date" THEN "" ELSE "s")
      [] unit = "none" /\ u # "%" -> ExpandUnitByName(n, u)
      [] OTHER -> Val(Num(n), u)

\* A plain number has no unit and stays a plain string.
ExpandUnitByType(attr, kw, t) ==
    LET unit == GetUnit(attr, kw) IN
    CASE unit = "bool" ->
            IF t \in {[w |-> x] : x \in {"1", "yes", "true", "enable", "on"}}
            THEN Val(Text("true"), "")
            ELSE IF t \in {[w |-> x] : x \in {"0", "no", "false", "disable", "off"}}
                 THEN Val(Text("false"), "") ELSE Bad
      [] unit = "date" /\ t = [w |-> "today"] -> Val(Num(Midnight), "")
      [] "n" \in DOMAIN t /\ unit # "bool" ->
            IF t.u = "" THEN Val(Num(t.n), "") ELSE ExpandNumber(unit, t.n, t.u)
      [] OTHER -> Val(Text(t.w), "")

\* conditionSetValue: a quoted text is literal unless its keyword has a unit.
ConditionSetValue(attr, kw, t) ==
    IF "q" \in DOMAIN t /\ GetUnit(attr, kw) = "none" THEN Val(Text(t.q), "")
    ELSE ExpandUnitByType(attr, kw, IF "q" \in DOMAIN t THEN [w |-> t.q] ELSE t)
\* The same for an element of a list, which is never expanded.
ListElement(t) ==
    IF "q" \in DOMAIN t THEN Text(t.q)
    ELSE IF "n" \in DOMAIN t THEN Num(t.n) ELSE Text(t.w)

----------------------------------------------------------------------------
(* Parsing.                                                                *)

Open == [w |-> "("]
Close == [w |-> ")"]
Comma == [w |-> ","]
Word(t) == IF "w" \in DOMAIN t THEN t.w ELSE ""

\* ( v , v , v )
ConditionListValue(tok) ==
    LET close == {i \in 2..Len(tok) : tok[i] = Close}
        end == CHOOSE i \in close : \A j \in close : i <= j
        elems == {i \in 2..(end - 1) : i % 2 = 0}
    IN IF close = {} \/ end = 2 \/ end % 2 = 0
          \/ \E i \in 2..(end - 1) : (tok[i] = Comma) # (i % 2 = 1)
       THEN Bad
       ELSE [ok |-> TRUE, unit |-> "",
             val |-> [l |-> {ListElement(tok[i]) : i \in elems}],
             rest |-> SubSeq(tok, end + 1, Len(tok))]

\* conditionFixTokenOperator: "not" joins the word after or before it.
FixTokenOperator(tok) ==
    IF Len(tok) >= 2 /\ Word(tok[1]) = "not"
    THEN <<[w |-> "not " \o Word(tok[2])]>> \o SubSeq(tok, 3, Len(tok))
    ELSE IF Len(tok) >= 2 /\ Word(tok[2]) = "not"
    THEN <<[w |-> Word(tok[1]) \o " not"]>> \o SubSeq(tok, 3, Len(tok))
    ELSE tok

\* One keyword, operator and value.
Operand(attr, kw, tok) ==
    IF tok[1] = Open THEN ConditionListValue(tok)
    ELSE [rest |-> Tail(tok)] @@ ConditionSetValue(attr, kw, tok[1])
Comparison(kw, op, v) ==
    IF op = "" \/ ~v.ok THEN Bad
    ELSE [ok |-> TRUE, cond |-> Leaf(kw, op, v.val, v.unit), rest |-> v.rest]
ConditionNext(attr, kw, tok) ==
    IF Len(tok) < 2 THEN Bad
    ELSE Comparison(kw, OperatorParse(Word(tok[1])), Operand(attr, kw, Tail(tok)))

\* conditionAdd: conditions up to the closing bracket; "and" and "or" do not
\* mix.  A member that begins with a bracket is a group.
Joined(conds, gop) == IF Len(conds) = 1 THEN conds[1] ELSE Group(gop, conds)
Unbracketed(sub) ==
    IF ~sub.ok THEN Bad
    ELSE IF sub.rest = <<>> THEN Bad ELSE [sub EXCEPT !.rest = Tail(@)]
RECURSIVE ConditionAdd(_, _, _, _), AddMember(_, _, _, _), AddedMember(_, _, _, _)
ConditionAdd(attr, tok, conds, gop) ==
    IF tok = <<>> \/ tok[1] = Close
    THEN [ok |-> TRUE, rest |-> tok, cond |-> Joined(conds, gop)]
    ELSE IF conds = <<>> THEN AddMember(attr, tok, conds, gop)
    ELSE LET op == GroupOperatorParse(tok[1])
         IN IF op = "" \/ Len(tok) = 1 \/ gop \notin {"", op} THEN Bad
            ELSE AddMember(attr, Tail(tok), conds, op)
AddMember(attr, tok, conds, gop) ==
    AddedMember(attr, conds, gop,
        IF tok[1] = Open THEN Unbracketed(ConditionAdd(attr, Tail(tok), <<>>, ""))
        ELSE ConditionNext(attr, Word(tok[1]), FixTokenOperator(Tail(tok))))
AddedMember(attr, conds, gop, sub) ==
    IF sub.ok THEN ConditionAdd(attr, sub.rest, Append(conds, sub.cond), gop) ELSE Bad

\* The empty argument is one empty token.
Complete(r) ==
    IF ~r.ok THEN Bad ELSE IF r.rest # <<>> THEN Bad ELSE [ok |-> TRUE, cond |-> r.cond]
NewCondition(attr, tok) ==
    IF tok = <<[w |-> "none"]>> THEN [ok |-> TRUE, cond |-> None]
    ELSE IF tok = <<>> THEN Bad ELSE Complete(ConditionAdd(attr, tok, <<>>, ""))

----------------------------------------------------------------------------
(* Matching.                                                               *)

RECURSIVE Match(_, _)
Match(data, c) ==
    MatchNode(data, c, {Match(data, c.group[i]) : i \in DOMAIN c.group})

MatchAny(datas, c) ==
    LET res == {Match(d, c) : d \in datas}
    IN IF <<TRUE, TRUE>> \in res THEN <<TRUE, TRUE>>
       ELSE <<FALSE, \E r \in res : r[2]>>

\* What a missing value counts as: groups have no operator.
CompareEmpty(c) ==
    c.op \notin {"=", "like", "slike", ">=", ">", "~", "~~", "in"}

MatchAnyOrEmpty(datas, c) ==
    LET r == MatchAny(datas, c) IN IF r[2] THEN r[1] ELSE CompareEmpty(c)

----------------------------------------------------------------------------
(* Walks over the tree of a condition.                                     *)

\* The clone of "none" is an empty condition.
RECURSIVE Clone(_)
Clone(c) == [c EXCEPT !.kind = "cond",
                      !.group = [i \in DOMAIN c.group |-> Clone(c.group[i])]]

RECURSIVE KeywordsOf(_)
KeywordsOf(c) ==
    ({c.kw} \ {""}) \union UNION {KeywordsOf(c.group[i]) : i \in DOMAIN c.group}
ListKeywords(list) == UNION {KeywordsOf(list[i]) : i \in DOMAIN list}

\* TransformMultipleKeywords stops at a node without one of the keywords, a
\* group among them; its callers visit every node.
Retarget(c, srcs, target, pct, bytes) ==
    IF c.kw \notin srcs THEN c
    ELSE [c EXCEPT !.kw = target,
                   !.unit = IF c.kw \in pct THEN "%"
                            ELSE IF c.kw \in bytes THEN "B" ELSE @]
RECURSIVE MapNodes(_, _)
MapNodes(F(_), c) ==
    LET d == F(c)
    IN [d EXCEPT !.group = [i \in DOMAIN d.group |-> MapNodes(F, d.group[i])]]

\* The conditions of a list, or inside of its groups, with one of keywords.
RECURSIVE Using(_, _)
Using(list, kws) ==
    UNION {(IF list[i].kw \in kws THEN {list[i]} ELSE {})
           \union Using(list[i].group, kws) : i \in DOMAIN list}

Permits(list, kw, entry) ==
    \E c \in Using(list, {kw}) : Match(entry, c) = <<TRUE, TRUE>>

\* filterForSpecializedKeyword: if a condition of the list is meant for this
\* entry, the general ones are left out.
FilterForSpecializedKeyword(list, kw, entry) ==
    LET permits == Permits(list, kw, entry)
        Stays(c) == (kw \in KeywordsOf(c)) = permits
        kept == SelectSeq(list, Stays)
    IN [i \in DOMAIN kept |-> Clone(kept[i])]

\* A plausible slip: the general conditions stay in force.
BlacklistNone(list, kw, entry) == list

\* blacklistConditionsNotUsingKeywordIfKeywordIsActive
BlacklistGeneral(list, kw, entry) ==
    IF ~Permits(list, kw, entry) THEN list
    ELSE Prefer(list, {i \in DOMAIN list : kw \in KeywordsOf(list[i])}, entry)

\* disableGenerallizedConditionsForEntry: the nodes with a general keyword
\* and no special one are switched off for the entry.
DisableGeneral(list, entry, special, general) ==
    IF Using(list, special) = {} THEN list
    ELSE LET Off(c) == IF c.kw \in general \ special
                       THEN SwitchOff(c, entry) ELSE c
         IN [i \in DOMAIN list |-> MapNodes(Off, list[i])]

----------------------------------------------------------------------------
(* The range in the performance data.                                       *)

RECURSIVE ConditionToBounds(_, _)
ConditionToBounds(names, c) ==
    BoundsOfNode(names, c, {ConditionToBounds(names, c.group[i]) : i \in DOMAIN c.group})

ThresholdString(names, list) ==
    RangeOf(ComputeThresholdBounds({ConditionToBounds(names, list[i]) : i \in DOMAIN list}))
=============================================================================
