------------------------------ MODULE Matching ------------------------------
(***************************************************************************)
(* What one node of a condition says of data, a function from the keywords *)
(* that are present to values.  A result is <<res, ok>>: without ok it is  *)
(* not determined.                                                         *)
(***************************************************************************)
EXTENDS Thresholds

CONSTANTS
    Holds,      \* pairs <<p, t>>: the text t contains, or is matched by, p
    HoldsFold,  \* the same without regard to case
    BadRegex    \* patterns regexp.Compile refuses

\* getVarValue: the variant of the keyword for the unit, then _value, then
\* the keyword itself.
VarKeys(c) ==
    IF c.unit = "%" THEN <<c.kw \o "_pct", c.kw \o "_value", c.kw>>
    ELSE IF c.unit \in {"B", "B/s"} THEN <<c.kw \o "_bytes", c.kw \o "_value", c.kw>>
    ELSE <<c.kw \o "_value", c.kw>>
FirstOf(keys, data) ==
    {data[keys[i]] : i \in {j \in DOMAIN keys :
        Has(data, keys[j]) /\ \A k \in 1..(j - 1) : ~Has(data, keys[k])}}
GetVarValue(data, c) == FirstOf(VarKeys(c), data)

HasText(v, p) == v = p \/ (IsText(v) /\ IsText(p) /\ <<p.s, v.s>> \in Holds)
HasTextFold(v, p) ==
    HasText(v, p) \/ (IsText(v) /\ IsText(p) /\ <<p.s, v.s>> \in HoldsFold)
ValidRegex(p) == IsText(p) => p.s \notin BadRegex

\* matchSingle for a value v that is there.
Compare(op, v, p) ==
    CASE op = "=" -> v = p
      [] op = "!=" -> v # p
      [] op = "like" -> HasTextFold(v, p)
      [] op = "unlike" -> ~HasTextFold(v, p)
      [] op = "slike" -> HasText(v, p)
      [] op = "not slike" -> ~HasText(v, p)
      [] op = "~" -> ValidRegex(p) /\ HasText(v, p)
      [] op = "!~" -> ValidRegex(p) /\ ~HasText(v, p)
      [] op = "~~" -> ValidRegex(p) /\ HasTextFold(v, p)
      [] op = "!~~" -> ValidRegex(p) /\ ~HasTextFold(v, p)
      [] op = "in" -> v \in p.l
      [] op = "not in" -> v \notin p.l
      [] op \in {"<", "<=", ">", ">="} -> IsNum(v) /\ IsNum(p) /\ CompareNumbers(op, v.n, p.n)
      [] OTHER -> FALSE

MatchSingle(data, c) ==
    LET Of(v) == <<\E x \in v : Compare(c.op, x, c.val), v # {}>>
    IN Of(GetVarValue(data, c))

\* A condition may be switched off for single entries; nothing ever fills a
\* whitelist.
BlacklistWhitelistCheck(data, c) == Id(data) \intersect c.black = {}
SwitchOff(c, entry) == [c EXCEPT !.black = @ \union Id(entry)]

\* For entry, only the conditions at I of the list stay.
Prefer(list, I, entry) ==
    [i \in DOMAIN list |-> IF i \in I THEN list[i] ELSE SwitchOff(list[i], entry)]

\* A group is decided by its first decisive member, undecided if a member is.
MatchGroup(gop, res) ==
    IF gop = "and" /\ <<FALSE, TRUE>> \in res THEN <<FALSE, TRUE>>
    ELSE IF gop = "or" /\ <<TRUE, TRUE>> \in res THEN <<TRUE, TRUE>>
    ELSE IF \E r \in res : ~r[2] THEN <<FALSE, FALSE>>
    ELSE <<gop = "and", TRUE>>

\* Match, of a node whose members have the results res.
MatchNode(data, c, res) ==
    IF c.kind = "none" THEN <<FALSE, TRUE>>
    ELSE IF ~BlacklistWhitelistCheck(data, c) THEN <<FALSE, FALSE>>
    ELSE IF c.group = <<>> THEN MatchSingle(data, c)
    ELSE MatchGroup(c.gop, res)
=============================================================================
