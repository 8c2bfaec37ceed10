----------------------------- MODULE CheckMulti -----------------------------
(***************************************************************************)
(* Commands by their names: aliases, scripts, built-in checks and          *)
(* check_multi, which runs other commands one after the other under one    *)
(* deadline and one limit.                                                 *)
(*                                                                         *)
(* A command is [name, args].  env has the tables of the configuration and *)
(* what a command would do: [takes, exit], its seconds and its exit code,  *)
(* negative for a signal; dies tells how long it survives its time limit.  *)
(* ctx holds the values of the context: deadline, depth, the configs that  *)
(* are active and the limit of the counter, 0 while there is no counter.   *)
(* st is what a call changes: the clock, the counter, the children run and *)
(* the states of the commands that ended.                                  *)
(***************************************************************************)
EXTENDS ChecksNet

DefaultCheckTimeout == 60
DefaultMaxRecursionDepth == 5
NoDeadline == 1000000
Fresh == [now |-> 0, count |-> 0, ran |-> 0, log |-> <<>>]
Background == [deadline |-> NoDeadline, depth |-> 0, active |-> {}, max |-> 0]

Earlier(a, b) == IF a < b THEN a ELSE b
Answer(state, st) == [state |-> state, err |-> FALSE, st |-> st]
Logged(name, state, st) ==
    Answer(state, [st EXCEPT !.log = Append(@, [name |-> name, state |-> state])])

\* getCheck.  An alias is never looked up from an alias.
GetCheck(env, name, skipAlias) ==
    CASE ~skipAlias /\ name \in DOMAIN env.aliases -> "alias"
      [] name \in DOMAIN env.wraps -> "wrap"
      [] name = "check_multi" -> "multi"
      [] name \in DOMAIN env.builtins -> "builtin"
      [] OTHER -> "none"

\* fixReturnCodes: nothing but 0 to 3 leaves the agent.
FixReturnCodes(exit) == IF exit \in 0..3 THEN exit ELSE 3

\* runExternalCheckString.  A command that runs into its limit gets its
\* signals one by one, and is waited for.
RunExternal(ctx, name, p, timeout, st) ==
    LET limit == Earlier(ctx.deadline, st.now + timeout)
    IN IF st.now >= limit THEN Logged(name, 3, st)
       ELSE IF st.now + p.takes < limit
       THEN Logged(name, FixReturnCodes(p.exit), [st EXCEPT !.now = @ + p.takes])
       ELSE Logged(name, 3, [st EXCEPT !.now = limit + p.dies])

\* A built-in check does not look at the deadline.
RunBuiltin(name, p, st) == Logged(name, p.exit, [st EXCEPT !.now = @ + p.takes])

\* CheckAlias.Check: its own arguments have a place for those of the caller,
\* or not.
AliasArgs(a, args) == IF a.takesArgs THEN a.args \o args ELSE a.args

----------------------------------------------------------------------------
(* check_multi                                                             *)

MultiBuild ==
    [Blank EXCEPT !.name = "check_multi", !.emptyState = 3, !.overrideCounts = TRUE,
        !.args = [command |-> Arg("tagged", FALSE), config |-> Arg("text", FALSE),
                  var |-> Arg("vars", FALSE)],
        !.alias = [warning_count |-> (Text("warn_count") :> Text("warning_count")),
                   critical_count |-> (Text("crit_count") :> Text("critical_count"))],
        !.defWarn = <<W("warning_count"), W(">"), N(0, "")>>,
        !.defCrit = <<W("critical_count"), W(">"), N(0, "")>>,
        !.defUnknown = <<W("unknown_count"), W(">"), N(0, "")>>]

\* buildConfigChecks and buildChildChecks.  Of variables only their names
\* matter: one that is required has a default or is given.
Tags(children) == {children[i].tag : i \in DOMAIN children}
ConfigChecks(env, config) ==
    IF config = "" THEN <<>>
    ELSE [i \in DOMAIN env.configs[config].checks |->
            env.configs[config].checks[i] @@ [inline |-> FALSE]]
InlineChecks(cd) ==
    [i \in DOMAIN Given(cd, "command") |->
        [tag |-> Given(cd, "command")[i].tag, inline |-> TRUE] @@ Given(cd, "command")[i].val]
BadConfig(cd, env, config) ==
    LET given == {Given(cd, "var")[i].tag : i \in DOMAIN Given(cd, "var")}
    IN /\ config # ""
       /\ \/ config \notin DOMAIN env.configs
          \/ ~(env.configs[config].required \subseteq given)
ChildChecks(cd, env, config) ==
    LET list == IF BadConfig(cd, env, config) THEN <<>>
                ELSE ConfigChecks(env, config) \o InlineChecks(cd)
    IN IF Cardinality(Tags(list)) = Len(list) THEN list ELSE <<>>

\* A plausible slip: each check_multi counts for itself.
CounterOfEach(ctx, st) == [st EXCEPT !.count = 0]

\* The counter belongs to the outermost check_multi of a call.
SharedCounter(ctx, st) == IF ctx.max = 0 THEN [st EXCEPT !.count = 0] ELSE st

\* A plausible slip: the time limit is left to the children.
ExpiredNever(ctx, st) == FALSE

Expired(ctx, st) == st.now >= ctx.deadline

\* recordChildResult.  A child that the filter hides counts nowhere; entry
\* thresholds make it worse than it is, and never better.
EntryKeywords ==
    {"name", "tag", "command", "output", "shortoutput", "status", "state"}
Status == <<"OK", "WARNING", "CRITICAL", "UNKNOWN">>
ChildEntry(c, state) ==
    [name |-> Text(c.tag), tag |-> Text(c.tag), command |-> Text(c.name),
     state |-> Num(state), status |-> Text(Status[state + 1]),
     _state |-> Num(state), _skip |-> Num(1), _count |-> Num(1)]
RecordChild(cd, c, state) ==
    LET entry == ChildEntry(c, state)
        judged == \E k \in EntryKeywords : HasThreshold(cd, k)
    IN IF ~MatchMapCondition(cd.filter, entry, FALSE) THEN cd
       ELSE [cd EXCEPT !.list = Append(@, entry),
                       !.state = IF judged THEN Escalate(@, StateFor(cd, entry)) ELSE @]

\* What the thresholds see once all children are done.
CountedBy(key) ==
    CASE key = "count" -> 0..3 [] key = "ok_count" -> {0} [] key = "problem_count" -> 1..3
      [] key \in {"warn_count", "warning_count"} -> {1}
      [] key \in {"crit_count", "critical_count"} -> {2}
      [] key = "unknown_count" -> {3}
SumUp(cd) == [cd EXCEPT !.details =
                [k \in DOMAIN Counts(<<>>) |->
                    Num(Len(SelectSeq(cd.list, LAMBDA e : StateOf(e) \in CountedBy(k))))]]

\* The handler of a command with its parsed arguments.
Handler(env, kind, name) ==
    CASE kind = "alias" ->
           [Blank EXCEPT !.name = env.aliases[name].command, !.passthrough = TRUE]
      [] kind = "multi" -> MultiBuild
      [] OTHER -> [Blank EXCEPT !.name = name, !.passthrough = TRUE]
ParseCall(env, cd, args) ==
    IF cd.passthrough /\ cd.name # "check_multi" /\ cd.name \notin DOMAIN env.builtins
    THEN cd ELSE ParseArgs(cd, args)

RECURSIVE RunCheck(_, _, _, _, _, _), RunHandler(_, _, _, _, _, _, _, _)
RECURSIVE MultiCheck(_, _, _, _), RunChildren(_, _, _, _, _)
RECURSIVE ExecuteChildChecks(_, _, _, _, _), AfterChild(_, _, _, _, _)

\* runCheck, which an alias calls again without aliases, without looking at
\* what is allowed, and with a time limit of its own for the command.
TimeLimit(env, kind, name, override) ==
    IF override > 0 THEN override
    ELSE IF kind = "wrap" THEN env.wraps[name].timeout ELSE DefaultCheckTimeout
Allowed(env, kind, c) ==
    CASE kind = "alias" -> env.aliases[c.name].allowArgs \/ c.args = <<>>
      [] kind = "wrap" -> env.wraps[c.name].allowArgs \/ c.args = <<>>
      [] OTHER -> TRUE
RunCheck(env, ctx, c, override, viaAlias, st) ==
    LET kind == GetCheck(env, c.name, viaAlias)
    IN IF kind = "none" \/ ~(viaAlias \/ Allowed(env, kind, c)) THEN Answer(3, st)
       ELSE RunHandler(env, ctx, c, viaAlias, st, kind, TimeLimit(env, kind, c.name, override),
                       ParseCall(env, Handler(env, kind, c.name), c.args))
Outcome(m) == Answer(Finalize(m.cd).state, m.st)
RunHandler(env, ctx, c, viaAlias, st, kind, timeout, cd) ==
    LET inner == [ctx EXCEPT !.deadline = Earlier(@, st.now + timeout + 1)]
    IN IF Failed(cd) \/ cd.help THEN Answer(3, st)
       ELSE CASE kind = "alias" ->
                   LET a == env.aliases[c.name]
                   IN RunCheck(env, inner, [name |-> a.command, args |-> AliasArgs(a, c.args)],
                               timeout, TRUE, st)
              [] kind = "wrap" ->
                   IF env.wraps[c.name].wrapping
                   THEN RunExternal(inner, c.name, env.wraps[c.name], timeout, st)
                   ELSE Answer(3, st)
              [] kind = "builtin" -> RunBuiltin(c.name, env.builtins[c.name], st)
              [] kind = "multi" -> Outcome(MultiCheck(cd, env, inner, st))

\* runChildCheck: an inline command must be known, one of the configuration
\* may also be a program.
RunChildCheck(env, ctx, c, st) ==
    IF GetCheck(env, c.name, FALSE) # "none" THEN RunCheck(env, ctx, c, 0, FALSE, st)
    ELSE IF c.inline THEN [Answer(3, st) EXCEPT !.err = TRUE]
    ELSE RunExternal(ctx, c.name, env.programs[c.name], env.scriptTimeout, st)

\* executeChildChecks
Ended(cd, st) == [cd |-> cd, st |-> st]
ExecuteChildChecks(cd, env, ctx, children, st) ==
    IF children = <<>> THEN Ended(SumUp(cd), st)
    ELSE IF Expired(ctx, st) THEN Ended(Fail(cd, "timed out"), st)
    ELSE IF st.count >= ctx.max
    THEN Ended(Fail(cd, "max checks"), [st EXCEPT !.count = @ + 1])
    ELSE AfterChild(cd, env, ctx, children,
            RunChildCheck(env, ctx, Head(children),
                          [st EXCEPT !.count = @ + 1, !.ran = @ + 1]))
AfterChild(cd, env, ctx, children, r) ==
    IF r.err THEN Ended(Fail(cd, "unknown check command"), r.st)
    ELSE IF Expired(ctx, r.st) THEN Ended(Fail(cd, "timed out"), r.st)
    ELSE ExecuteChildChecks(RecordChild(cd, Head(children), r.state), env, ctx,
                            Tail(children), r.st)

\* Check
RunChildren(cd, env, ctx, children, st) ==
    IF children = <<>> THEN Ended(Fail(cd, "no checks"), st)
    ELSE ExecuteChildChecks(cd, env, ctx, children, st)
MultiCheck(cd, env, ctx, st) ==
    LET config == WordOr(cd, "config", "")
        inner == [deadline |-> Earlier(ctx.deadline, st.now + env.timeout),
                  depth |-> ctx.depth + 1,
                  active |-> ctx.active \union ({config} \ {""}),
                  max |-> IF ctx.max = 0 THEN env.maxChecks ELSE ctx.max]
    IN IF ~env.enabled \/ ctx.depth > DefaultMaxRecursionDepth \/ config \in ctx.active
       THEN Ended(Fail(cd, "check_multi"), st)
       ELSE RunChildren(cd, env, inner, ChildChecks(cd, env, config), SharedCounter(ctx, st))

\* The outermost check_multi, called by runCheck.
Traced(m) == [m.cd EXCEPT !.ran = m.st]
MultiGather(cd, env, pre) ==
    Traced(MultiCheck(cd, env, [Background EXCEPT !.deadline = DefaultCheckTimeout + 1], Fresh))
=============================================================================
