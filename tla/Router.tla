------------------------------- MODULE Router -------------------------------
(***************************************************************************)
(* bottle's Router (etisnoop-stat-server/bottle.py): rules are added, and  *)
(* a request is answered by the first rule that matches its path.  To find *)
(* it, the router keeps static rules in a table and joins dynamic ones     *)
(* into regular expressions of a limited number of groups.                 *)
(*                                                                         *)
(* A pattern is the set of paths it matches; a rule's target is the number *)
(* of the add() that brought it.  Filters that convert parts of the path   *)
(* are data.                                                               *)
(***************************************************************************)
EXTENDS Integers, Sequences, FiniteSets, SequencesExt

CONSTANTS
  Paths,        \* paths of requests
  Methods,      \* methods of rules, "ANY" among them
  MaxGroups,    \* _MAX_GROUPS_PER_PATTERN
  MaxRules      \* rules added

ASSUME RouterAssumption ==
  /\ Paths # {}
  /\ "ANY" \in Methods
  /\ MaxGroups \in Nat \ {0} /\ MaxRules \in Nat

VARIABLES
  added,          \* the calls of add(), in order (for the properties)
  static,         \* static[method][path]: target, or NoTarget
  dyna_routes,    \* dyna_routes[method]: dynamic rules in order
  groups,         \* _groups[pattern, method]: index in dyna_routes, or 0
  dyna_regexes    \* dyna_regexes[method]: the rules, cut into expressions

routerVars == <<added, static, dyna_routes, groups, dyna_regexes>>

NoTarget == 0
Patterns == (SUBSET Paths) \ {{}}
Verbs == (Methods \ {"ANY"}) \cup {"HEAD"}

RouterInit ==
  /\ added = << >>
  /\ static = [m \in Methods |-> [p \in Paths |-> NoTarget]]
  /\ dyna_routes = [m \in Methods |-> << >>]
  /\ groups = [k \in Patterns \X Methods |-> 0]
  /\ dyna_regexes = [m \in Methods |-> << >>]

NewTarget == Len(added) + 1

Remember(isStatic, pattern, method) ==
  added' = Append(added, [static |-> isStatic, pattern |-> pattern,
                          method |-> method])

\* Mutant: the last expression is left out if it is not full.
CompileFull(rules) ==
  [c \in 1..(Len(rules) \div MaxGroups) |->
     SubSeq(rules, (c - 1) * MaxGroups + 1, c * MaxGroups)]

\* range(0, len(all_rules), maxgroups); a slice ends with the list.
Compile(rules) ==
  [c \in 1..((Len(rules) + MaxGroups - 1) \div MaxGroups) |->
     SubSeq(rules, (c - 1) * MaxGroups + 1,
            IF c * MaxGroups < Len(rules) THEN c * MaxGroups ELSE Len(rules))]

AddStatic(path, method) ==
  /\ static' = [static EXCEPT ![method][path] = NewTarget]
  /\ Remember(TRUE, {path}, method)
  /\ UNCHANGED <<dyna_routes, groups, dyna_regexes>>

\* A pattern the method has already gets the new target in its old place.
AddDynamic(pattern, method) ==
  LET rule == [pattern |-> pattern, target |-> NewTarget]
      known == groups[<<pattern, method>>]
      rules == IF known > 0
                 THEN [dyna_routes[method] EXCEPT ![known] = rule]
                 ELSE Append(dyna_routes[method], rule)
  IN /\ dyna_routes' = [dyna_routes EXCEPT ![method] = rules]
     /\ groups' = [groups EXCEPT ![<<pattern, method>>] =
                     IF known > 0 THEN @ ELSE Len(rules)]
     /\ dyna_regexes' = [dyna_regexes EXCEPT ![method] = Compile(rules)]
     /\ Remember(FALSE, pattern, method)
     /\ UNCHANGED static

RouterNext ==
  /\ Len(added) < MaxRules
  /\ \E m \in Methods :
       \/ \E p \in Paths : AddStatic(p, m)
       \/ \E pattern \in Patterns : AddDynamic(pattern, m)

RouterSpec == RouterInit /\ [][RouterNext]_routerVars
----------------------------------------------------------------------------
(* match() *)

MethodsFor(verb) ==
  IF verb = "HEAD" THEN <<"PROXY", "HEAD", "GET", "ANY">>
  ELSE <<"PROXY", verb, "ANY">>

\* The alternative of a joined expression that matches first.
FirstIn(expression, path) ==
  SelectInSeq(expression, LAMBDA rule : path \in rule.pattern)

MatchDynamic(method, path) ==
  LET c == SelectInSeq(dyna_regexes[method],
                       LAMBDA expression : FirstIn(expression, path) > 0)
  IN IF c = 0 THEN NoTarget
     ELSE LET expression == dyna_regexes[method][c]
          IN expression[FirstIn(expression, path)].target

MatchMethod(method, path) ==
  IF method \notin Methods THEN NoTarget
  ELSE IF static[method][path] # NoTarget THEN static[method][path]
  ELSE MatchDynamic(method, path)

\* The methods of another rule for the path; any makes the answer 405.  For
\* a static rule the code collects the request's own verb.
Allowed(verb, path) ==
  LET others == Methods \ Range(MethodsFor(verb))
  IN {verb : m \in {n \in others : static[n][path] # NoTarget}} \cup
     {m \in others : MatchDynamic(m, path) # NoTarget}

Match(verb, path) ==
  LET methods == MethodsFor(verb)
      i == SelectInSeq(methods, LAMBDA m : MatchMethod(m, path) # NoTarget)
  IN IF i > 0 THEN [status |-> 200, target |-> MatchMethod(methods[i], path)]
     ELSE [status |-> IF Allowed(verb, path) # {} THEN 405 ELSE 404,
           target |-> NoTarget]
----------------------------------------------------------------------------
(* What the documentation of Router says, on the list of rules. *)

\* The rules for a method that match a path, static ones first.
Candidates(method, path) ==
  {i \in DOMAIN added : added[i].method = method /\ path \in added[i].pattern}

SamePattern(i, j) ==
  /\ added[i].pattern = added[j].pattern
  /\ added[i].static = added[j].static

\* The first rule stands where its pattern was first added, and was replaced
\* by the last one with the same pattern.
FirstRule(method, path) ==
  LET cands  == Candidates(method, path)
      statics == {i \in cands : added[i].static}
      pool   == IF statics # {} THEN statics ELSE cands
      first  == CHOOSE i \in pool : \A j \in pool : i <= j
      same   == {j \in pool : SamePattern(j, first)
                               /\ added[j].method = added[first].method}
  IN IF cands = {} THEN NoTarget ELSE CHOOSE j \in same : \A k \in same : k <= j

\* A request is answered by the first rule, of the first method in order, that
\* matches: static rules before dynamic ones, a rule added again in the place
\* of the old one, however the expressions are cut (Router.add, _compile and
\* match, lines 318-448).  If there is none, the answer is 405 when a rule of
\* another method matches and 404 otherwise.
MatchesFirstRule ==
  \A verb \in Verbs, path \in Paths :
    LET methods == MethodsFor(verb)
        targets == [i \in DOMAIN methods |-> FirstRule(methods[i], path)]
        i == SelectInSeq(targets, LAMBDA t : t # NoTarget)
    IN Match(verb, path) =
         IF i > 0 THEN [status |-> 200, target |-> targets[i]]
         ELSE [status |-> IF \E m \in Methods : Candidates(m, path) # {}
                            THEN 405 ELSE 404,
               target |-> NoTarget]
=============================================================================
