------------------------------ MODULE Queries ------------------------------
(***************************************************************************)
(* What a list request means: the query parameters as the pipe transforms  *)
(* and validates them, and the where that the handlers and the helpers of  *)
(* libs/prisma build from them.  One call of one function to a behaviour.  *)
(*                                                                         *)
(* JavaScript values that a function tells apart are strings; a value that *)
(* may be undefined or null is a set of at most one.                       *)
(***************************************************************************)
EXTENDS Integers, FiniteSets, SequencesExt

VARIABLE call         \* [fn |-> the function, its arguments]

CONSTANTS
    Times,            \* instants, a set of integers
    Accounts, RoleIds \* ids

ASSUME TimesAssumption == Times \subseteq Int

Optional(S) == {{}} \cup {{x} : x \in S}

-----------------------------------------------------------------------------
(* _libs/transform *)

Falsy == {"undefined", "null", "''", "0", "false", "NaN"}
Values == Falsy \cup {"'0'", "x"}
Flags == [toClassOnly : {"undefined", "true", "false"},
          toPlainOnly : {"undefined", "true", "false"}]

\* The values a decorator replaces: TransformFalsyTo..., TransformEmptyString...,
\* TransformNull..., TransformUndefined...; TransformIf... is given the test.
Tests == {Falsy, {"''"}, {"null"}, {"undefined"}, {"x"}}

\* The transforms that run registers, each with its options.  A decorator
\* without options registers both.
Registered(o) ==
    LET nonSetToOnly == o.toClassOnly = "undefined" /\ o.toPlainOnly = "undefined"
    IN  (IF nonSetToOnly \/ o.toClassOnly = "true"
         THEN {[of |-> "class", options |-> [o EXCEPT !.toClassOnly = "true"]]} ELSE {})
        \cup
        (IF nonSetToOnly \/ o.toPlainOnly = "true"
         THEN {[of |-> "plain", options |-> [o EXCEPT !.toPlainOnly = "true"]]} ELSE {})

\* class-transformer applies a transform that names both directions in both.
Applies(o, direction) ==
    \/ o.toClassOnly = "true" /\ o.toPlainOnly = "true"
    \/ o.toClassOnly = "true" /\ direction = "class"
    \/ o.toPlainOnly = "true" /\ direction = "plain"

\* raw is what the property held, value what other decorators made of it.
Transformed(test, to, o, direction, raw, value) ==
    LET run == {t \in Registered(o) : Applies(t.options, direction)}
    IN  IF \E t \in run : (IF t.of = "class" THEN raw ELSE value) \in test
        THEN to ELSE value

-----------------------------------------------------------------------------
(* _libs/api-request: page, limit and lists of ids *)

Texts == {"absent", "''", "'0'", "'2'", "'-1'", "'x'"}
Number(text) == CASE text \in {"''", "'0'"} -> {0}
                  [] text = "'2'" -> {2}
                  [] text = "'-1'" -> {-1}
                  [] text = "'x'" -> {}               \* NaN

\* A parameter as the handler gets it, {} where validation refuses it:
\* undefined passes IsOptional and takes the default of pagination.
IntParam(text, default, least) ==
    IF text = "absent"
       \/ Transformed(Falsy, "undefined", [toClassOnly |-> "undefined", toPlainOnly |-> "undefined"],
                      "class", text, "a number") = "undefined"
    THEN {default}
    ELSE {n \in Number(text) : n >= least}
PageParam(text) == IntParam(text, 0, 0)
LimitParam(text) == IntParam(text, 10, 1)

\* IntIdsQuery: parseInt reads the digits a piece begins with, and IsInt
\* refuses NaN.  A parameter given twice is an array of strings: refused.
Pieces == {"'1'", "'2'", "'2x'", "''"}
ParseInt(piece) == CASE piece = "'1'" -> {1}
                     [] piece \in {"'2'", "'2x'"} -> {2}
                     [] piece = "''" -> {}
IdsParam(pieces, twice) ==
    IF twice \/ \E i \in DOMAIN pieces : ParseInt(pieces[i]) = {} THEN {}
    ELSE {UNION {ParseInt(pieces[i]) : i \in DOMAIN pieces}}

-----------------------------------------------------------------------------
(* libs/prisma and the findAll of users *)

WhereKeywordInput(fields, keyword) == {[field |-> f, contains |-> keyword] : f \in fields}

\* mergeWhereInput appends to an array; given an object it assigns to its
\* own parameter, which the caller never sees.
MergeWhereInput(target, where) ==
    IF target.isArray THEN [target EXCEPT !.items = Append(@, where)] ELSE target

\* The where of UserController.findAll with that of UserService.pagination.
UserWhereMerged(q) ==
    LET where == [isArray |-> FALSE, items |-> <<>>]
        OR(k) == WhereKeywordInput({"name", "email", "phone", "account"}, k)
    IN  [userAccountId |-> q.ids, roleId |-> q.roleIds, isRoot |-> FALSE,
         AND |-> IF q.keyword = {} THEN <<>>
                 ELSE MergeWhereInput(where, OR(CHOOSE k \in q.keyword : TRUE)).items]
UserWhere(q) ==
    LET where == [isArray |-> TRUE, items |-> <<>>]
        OR(k) == WhereKeywordInput({"name", "email", "phone"}, k)
                 \cup {[field |-> "account", contains |-> k]}
    IN  [userAccountId |-> q.ids, roleId |-> q.roleIds, isRoot |-> FALSE,
         AND |-> IF q.keyword = {} THEN where.items
                 ELSE MergeWhereInput(where, OR(CHOOSE k \in q.keyword : TRUE)).items]

\* Prisma: undefined is no condition; the keys of a where must all hold, the
\* members of an OR at least one.
UserSelected(w, u) ==
    /\ \A ids \in w.userAccountId : u.account \in ids
    /\ \A roles \in w.roleId : u.roles \cap roles # {}
    /\ u.isRoot = w.isRoot
    /\ \A i \in DOMAIN w.AND : \E c \in w.AND[i] : c.contains \in u.text[c.field]

\* dateTimeRangeInput: the members of its OR, each the bounds it puts on the
\* columns; {} where the function returns undefined.
DateTimeRangeInput(start, end) ==
    CASE start # {} /\ end # {} -> {[startLte |-> end, endGte |-> start, endNull |-> FALSE],
                                    [startLte |-> end, endGte |-> {}, endNull |-> TRUE]}
      [] start = {} /\ end # {} -> {[startLte |-> end, endGte |-> {}, endNull |-> FALSE]}
      [] start # {} /\ end = {} -> {[startLte |-> {}, endGte |-> start, endNull |-> FALSE],
                                    [startLte |-> {}, endGte |-> {}, endNull |-> TRUE]}
      [] OTHER -> {}

\* A comparison with null is not true.
RangeSelected(OR, row) ==
    OR = {} \/ \E c \in OR :
        /\ \A t \in c.startLte : row.start <= t
        /\ \A t \in c.endGte : row.end # {} /\ \A e \in row.end : e >= t
        /\ c.endNull => row.end = {}

SingleDateTimeInput(start, end) == [gte |-> start, lte |-> end]
SingleSelected(w, at) == /\ \A t \in w.gte : at >= t
                         /\ \A t \in w.lte : at <= t

-----------------------------------------------------------------------------
Fields == {"name", "email", "phone", "account"}
UserQueries == [ids : Optional(SUBSET Accounts \ {{}}), roleIds : Optional(SUBSET RoleIds \ {{}}),
                keyword : Optional({"k"})]
Users == [account : Accounts, roles : SUBSET RoleIds, isRoot : BOOLEAN,
          text : [Fields -> SUBSET {"k"}]]

QueryCalls ==
    \/ \E t \in Tests, to \in {"null", "undefined", "y"}, o \in Flags, v \in Values :
          call = [fn |-> "transform", test |-> t, to |-> to, options |-> o, value |-> v]
    \/ \E page, limit \in Texts : call = [fn |-> "page", page |-> page, limit |-> limit]
    \/ \E p \in BoundedSeq(Pieces, 3), twice \in BOOLEAN :
          p # <<>> /\ call = [fn |-> "ids", pieces |-> p, twice |-> twice]
    \/ \E q \in UserQueries, u \in Users : call = [fn |-> "users", query |-> q, user |-> u]
    \/ \E s, e \in Optional(Times), rs \in Times, re \in Optional(Times) :
          call = [fn |-> "range", from |-> s, to |-> e, row |-> [start |-> rs, end |-> re]]
    \/ \E s, e \in Optional(Times), at \in Times :
          call = [fn |-> "single", from |-> s, to |-> e, at |-> at]

\* A decorator of transform-to replaces exactly the values of its test, in
\* the directions its options ask for, in both if they ask for none.
TransformMeans ==
    call.fn = "transform" => \A direction \in {"class", "plain"} :
        LET o == call.options
            asked == \/ o.toClassOnly = "undefined" /\ o.toPlainOnly = "undefined"
                     \/ o.toClassOnly = "true" /\ direction = "class"
                     \/ o.toPlainOnly = "true" /\ direction = "plain"
        IN  Transformed(call.test, call.to, o, direction, call.value, call.value)
                = IF asked /\ call.value \in call.test THEN call.to ELSE call.value

\* What validation lets through never makes pagination divide by zero or
\* skip backwards: an empty parameter means the default, a zero limit is
\* refused and not taken for empty; ids are the numbers that were written.
ParamsMean ==
    /\ call.fn = "page" =>
        /\ PageParam(call.page) = CASE call.page \in {"absent", "''", "'0'"} -> {0}
                                    [] call.page = "'2'" -> {2}
                                    [] OTHER -> {}
        /\ LimitParam(call.limit) = CASE call.limit \in {"absent", "''"} -> {10}
                                      [] call.limit = "'2'" -> {2}
                                      [] OTHER -> {}
    /\ call.fn = "ids" => \A ids \in IdsParam(call.pieces, call.twice) :
        /\ ~call.twice
        /\ ids # {} /\ Cardinality(ids) <= Len(call.pieces)
        /\ \A n \in {1, 2} : n \in ids <=> \E i \in DOMAIN call.pieces : n \in ParseInt(call.pieces[i])

\* The list of users: whoever is not root and passes every filter given,
\* whatever other filters are given with it; the keyword may be in the
\* name, the mail, the phone or the account.
UsersMean ==
    call.fn = "users" =>
        LET q == call.query
            u == call.user
        IN  UserSelected(UserWhere(q), u) <=>
               /\ ~u.isRoot
               /\ q.ids = {} \/ u.account \in UNION q.ids
               /\ q.roleIds = {} \/ \E r \in UNION q.roleIds : r \in u.roles
               /\ q.keyword = {} \/ \E f \in Fields : u.text[f] = q.keyword

\* The two date filters: a row is selected when its interval, open ended
\* where end is null, has an instant in common with the interval asked for.
DatesMean ==
    LET Within(t, from, to) == (\A f \in from : f <= t) /\ (\A e \in to : t <= e)
        Ordered(from, to) == \A f \in from, e \in to : f <= e
    IN  /\ call.fn = "range" /\ Ordered(call.from, call.to)
           /\ Ordered({call.row.start}, call.row.end) =>
              (RangeSelected(DateTimeRangeInput(call.from, call.to), call.row) <=>
                 \E t \in Times : Within(t, call.from, call.to)
                                  /\ Within(t, {call.row.start}, call.row.end))
        /\ call.fn = "single" =>
              (SingleSelected(SingleDateTimeInput(call.from, call.to), call.at)
                 <=> Within(call.at, call.from, call.to))

\* Every filter and parameter of a list selects what it says.
WhereMeans == TransformMeans /\ ParamsMean /\ UsersMean /\ DatesMean
=============================================================================
