------------------------------ MODULE Helpers ------------------------------
(***************************************************************************)
(* The pure functions of the libraries, each against a definition of what  *)
(* it is for: dto-check, pnpoly, the GPS trips, the urls, random codes,    *)
(* the table borders, soft delete, and the permission list.                *)
(***************************************************************************)
EXTENDS Queries

-----------------------------------------------------------------------------
(* _libs/validator: the messages of nested validation errors *)

\* A forest of errors: parent[n] = 0 for what validateSync returns, told
\* the errors that have constraints.
Errors == 1..4
Forests == {f \in [Errors -> 0..3] : \A n \in Errors : f[n] < n}
ChildrenOf(f, n) == {m \in Errors : f[m] = n}

\* mapChildrenToValidationErrors, as pairs of an error and its prefix
RECURSIVE MapChildren(_, _, _)
MapChildren(f, n, parentPath) ==
    IF ChildrenOf(f, n) = {} THEN <<[error |-> n, prefix |-> <<>>]>>
    ELSE LET path == Append(parentPath, n)
             Item(m) == (IF ChildrenOf(f, m) = {} THEN <<>> ELSE MapChildren(f, m, path))
                        \o <<[error |-> m, prefix |-> path]>>
         IN  FlattenSeq([i \in 1..Cardinality(ChildrenOf(f, n)) |->
                            Item(SetToSeq(ChildrenOf(f, n))[i])])

AsErrorMessageList(f, told) ==
    SelectSeq(FlattenSeq([i \in 1..Cardinality(ChildrenOf(f, 0)) |->
                             MapChildren(f, SetToSeq(ChildrenOf(f, 0))[i], <<>>)]),
              LAMBDA m : m.error \in told)

-----------------------------------------------------------------------------
(* _libs/utils/helper/point-helper, _libs/gps *)

\* The edge from vj to vi crosses the ray from p to the right.  The code's
\* x < (xj - xi) * (y - yi) / (yj - yi) + xi is multiplied out.
CrossesUnsigned(p, vi, vj) ==
    LET left == (p[1] - vi[1]) * (vj[2] - vi[2])
        right == (vj[1] - vi[1]) * (p[2] - vi[2])
    IN  /\ (vi[2] > p[2]) # (vj[2] > p[2])
        /\ left < right
Crosses(p, vi, vj) ==
    LET left == (p[1] - vi[1]) * (vj[2] - vi[2])
        right == (vj[1] - vi[1]) * (p[2] - vi[2])
    IN  /\ (vi[2] > p[2]) # (vj[2] > p[2])
        /\ IF vj[2] > vi[2] THEN left < right ELSE left > right

Pnpoly(p, vs) ==
    LET Previous(i) == IF i = 1 THEN Len(vs) ELSE i - 1
    IN  Cardinality({i \in DOMAIN vs : Crosses(p, vs[i], vs[Previous(i)])}) % 2 = 1

Distance(a, b) == IF a >= b THEN a - b ELSE b - a
EstimateTripKms(a, b) == 111 * (Distance(a[1], b[1]) + Distance(a[2], b[2]))
EstimateTripsKms(ps) ==
    IF Len(ps) < 2 THEN <<>>
    ELSE FoldLeft(LAMBDA acc, gps : [prevGps |-> gps,
                                     kms |-> Append(acc.kms, EstimateTripKms(acc.prevGps, gps))],
                  [prevGps |-> ps[1], kms |-> <<>>], Tail(ps)).kms

-----------------------------------------------------------------------------
(* The urls: a path is its pieces, of which those with a rest are still    *)
(* parameters.  url-helper of _libs has {name}, that of libs :name, which  *)
(* is also found at the beginning of a longer name.                        *)

Names == {"id", "idx"}
Parameter(name) == [value |-> "none", rest |-> name]
FoundIn(name, piece, braces) ==
    /\ piece.value = "none"
    /\ piece.rest = name \/ (~braces /\ piece.rest = "idx" /\ name = "id")

\* replace puts the value in the first place where the text is found
ReplaceFirst(path, name, braces) ==
    LET found == {i \in DOMAIN path : FoundIn(name, path[i], braces)}
        rest(i) == IF path[i].rest = name THEN "" ELSE "x"
    IN  IF found = {} THEN path
        ELSE [path EXCEPT ![Min(found)] = [value |-> name, rest |-> rest(Min(found))]]

UrlGenerate(names, given, braces) ==
    FoldLeft(LAMBDA path, name : IF name \in given THEN ReplaceFirst(path, name, braces) ELSE path,
             [i \in DOMAIN names |-> Parameter(names[i])], names)

-----------------------------------------------------------------------------
(* Codes, soft delete, table borders, permissions *)

CodeTypeMap == [all |-> {"ALL"}, number |-> {"NUMBER"}, alphanumeric |-> {"NUMBER", "UPPER", "LOWER"}]
CharacterTypes == {"UPPER", "LOWER", "NUMBER", "SYMBOL"}
Characters(type) == IF "ALL" \in type THEN CharacterTypes ELSE type \cap CharacterTypes

\* VERIFICATION_CODE_LENGTH: parseInt(...) || 6, so that 0 and NaN are 6
CodeLength(env) == IF env # 0 THEN env ELSE 6
\* the codes of generateRandomString, told by the types of their characters;
\* charAt of an empty string adds nothing
RandomStrings(length, type) ==
    IF Characters(type) = {} \/ length <= 0 THEN {<<>>} ELSE [1..length -> Characters(type)]

\* softDelete and softDeleteMany: the data of the update, or {} for the error
SoftDeleteData(columnName, columnType, columnValue) ==
    IF columnType \notin {"date", "number", "boolean"} THEN {}
    ELSE {[column |-> columnName,
           value |-> IF columnValue # "undefined" THEN columnValue
                     ELSE CASE columnType = "date" -> "now"
                            [] columnType = "number" -> "1"
                            [] columnType = "boolean" -> "false"]}

\* createOuterBorder over cells <<row, column>>: the sides that are drawn
OuterBorder(from, to) ==
    LET Rows_ == from[1]..to[1]
        Columns == from[2]..to[2]
    IN  {<<<<i, from[2]>>, "left">> : i \in Rows_} \cup {<<<<i, to[2]>>, "right">> : i \in Rows_}
        \cup {<<<<from[1], i>>, "top">> : i \in Columns}
        \cup {<<<<to[1], i>>, "bottom">> : i \in Columns}

PermissionSetList == {[featureName |-> f, permission |-> {"VIEW", "CREATE", "UPDATE", "DELETE"}] :
                         f \in {"USER", "ROLE"}}
Permission == {<<"USER", "VIEW">>, <<"USER", "CREATE">>, <<"USER", "UPDATE">>, <<"USER", "DELETE">>,
               <<"ROLE", "VIEW">>, <<"ROLE", "CREATE">>, <<"ROLE", "UPDATE">>, <<"ROLE", "DELETE">>}
RuleNames == UNION {{<<s.featureName, action>> : action \in s.permission} : s \in PermissionSetList}
\* getRolePermission; {} where it aborts because the two lists disagree
RoleMenu == IF RuleNames \subseteq Permission THEN {RuleNames} ELSE {}

-----------------------------------------------------------------------------
Grid == {0, 2, 4}
HelperCalls ==
    \/ \E f \in Forests, told \in SUBSET Errors : call = [fn |-> "errors", parent |-> f, told |-> told]
    \/ \E a, b, c \in Grid \X Grid, p \in (0..4) \X (0..4) :
          call = [fn |-> "pnpoly", point |-> p, vertices |-> <<a, b, c>>]
    \/ \E ps \in BoundedSeq((0..1) \X (0..2), 3) : call = [fn |-> "trips", points |-> ps]
    \/ \E names \in BoundedSeq(Names, 3), given \in SUBSET Names, braces \in BOOLEAN :
          call = [fn |-> "url", names |-> names, given |-> given, braces |-> braces]
    \/ \E env \in -1..3, type \in DOMAIN CodeTypeMap : call = [fn |-> "code", env |-> env, type |-> type]
    \/ \E name \in {"deletedAt", "isEnabled"}, type \in {"date", "number", "boolean", "text"},
          value \in {"undefined", "null", "given"} :
          call = [fn |-> "softDelete", name |-> name, type |-> type, value |-> value]
    \/ \E from, to \in (1..3) \X (1..3) : call = [fn |-> "border", from |-> from, to |-> to]
    \/ call = [fn |-> "menu"]

\* Every error with constraints is told once, under the path of the errors
\* it is nested in; but those of a property that has nested errors as well
\* are lost when the property is not itself nested.
ErrorsTold ==
    call.fn = "errors" =>
        LET f == call.parent
            PathTo[n \in Errors] == IF f[n] = 0 THEN <<>> ELSE Append(PathTo[f[n]], f[n])
            lost == {n \in Errors : f[n] = 0 /\ ChildrenOf(f, n) # {}}
            list == AsErrorMessageList(f, call.told)
        IN  /\ ToSet(list) = {[error |-> n, prefix |-> PathTo[n]] : n \in call.told \ lost}
            /\ IsInjective(list)

\* Inside a triangle pnpoly is true, outside it false, whichever way round
\* its vertices are given; on an edge it may be either.
PointsPlaced ==
    call.fn = "pnpoly" =>
        LET p == call.point
            v == call.vertices
            Side(a, b) == (b[1] - a[1]) * (p[2] - a[2]) - (b[2] - a[2]) * (p[1] - a[1])
            sides == {Side(v[1], v[2]), Side(v[2], v[3]), Side(v[3], v[1])}
        IN  /\ (\A s \in sides : s > 0) \/ (\A s \in sides : s < 0) => Pnpoly(p, v)
            /\ (\E s \in sides : s > 0) /\ (\E s \in sides : s < 0) => ~Pnpoly(p, v)
            /\ Pnpoly(p, v) = Pnpoly(p, Reverse(v))

\* A trip for every two points in a row, as long one way as the other.
TripsMeasured ==
    call.fn = "trips" =>
        LET ps == call.points
        IN  /\ EstimateTripsKms(ps) = [i \in 1..(Len(ps) - 1) |-> EstimateTripKms(ps[i], ps[i + 1])]
            /\ EstimateTripsKms(Reverse(ps)) = Reverse(EstimateTripsKms(ps))

\* A url has every given parameter in every place of it and keeps the
\* others; with :name only if all are given, or a value may land in the
\* beginning of a longer name.
UrlsFilled ==
    call.fn = "url" /\ (call.braces \/ ToSet(call.names) \subseteq call.given) =>
        UrlGenerate(call.names, call.given, call.braces)
            = [i \in DOMAIN call.names |->
                 IF call.names[i] \in call.given THEN [value |-> call.names[i], rest |-> ""]
                 ELSE Parameter(call.names[i])]

\* A code has the configured length, six characters where none is
\* configured, and is empty only where that length is negative.
CodesAsConfigured ==
    call.fn = "code" =>
        \A c \in RandomStrings(CodeLength(call.env), CodeTypeMap[call.type]) :
            /\ call.env > 0 => Len(c) = call.env
            /\ call.env = 0 => Len(c) = 6
            /\ call.type = "number" => ToSet(c) \subseteq {"NUMBER"}

\* A soft delete that names no column and gives no value takes the row off
\* the lists, which ask for deletedAt null.
SoftDeleteHides ==
    call.fn = "softDelete" => \A d \in SoftDeleteData(call.name, call.type, call.value) :
        /\ d.column = call.name
        /\ call.name = "deletedAt" /\ call.value = "undefined" => d.value # "null"

\* The border is drawn where a neighbouring cell is outside the range.
BordersOutside ==
    call.fn = "border" /\ call.from[1] <= call.to[1] /\ call.from[2] <= call.to[2] =>
        LET Range_ == (call.from[1]..call.to[1]) \X (call.from[2]..call.to[2])
            Beside(c, side) == CASE side = "left" -> <<c[1], c[2] - 1>>
                                 [] side = "right" -> <<c[1], c[2] + 1>>
                                 [] side = "top" -> <<c[1] - 1, c[2]>>
                                 [] side = "bottom" -> <<c[1] + 1, c[2]>>
        IN  OuterBorder(call.from, call.to)
                = {cs \in Range_ \X {"left", "right", "top", "bottom"} :
                      Beside(cs[1], cs[2]) \notin Range_}

\* The menu offers every permission there is.
MenuComplete == call.fn = "menu" => RoleMenu = {Permission}

\* Every helper does what it is for.
HelpersAgree ==
    /\ ErrorsTold /\ PointsPlaced /\ TripsMeasured /\ UrlsFilled
    /\ CodesAsConfigured /\ SoftDeleteHides /\ BordersOutside /\ MenuComplete
=============================================================================
