------------------------------- MODULE GenQuery -------------------------------
(***************************************************************************)
(* A general query written as text, "select A, sum(B) where C = 'x' and    *)
(* ...": the columns, the names they go by, and the parser that turns the  *)
(* text into a genQueryInp_t.  Text is a sequence of tokens: keywords,     *)
(* single punctuation marks and spaces, and pieces of words; a column's    *)
(* name is two of them.                                                    *)
(***************************************************************************)
EXTENDS Integers, Sequences, SequencesExt

-----------------------------------------------------------------------------
(* The columns, by the table of the catalog they are in.                   *)

Numbered(base, prefix, fields) ==
  {[id |-> base + i - 1, name |-> <<prefix, fields[i]>>] : i \in DOMAIN fields}

R_ZONE_MAIN ==
  Numbered(101, "ZONE", <<"ID", "NAME", "TYPE", "CONNECTION", "COMMENT",
      "CREATE_TIME", "MODIFY_TIME">>)
R_USER_MAIN ==
  Numbered(201, "USER", <<"ID", "NAME", "TYPE", "ZONE", "DN_INVALID", "INFO",
      "COMMENT", "CREATE_TIME", "MODIFY_TIME">>)
R_RESC_MAIN ==
  Numbered(301, "RESC", <<"ID", "NAME", "ZONE_NAME", "TYPE_NAME", "CLASS_NAME", "LOC",
      "VAULT_PATH", "FREE_SPACE", "INFO", "COMMENT", "CREATE_TIME", "MODIFY_TIME",
      "STATUS", "FREE_SPACE_TIME", "CHILDREN", "CONTEXT", "PARENT", "PARENT_CONTEXT">>)
R_DATA_MAIN ==
  Numbered(401, "DATA", <<"ID", "COLL_ID", "NAME", "REPL_NUM", "VERSION", "TYPE_NAME",
      "SIZE">>)
  \cup Numbered(409, "DATA", <<"RESC_NAME", "PATH", "OWNER_NAME", "OWNER_ZONE",
      "REPL_STATUS", "STATUS", "CHECKSUM", "EXPIRY", "MAP_ID", "COMMENTS",
      "CREATE_TIME", "MODIFY_TIME", "MODE", "RESC_HIER", "RESC_ID">>)
R_COLL_MAIN ==
  Numbered(500, "COLL", <<"ID", "NAME", "PARENT_NAME", "OWNER_NAME", "OWNER_ZONE",
      "MAP_ID", "INHERITANCE", "COMMENTS", "CREATE_TIME", "MODIFY_TIME", "TYPE",
      "INFO1", "INFO2">>)
R_USER_GROUP ==
  Numbered(900, "USER", <<"GROUP_ID", "GROUP_NAME">>)
R_RULE_EXEC ==
  Numbered(1000, "RULE", <<"EXEC_ID", "EXEC_NAME", "EXEC_REI_FILE_PATH",
      "EXEC_USER_NAME", "EXEC_ADDRESS", "EXEC_TIME", "EXEC_FREQUENCY",
      "EXEC_PRIORITY", "EXEC_ESTIMATED_EXE_TIME", "EXEC_NOTIFICATION_ADDR",
      "EXEC_LAST_EXE_TIME", "EXEC_STATUS">>)
R_TOKN_MAIN ==
  Numbered(1100, "TOKEN", <<"NAMESPACE", "ID", "NAME", "VALUE", "VALUE2", "VALUE3",
      "COMMENT">>)
R_OBJT_AUDIT ==
  Numbered(1200, "AUDIT", <<"OBJ_ID", "USER_ID", "ACTION_ID", "COMMENT",
      "CREATE_TIME", "MODIFY_TIME">>)
R_USER_MAIN_OF ==
  Numbered(1300, "COLL", <<"USER_NAME", "USER_ZONE">>)
  \cup Numbered(1310, "DATA", <<"USER_NAME", "USER_ZONE">>)
  \cup Numbered(1320, "RESC", <<"USER_NAME", "USER_ZONE">>)
R_SERVER_LOAD ==
  Numbered(1400, "SL", <<"HOST_NAME", "RESC_NAME", "CPU_USED", "MEM_USED",
      "SWAP_USED", "RUNQ_LOAD", "DISK_SPACE", "NET_INPUT", "NET_OUTPUT", "CREATE_TIME">>)
R_SERVER_LOAD_DIGEST ==
  Numbered(1500, "SLD", <<"RESC_NAME", "LOAD_FACTOR", "CREATE_TIME">>)
R_USER_AUTH ==
  Numbered(1600, "USER", <<"AUTH_ID", "DN">>)
R_RULE_MAIN ==
  Numbered(1700, "RULE", <<"ID", "VERSION", "BASE_NAME", "NAME", "EVENT", "CONDITION",
      "BODY", "RECOVERY", "STATUS", "OWNER_NAME", "OWNER_ZONE", "DESCR_1", "DESCR_2",
      "INPUT_PARAMS", "OUTPUT_PARAMS", "DOLLAR_VARS", "ICAT_ELEMENTS", "SIDEEFFECTS",
      "COMMENT", "CREATE_TIME", "MODIFY_TIME", "BASE_MAP_VERSION",
      "BASE_MAP_BASE_NAME", "BASE_MAP_OWNER_NAME", "BASE_MAP_OWNER_ZONE",
      "BASE_MAP_COMMENT", "BASE_MAP_CREATE_TIME", "BASE_MAP_MODIFY_TIME",
      "BASE_MAP_PRIORITY">>)
R_RULE_DVM ==
  Numbered(1800, "DVM", <<"ID", "VERSION", "BASE_NAME", "EXT_VAR_NAME", "CONDITION",
      "INT_MAP_PATH", "STATUS", "OWNER_NAME", "OWNER_ZONE", "COMMENT", "CREATE_TIME",
      "MODIFY_TIME", "BASE_MAP_VERSION", "BASE_MAP_BASE_NAME", "BASE_MAP_OWNER_NAME",
      "BASE_MAP_OWNER_ZONE", "BASE_MAP_COMMENT", "BASE_MAP_CREATE_TIME",
      "BASE_MAP_MODIFY_TIME">>)
R_RULE_FNM ==
  Numbered(1900, "FNM", <<"ID", "VERSION", "BASE_NAME", "EXT_FUNC_NAME",
      "INT_FUNC_NAME", "STATUS", "OWNER_NAME", "OWNER_ZONE", "COMMENT", "CREATE_TIME",
      "MODIFY_TIME", "BASE_MAP_VERSION", "BASE_MAP_BASE_NAME", "BASE_MAP_OWNER_NAME",
      "BASE_MAP_OWNER_ZONE", "BASE_MAP_COMMENT", "BASE_MAP_CREATE_TIME",
      "BASE_MAP_MODIFY_TIME">>)
R_QUOTA ==
  Numbered(2000, "QUOTA", <<"USER_ID", "RESC_ID", "LIMIT", "OVER", "MODIFY_TIME">>)
  \cup Numbered(2010, "QUOTA", <<"USAGE_USER_ID", "USAGE_RESC_ID", "USAGE",
      "USAGE_MODIFY_TIME">>)
  \cup Numbered(2020, "QUOTA", <<"RESC_NAME", "USER_NAME", "USER_ZONE", "USER_TYPE">>)
R_MICROSRVC ==
  Numbered(2100, "MSRVC", <<"ID", "NAME", "SIGNATURE", "DOXYGEN", "VARIATIONS",
      "STATUS", "OWNER_NAME", "OWNER_ZONE", "COMMENT", "CREATE_TIME", "MODIFY_TIME",
      "VERSION", "HOST", "LOCATION", "LANGUAGE", "TYPE_NAME", "MODULE_NAME">>)
  \cup Numbered(2150, "MSRVC", <<"VER_OWNER_NAME", "VER_OWNER_ZONE", "VER_COMMENT",
      "VER_CREATE_TIME", "VER_MODIFY_TIME">>)
R_TICKET ==
  Numbered(2200, "TICKET", <<"ID", "STRING", "TYPE", "USER_ID", "OBJECT_ID",
      "OBJECT_TYPE", "USES_LIMIT", "USES_COUNT", "EXPIRY", "CREATE_TIME",
      "MODIFY_TIME", "WRITE_FILE_COUNT", "WRITE_FILE_LIMIT", "WRITE_BYTE_COUNT",
      "WRITE_BYTE_LIMIT">>)
  \cup Numbered(2220, "TICKET", <<"ALLOWED_HOST_TICKET_ID", "ALLOWED_HOST",
      "ALLOWED_USER_TICKET_ID", "ALLOWED_USER_NAME", "ALLOWED_GROUP_TICKET_ID",
      "ALLOWED_GROUP_NAME", "DATA_NAME", "DATA_COLL_NAME", "COLL_NAME", "OWNER_NAME",
      "OWNER_ZONE">>)

Attributes(base, prefix) ==
  Numbered(base, prefix, <<"ATTR_NAME", "ATTR_VALUE", "ATTR_UNITS", "ATTR_ID", "CREATE_TIME",
                           "MODIFY_TIME">>)
R_META_MAIN ==
  UNION {Attributes(600, "META_DATA"), Attributes(610, "META_COLL"),
         Attributes(630, "META_RESC"), Attributes(640, "META_USER"),
         Attributes(650, "META_RESC_GROUP"), Attributes(660, "META_RULE"),
         Attributes(670, "META_MSRVC"), Attributes(680, "META_MET2"),
         Numbered(620, "META_NAMESPACE", <<"COLL", "DATA", "RESC", "USER", "RESC_GROUP",
                                           "RULE", "MSRVC", "MET2">>)}

Access(base, prefix, of) ==
  Numbered(base, prefix, <<"ACCESS_TYPE", "ACCESS_NAME", "TOKEN_NAMESPACE", "ACCESS_USER_ID", of>>)
R_OBJT_ACCESS ==
  UNION {Access(700, "DATA", "ACCESS_DATA_ID"), Access(710, "COLL", "ACCESS_COLL_ID"),
         Access(720, "RESC", "ACCESS_RESC_ID"), Access(730, "META", "ACCESS_META_ID"),
         Access(740, "RULE", "ACCESS_RULE_ID"), Access(750, "MSRVC", "ACCESS_MSRVC_ID")}

Columns ==
  UNION {R_ZONE_MAIN, R_USER_MAIN, R_RESC_MAIN, R_DATA_MAIN, R_COLL_MAIN, R_META_MAIN,
         R_OBJT_ACCESS, R_USER_GROUP, R_RULE_EXEC, R_TOKN_MAIN, R_OBJT_AUDIT, R_USER_MAIN_OF,
         R_SERVER_LOAD, R_SERVER_LOAD_DIGEST, R_USER_AUTH, R_RULE_MAIN, R_RULE_DVM,
         R_RULE_FNM, R_QUOTA, R_MICROSRVC, R_TICKET}

(* columnNames, the table the names are looked up in, in its order: the    *)
(* columns from the first to the last of each pair.                        *)
namesOfObjects ==
  <<<<101, 107>>, <<201, 204>>, <<1601, 1601>>, <<206, 209>>, <<301, 308>>, <<314, 314>>,
    <<309, 313>>, <<315, 318>>, <<401, 407>>, <<421, 421>>, <<409, 409>>, <<422, 422>>,
    <<410, 420>>, <<423, 423>>, <<700, 704>>, <<500, 509>>, <<710, 714>>, <<600, 605>>,
    <<610, 615>>, <<620, 627>>, <<630, 635>>, <<650, 655>>, <<640, 645>>, <<660, 665>>>>
namesOfRules ==
  <<<<670, 675>>, <<680, 685>>, <<900, 901>>, <<1000, 1011>>, <<1100, 1106>>, <<1200, 1205>>,
    <<1400, 1409>>, <<1500, 1502>>, <<1721, 1721>>, <<1728, 1728>>, <<1722, 1727>>,
    <<1700, 1720>>, <<1812, 1818>>, <<1800, 1811>>, <<1911, 1917>>, <<1900, 1910>>,
    <<2000, 2004>>, <<2010, 2013>>, <<2021, 2023>>, <<2020, 2020>>>>
namesOfTickets ==
  <<<<2100, 2110>>, <<2116, 2116>>, <<2111, 2115>>, <<2150, 2154>>, <<730, 734>>, <<720, 724>>,
    <<740, 744>>, <<750, 754>>, <<2200, 2207>>, <<2211, 2214>>, <<2208, 2210>>, <<2220, 2230>>>>
FromTo(run) == [i \in 1 .. run[2] - run[1] + 1 |-> run[1] + i - 1]
RunsOf(runs) == FlattenSeq([r \in DOMAIN runs |-> FromTo(runs[r])])
columnIds == RunsOf(namesOfObjects \o namesOfRules \o namesOfTickets)
NamesOf(ids) ==
  [i \in DOMAIN ids |->
     [columnId |-> ids[i], columnName |-> (CHOOSE c \in Columns : c.id = ids[i]).name]]
columnNames == NamesOf(columnIds)

NO_COLUMN_NAME_FOUND == -1107000
FirstOf(S) == CHOOSE i \in S : \A j \in S : i <= j
\* The first entry of a table that passes the test, or what stands for none.
Lookup(table, Test(_), Field(_), none) ==
  IF \E i \in DOMAIN table : Test(table[i])
  THEN Field(table[FirstOf({i \in DOMAIN table : Test(table[i])})]) ELSE none
getAttrIdFromAttrName(cname) ==
  Lookup(columnNames, LAMBDA c : c.columnName = cname, LAMBDA c : c.columnId, NO_COLUMN_NAME_FOUND)
getAttrNameFromAttrId(cid) ==
  Lookup(columnNames, LAMBDA c : c.columnId = cid, LAMBDA c : c.columnName, << >>)

-----------------------------------------------------------------------------
(* The parser.                                                             *)

INPUT_ARG_NOT_WELL_FORMED_ERR == -1084000

\* strchr, strstr: where the token is, 0 when it is not there.
At(s, tokens, from) ==
  LET found == {i \in from .. Len(s) : s[i] \in tokens}
  IN IF found = {} THEN 0 ELSE FirstOf(found)
trimWS(s) ==
  LET solid == {i \in DOMAIN s : s[i] # " "}
  IN IF solid = {} THEN << >>
     ELSE SubSeq(s, FirstOf(solid), CHOOSE i \in solid : \A j \in solid : j <= i)

\* [op, name]: op is the text before a bracket, the name what follows it.
separateSelFuncFromAttr(t) ==
  LET open == At(t, {"("}, 1)
      close == At(t, {")"}, open + 1)
  IN IF open = 0 THEN [op |-> << >>, name |-> t]
     ELSE [op |-> SubSeq(t, 1, open - 1),
           name |-> SubSeq(t, open + 1, IF close = 0 THEN Len(t) ELSE close - 1)]

SelVals ==
  <<[op |-> {"sum", "SUM"}, val |-> 4], [op |-> {"min", "MIN"}, val |-> 2],
    [op |-> {"max", "MAX"}, val |-> 3], [op |-> {"avg", "AVG"}, val |-> 5],
    [op |-> {"count", "COUNT"}, val |-> 6],
    [op |-> {"order", "ORDER"}, val |-> 1024], [op |-> {"order_desc", "ORDER_DESC"}, val |-> 2048]>>
getSelVal(op) ==
  LET known == {i \in DOMAIN SelVals : Len(op) = 1 /\ op[1] \in SelVals[i].op}
  IN IF known = {} THEN 1 ELSE SelVals[FirstOf(known)].val

\* goodStrExpr: brackets closed, outside quotes, and every quote closed.  A
\* bracket that closes nothing is passed over.
QuoteBlind(expr) ==
  LET step(st, c) ==
        CASE c = "(" -> [st EXCEPT !.open = @ + 1]
          [] c = ")" /\ st.open > 0 -> [st EXCEPT !.open = @ - 1]
          [] OTHER -> st
  IN FoldLeft(step, [quote |-> "", open |-> 0], expr).open = 0
goodStrExpr(expr) ==
  LET step(st, c) ==
        CASE st.quote # "" -> IF c = st.quote THEN [st EXCEPT !.quote = ""] ELSE st
          [] st.quote = "" /\ c \in {"'", "quotes"} -> [st EXCEPT !.quote = c]
          [] st.quote = "" /\ c = "(" -> [st EXCEPT !.open = @ + 1]
          [] st.quote = "" /\ c = ")" /\ st.open > 0 -> [st EXCEPT !.open = @ - 1]
          [] OTHER -> st
  IN FoldLeft(step, [quote |-> "", open |-> 0], expr) = [quote |-> "", open |-> 0]

\* The space before the first "and" with a whole expression before it.
getCondFromString(t) ==
  LET ands == {i \in 1 .. Len(t) - 2 :
                 /\ t[i] = " " /\ t[i + 1] \in {"and", "AND"} /\ t[i + 2] = " "
                 /\ goodStrExpr(SubSeq(t, 1, i - 1))}
  IN IF ands = {} THEN 0 ELSE FirstOf(ands)

\* A result, the status and the pairs, before those of the rest of the text.
Refused(status) == [status |-> status, inp |-> << >>]
Before(pair, rest) == [status |-> rest.status, inp |-> <<pair>> \o rest.inp]

\* The columns to select, up to the first that nobody knows.
RECURSIVE Selected(_)
SelectedAs(id, val, t, comma) ==
  CASE id < 0 -> Refused(id)
    [] id >= 0 /\ comma = 0 -> [status |-> 0, inp |-> <<<<id, val>>>>]
    [] OTHER -> Before(<<id, val>>, Selected(SubSeq(t, comma + 1, Len(t))))
SelectedPart(part, t, comma) ==
  SelectedAs(getAttrIdFromAttrName(part.name), getSelVal(part.op), t, comma)
SelectedUpTo(t, comma) ==
  SelectedPart(separateSelFuncFromAttr(trimWS(IF comma = 0 THEN t ELSE SubSeq(t, 1, comma - 1))),
               t, comma)
Selected(t) == SelectedUpTo(t, At(t, {","}, 1))

RECURSIVE Conditions(_)
ConditionAs(id, cond, space, t, and) ==
  CASE id < 0 -> Refused(id)
    [] id >= 0 /\ and = 0 -> [status |-> 0, inp |-> <<<<id, SubSeq(cond, space + 1, Len(cond))>>>>]
    [] OTHER -> Before(<<id, SubSeq(cond, space + 1, Len(cond))>>,
                       Conditions(SubSeq(t, and + 3, Len(t))))
Condition(cond, space, t, and) ==
  IF space = 0 THEN Refused(INPUT_ARG_NOT_WELL_FORMED_ERR)
  ELSE ConditionAs(getAttrIdFromAttrName(SubSeq(cond, 1, space - 1)), cond, space, t, and)
ConditionOf(cond, t, and) == Condition(cond, At(cond, {" "}, 1), t, and)
ConditionUpTo(t, and) == ConditionOf(trimWS(IF and = 0 THEN t ELSE SubSeq(t, 1, and - 1)), t, and)
Conditions(t) == ConditionUpTo(t, getCondFromString(t))

\* The keyword in lower case, wherever it is, before the one in upper case.
KeyWord(s, lower, upper, from) ==
  IF At(s, {lower}, from) > 0 THEN At(s, {lower}, from) ELSE At(s, {upper}, from)

Filled(status, selectInp, sqlCondInp) ==
  [status |-> status, selectInp |-> selectInp, sqlCondInp |-> sqlCondInp]
WithConditions(selected, conditions) == Filled(conditions.status, selected.inp, conditions.inp)
WithSelected(selected, s, f) ==
  IF selected.status < 0 \/ f = 0 THEN Filled(selected.status, selected.inp, << >>)
  ELSE WithConditions(selected, Conditions(SubSeq(s, f + 2, Len(s))))
FromKeyWords(s, t, f) ==
  IF t = 0 THEN Filled(INPUT_ARG_NOT_WELL_FORMED_ERR, << >>, << >>)
  ELSE WithSelected(Selected(SubSeq(s, t + 2, IF f = 0 THEN Len(s) ELSE f - 1)), s, f)
FromSelect(s, t) == FromKeyWords(s, t, KeyWord(s, "where", "WHERE", t))
fillGenQueryInpFromStrCond(s) == FromSelect(s, KeyWord(s, "select", "SELECT", 1))
=============================================================================
