------------------------------- MODULE MspTypes -------------------------------
(***************************************************************************)
(* A parameter of a rule carries its type as a name and its value behind a *)
(* void pointer: those who fill it and those who read it have to agree on  *)
(* what is there, and those who take it on who frees it.                   *)
(***************************************************************************)
EXTENDS Integers

-----------------------------------------------------------------------------
(* Numbers and strings.  A value has a text, "null", "word" or "numeral",  *)
(* and the whole number that a numeral stands for.  The C types are scaled *)
(* down, in their order: a float keeps FloatBits bits of a number, an int  *)
(* has more and a rodsLong_t more than that.  An int stands for itself or, *)
(* below 0, for a status.                                                  *)

FloatBits == 3
IntBits == 5
LongBits == 8
MaxInt == 2 ^ (IntBits - 1) - 1

USER_PARAM_TYPE_ERR == -10
SYS_NULL_INPUT == -11

\* The last bits of a number, as a signed number.
Narrowed(n, bits) == ((n + 2 ^ (bits - 1)) % 2 ^ bits) - 2 ^ (bits - 1)

\* The nearest number a float can be, of two the even one.
Magnitude(n) == IF n < 0 THEN -n ELSE n
Unit(n) == 2 ^ (CHOOSE e \in 0 .. LongBits : /\ Magnitude(n) < 2 ^ (FloatBits + e)
                                             /\ e = 0 \/ Magnitude(n) >= 2 ^ (FloatBits + e - 1))
ToFloat(n) ==
  LET quotient == Magnitude(n) \div Unit(n)
      over == 2 * (Magnitude(n) % Unit(n))
      up == over > Unit(n) \/ (over = Unit(n) /\ quotient % 2 = 1)
      nearest == Unit(n) * (IF up THEN quotient + 1 ELSE quotient)
  IN IF n < 0 THEN -nearest ELSE nearest

\* A parameter; as: the C type the value was stored with, which has to be the one
\* it is loaded with.
Param(type, as, val) == [type |-> type, as |-> as, val |-> val]
Stored(val, number) == [val EXCEPT !.number = number]
fillIntInMsParam(val) == Param("INT_MS_T", "int", Stored(val, Narrowed(val.number, IntBits)))
fillFloatInMsParam(val) == Param("FLOAT_MS_T", "float", Stored(val, ToFloat(val.number)))
fillDoubleInMsParam(val) == Param("DOUBLE_MS_T", "rodsLong_t", val)
fillCharInMsParam(val) == Param("FLOAT_MS_T", "float", Stored(val, Narrowed(val.number, FloatBits)))
fillStrInMsParam(val) == Param("STR_MS_T", "char *", val)
fillBufLenInMsParam(val) == Param("BUF_LEN_MS_T", "int", Stored(val, Narrowed(val.number, IntBits)))
Filled(filler, val) ==
  CASE filler = "int" -> fillIntInMsParam(val)
    [] filler = "float" -> fillFloatInMsParam(val)
    [] filler = "double" -> fillDoubleInMsParam(val)
    [] filler = "char" -> fillCharInMsParam(val)
    [] filler = "str" -> fillStrInMsParam(val)
    [] filler = "bufLen" -> fillBufLenInMsParam(val)

IsNull(param) == param.val.text = "null"
\* atoi and strtof make 0 of what is no numeral.
Atoi(param) == IF param.val.text = "numeral" THEN Narrowed(param.val.number, IntBits) ELSE 0
Strtof(param) == IF param.val.text = "numeral" THEN ToFloat(param.val.number) ELSE 0

parseMspForPosInt(param) ==
  CASE param.type = "STR_MS_T" -> IF IsNull(param) THEN SYS_NULL_INPUT ELSE Atoi(param)
    [] param.type \in {"INT_MS_T", "BUF_LEN_MS_T"} -> param.val.number
    [] param.type = "DOUBLE_MS_T" -> Narrowed(param.val.number, IntBits)
    [] OTHER -> USER_PARAM_TYPE_ERR

\* The readers below return a status and where the result goes.
Read(out) == [status |-> 0, out |-> out]
ReadNothing(status) == [status |-> status, out |-> "none"]
\* The bytes that are there, taken for another type.
Loaded(param, as) == Read(IF param.as = as THEN param.val.number ELSE "garbage")
ReadStrtof(param) == IF IsNull(param) THEN ReadNothing(SYS_NULL_INPUT) ELSE Read(Strtof(param))

parseMspForFloat(param) ==
  CASE param.type = "STR_MS_T" -> ReadStrtof(param)
    [] param.type \in {"INT_MS_T", "FLOAT_MS_T"} -> Loaded(param, "float")
    [] OTHER -> ReadNothing(USER_PARAM_TYPE_ERR)
\* A string is read by strtof here too.
parseMspForDouble(param) ==
  CASE param.type = "STR_MS_T" -> ReadStrtof(param)
    [] param.type = "DOUBLE_MS_T" -> Loaded(param, "double")
    [] OTHER -> ReadNothing(USER_PARAM_TYPE_ERR)
\* NULL for anything else than a string.
parseMspForStr(param) ==
  IF param.type = "STR_MS_T" /\ ~IsNull(param) THEN param.val ELSE "NULL"

-----------------------------------------------------------------------------
(* The inputs of requests.  A parser is given a parameter, a cache or NULL *)
(* and whether the result is to be in the cache; it returns where the      *)
(* result is, and who then has the options, condInput, the parameter came  *)
(* with and has to free them.                                              *)

SYS_INTERNAL_NULL_INPUT_ERR == "SYS_INTERNAL_NULL_INPUT_ERR"
Failed(status) == [status |-> status, out |-> "none", owners |-> {"param"}]
Result(out, owners) == [status |-> "ok", out |-> out, owners |-> owners]
Cache(cache) == IF cache = "NULL" THEN "malloc'ed" ELSE "cache"

\* keys: whether a KeyValPair_MS_T has "DATA_NAME" and "COLL_NAME".
\* The options move into the cache with the rest: the original is zeroed.
Moved(param, cache, outputToCache) ==
  IF outputToCache THEN Result(Cache(cache), {Cache(cache)}) ELSE Result("param", {"param"})

parseMspForDataObjInp(param, cache, outputToCache) ==
  CASE param.type = "STR_MS_T" /\ cache # "NULL" -> Result("cache", {"param"})
    [] param.type = "DataObjInp_MS_T" /\ (cache # "NULL" \/ ~outputToCache) ->
         Moved(param, cache, outputToCache)
    [] param.type = "KeyValPair_MS_T" /\ param.keys /\ cache # "NULL" -> Result("cache", {"param"})
    [] param.type = "KeyValPair_MS_T" /\ ~param.keys -> Failed(USER_PARAM_TYPE_ERR)
    [] param.type \notin {"STR_MS_T", "DataObjInp_MS_T", "KeyValPair_MS_T"} ->
         Failed(USER_PARAM_TYPE_ERR)
    [] OTHER -> Failed(SYS_INTERNAL_NULL_INPUT_ERR)

parseMspForCollInp(param, cache, outputToCache) ==
  CASE param.type = "STR_MS_T" -> Result(Cache(cache), {"param"})
    [] param.type = "CollInp_MS_T" -> Moved(param, cache, outputToCache)
    [] OTHER -> Failed(USER_PARAM_TYPE_ERR)

\* A DataObjInp_MS_T is copied, options and all, and the original kept.
parseMspForDataObjCopyInp(param) ==
  CASE param.type \in {"STR_MS_T", "DataObjCopyInp_MS_T"} ->
         Result(IF param.type = "STR_MS_T" THEN "cache" ELSE "param", {"param"})
    [] param.type = "DataObjInp_MS_T" -> Result("cache", {"param", "cache"})
    [] param.type = "KeyValPair_MS_T" /\ param.keys -> Result("cache", {"param"})
    [] OTHER -> Failed(USER_PARAM_TYPE_ERR)

parseMspForExecCmdInp(param) ==
  CASE param.type = "STR_MS_T" -> Result("cache", {"param"})
    [] param.type = "ExecCmd_MS_T" -> Result("param", {"param"})
    [] OTHER -> Failed(USER_PARAM_TYPE_ERR)
=============================================================================
