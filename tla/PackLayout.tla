------------------------------ MODULE PackLayout -----------------------------
(***************************************************************************)
(* Where the members of a struct lie: for the compiler that built the      *)
(* caller, and for the packer, which walks the caller's memory guided only *)
(* by a pack instruction, a string such as "int a; struct B_PI;".          *)
(*                                                                         *)
(* A struct is [size, align, members]; a member is what it is, with its    *)
(* size, and its offset.  A pack instruction is the flat sequence of       *)
(* primitive items it stands for, for the packer does not align a nested   *)
(* struct: packing "struct B_PI" is packing B_PI's items in place          *)
(* (packStruct.cpp, packNonpointerItem).  On the 64-bit platforms the code *)
(* supports, pointers and rodsLong_t take 8 bytes, int and enum 4.         *)
(***************************************************************************)
EXTENDS Integers, Sequences, SequencesExt

HEADER_TYPE_LEN == 128
TIME_LEN == 32
NAME_LEN == 64
CHKSUM_LEN == 64
LONG_NAME_LEN == 256
MAX_NAME_LEN == 1088
HUGE_NAME_LEN == 100000
META_STR_LEN == 20480
SHORT_STR_LEN == 32
DIR_LEN == 256
ERR_MSG_LEN == 1024
(* Lengths of arrays of structs, 50 and 64 in the code, are scaled down: *)
(* from the third element on the layout repeats.                         *)
MAX_SQL_ATTR == 3
MAX_NUM_CONFIG_TRAN_THR == 3
CHALLENGE_LEN == 64
RESPONSE_LEN == 16
MAX_PASSWORD_LEN == 50

Prim(kind, size, align) ==
    [size |-> size, align |-> align, members |-> <<[what |-> <<kind, size>>, off |-> 0]>>]
Int4 == Prim("int", 4, 4)
Int2 == Prim("int16", 2, 2)
Dbl == Prim("double", 8, 8)
Ptr == Prim("pointer", 8, 8)
Chars(n) == Prim("char", n, 1)

Up(off, align) == ((off + align - 1) \div align) * align

(* The next member goes to the next multiple of its alignment. *)
Place(lay, t) ==
    LET at == Up(lay.size, t.align)
    IN [size |-> at + t.size,
        align |-> IF t.align > lay.align THEN t.align ELSE lay.align,
        members |-> lay.members \o
            [i \in DOMAIN t.members |-> [t.members[i] EXCEPT !.off = @ + at]]]

Empty == [size |-> 0, align |-> 1, members |-> << >>]
Times(n, s) == FlattenSeq([i \in 1..n |-> s])

(* The compiler: a struct is aligned as its widest member and its size is  *)
(* rounded up to that, so that arrays of it stay aligned.                  *)
Struct(fields) ==
    LET raw == FoldLeft(Place, Empty, fields) IN [raw EXCEPT !.size = Up(@, raw.align)]

(* The packer: item after item from the start of the struct; alignInt,     *)
(* alignDouble and alignAddr move its pointer, strings are not aligned.    *)
Packed(items) == FoldLeft(Place, Empty, items)

(* No struct: the NULL of the API table, or of a call. *)
None == << >>

(* Operators with a fault in their name are variants with that fault. *)
KeyValPairWithoutLen == <<Ptr, Ptr>>
(* The pack instructions (#define ..._PI). *)

InxValPair_PI == <<Int4, Ptr, Ptr>>
GeneralUpdateInp_PI == <<Int4>> \o InxValPair_PI
IRODS_STR_PI == <<Chars(MAX_NAME_LEN)>>
STR_PI == <<Chars(1)>>
CHAR_PI == <<Chars(1)>>
STR_PTR_PI == <<Ptr>>
PI_STR_PI == <<Chars(MAX_NAME_LEN)>>
INT_PI == <<Int4>>
INT16_PI == <<Int2>>
BUF_LEN_PI == <<Int4>>
DOUBLE_PI == <<Dbl>>
MsgHeader_PI == <<Chars(HEADER_TYPE_LEN), Int4, Int4, Int4, Int4>>
StartupPack_PI == <<Int4, Int4, Int4, Chars(NAME_LEN), Chars(NAME_LEN), Chars(NAME_LEN),
    Chars(NAME_LEN), Chars(NAME_LEN), Chars(NAME_LEN), Chars(LONG_NAME_LEN)>>
Version_PI == <<Int4, Chars(NAME_LEN), Chars(NAME_LEN), Int4, Chars(LONG_NAME_LEN), Int4>>
RErrMsg_PI == <<Int4, Chars(ERR_MSG_LEN)>>
RError_PI == <<Int4, Ptr>>
RHostAddr_PI == <<Chars(LONG_NAME_LEN), Chars(NAME_LEN), Int4, Int4>>
RODS_STAT_T_PI == <<Dbl, Int4, Int4, Int4, Int4, Int4, Int4, Int4, Int4, Int4, Int4, Int4, Int4>>
RODS_DIRENT_T_PI == <<Int4, Int4, Int4, Int4, Chars(DIR_LEN)>>
KeyValPair_PI == <<Int4, Ptr, Ptr>>
CS_NEG_PI == <<Int4, Chars(MAX_NAME_LEN)>>
InxIvalPair_PI == <<Int4, Ptr, Ptr>>
DataObjInp_PI == <<Chars(MAX_NAME_LEN), Int4, Int4, Dbl, Dbl, Int4, Int4, Ptr>> \o KeyValPair_PI
OpenedDataObjInp_PI == <<Int4, Int4, Int4, Int4, Dbl, Dbl>> \o KeyValPair_PI
PortList_PI == <<Int4, Int4, Int4, Int4, Chars(LONG_NAME_LEN)>>
PortalOprOut_PI == <<Int4, Int4, Int4, Chars(NAME_LEN)>> \o PortList_PI
DataOprInp_PI == <<Int4, Int4, Int4, Int4, Int4, Int4, Dbl, Dbl>> \o KeyValPair_PI
CollInpNew_PI == <<Chars(MAX_NAME_LEN), Int4, Int4>> \o KeyValPair_PI
GenQueryInp_PI == <<Int4, Int4, Int4, Int4>> \o KeyValPair_PI \o InxIvalPair_PI \o InxValPair_PI
SqlResult_PI == <<Int4, Int4, Ptr>>
GenQueryOut_PI == <<Int4, Int4, Int4, Int4>> \o Times(MAX_SQL_ATTR, SqlResult_PI)
DataObjInfo_PI == <<Chars(MAX_NAME_LEN), Chars(NAME_LEN), Chars(MAX_NAME_LEN), Chars(NAME_LEN),
    Dbl, Chars(NAME_LEN), Chars(NAME_LEN), Chars(MAX_NAME_LEN), Chars(NAME_LEN), Chars(NAME_LEN),
    Int4, Int4, Chars(NAME_LEN), Dbl, Dbl, Int4, Int4, Chars(LONG_NAME_LEN), Chars(SHORT_STR_LEN),
    Chars(TIME_LEN), Chars(TIME_LEN), Chars(TIME_LEN), Chars(NAME_LEN), Int4, Int4,
    Chars(NAME_LEN), Chars(NAME_LEN), Chars(MAX_NAME_LEN), Ptr, Int4, Int4>> \o KeyValPair_PI \o
    <<Chars(MAX_NAME_LEN), Ptr, Dbl>>
TransStat_PI == <<Int4, Dbl>>
TransferStat_PI == <<Int4, Int4, Dbl>>
AuthInfo_PI == <<Chars(NAME_LEN), Int4, Int4, Int4, Chars(NAME_LEN), Chars(NAME_LEN)>>
UserOtherInfo_PI == <<Chars(NAME_LEN), Chars(NAME_LEN), Chars(TIME_LEN), Chars(TIME_LEN)>>
UserInfo_PI == <<Chars(NAME_LEN), Chars(NAME_LEN), Chars(NAME_LEN), Int4>> \o AuthInfo_PI \o
    UserOtherInfo_PI
CollInfo_PI == <<Dbl, Chars(MAX_NAME_LEN), Chars(MAX_NAME_LEN), Chars(NAME_LEN), Chars(NAME_LEN),
    Int4, Int4, Chars(LONG_NAME_LEN), Chars(LONG_NAME_LEN), Chars(TIME_LEN), Chars(TIME_LEN),
    Chars(TIME_LEN), Chars(NAME_LEN), Chars(NAME_LEN), Chars(MAX_NAME_LEN),
    Chars(MAX_NAME_LEN)>> \o KeyValPair_PI \o <<Ptr>>
BytesBuf_PI == <<Int4, Ptr>>
charDataArray_PI == <<Int4, Int4, Ptr>>
strDataArray_PI == <<Int4, Int4, Ptr>>
intDataArray_PI == <<Int4, Int4, Ptr>>
int16DataArray_PI == <<Int4, Int4, Ptr>>
int64DataArray_PI == <<Int4, Int4, Ptr>>
BinBytesBuf_PI == <<Int4, Ptr>>
MsParam_PI == <<Ptr, Ptr, Ptr, Ptr>>
MsParamArray_PI == <<Int4, Int4, Ptr>>
TagStruct_PI == <<Int4, Ptr, Ptr, Ptr>>
RodsObjStat_PI == <<Dbl, Int4, Int4, Chars(NAME_LEN), Chars(NAME_LEN), Chars(NAME_LEN),
    Chars(NAME_LEN), Chars(TIME_LEN), Chars(TIME_LEN), Ptr>>
ReconnMsg_PI == <<Int4, Int4, Int4, Int4>>
VaultPathPolicy_PI == <<Int4, Int4, Int4>>
StrArray_PI == <<Int4, Int4, Ptr>>
IntArray_PI == <<Int4, Ptr>>
SpecColl_PI == <<Int4, Int4, Chars(MAX_NAME_LEN), Chars(MAX_NAME_LEN), Chars(NAME_LEN),
    Chars(MAX_NAME_LEN), Chars(MAX_NAME_LEN), Chars(MAX_NAME_LEN), Int4, Int4>>
SubFile_PI == RHostAddr_PI \o <<Chars(MAX_NAME_LEN), Int4, Int4, Dbl, Ptr>>
CollEnt_PI == <<Int4, Int4, Int4, Int4, Dbl, Ptr, Ptr, Ptr, Ptr, Ptr, Ptr, Ptr, Ptr, Ptr, Ptr,
    Ptr>> \o SpecColl_PI
CollOprStat_PI == <<Int4, Int4, Dbl, Chars(MAX_NAME_LEN)>>
DataSeg_PI == <<Dbl, Dbl>>
FileRestartInfo_PI == <<Chars(MAX_NAME_LEN), Chars(MAX_NAME_LEN), Int4, Int4, Dbl>> \o
    Times(MAX_NUM_CONFIG_TRAN_THR, DataSeg_PI)

(* The structs of the callers (typedef struct ..._t). *)

sqlResult_t == Struct(<<Int4, Int4, Ptr>>)
genQueryOut_t == Struct(<<Int4, Int4, Int4, Int4>> \o Times(MAX_SQL_ATTR, <<sqlResult_t>>))
keyValPair_t == Struct(<<Int4, Ptr, Ptr>>)
bytesBuf_t == Struct(<<Int4, Ptr>>)
rodsHostAddr_t == Struct(<<Chars(LONG_NAME_LEN), Chars(NAME_LEN), Int4, Int4>>)
subFile_t == Struct(<<rodsHostAddr_t, Chars(MAX_NAME_LEN), Int4, Int4, Dbl, Ptr>>)
cs_neg_t == Struct(<<Int4, Chars(MAX_NAME_LEN)>>)
specColl_t == Struct(<<Int4, Int4, Chars(MAX_NAME_LEN), Chars(MAX_NAME_LEN), Chars(NAME_LEN),
    Chars(MAX_NAME_LEN), Chars(MAX_NAME_LEN), Chars(MAX_NAME_LEN), Int4, Int4>>)
collEnt_t == Struct(<<Int4, Int4, Int4, Int4, Dbl, Ptr, Ptr, Ptr, Ptr, Ptr, Ptr, Ptr, Ptr, Ptr,
    Ptr, Ptr, specColl_t>>)
msParam_t == Struct(<<Ptr, Ptr, Ptr, Ptr>>)
msParamArray_t == Struct(<<Int4, Int4, Ptr>>)
dataObjInfo_t == Struct(<<Chars(MAX_NAME_LEN), Chars(NAME_LEN), Chars(MAX_NAME_LEN),
    Chars(NAME_LEN), Dbl, Chars(NAME_LEN), Chars(NAME_LEN), Chars(MAX_NAME_LEN), Chars(NAME_LEN),
    Chars(NAME_LEN), Int4, Int4, Chars(NAME_LEN), Dbl, Dbl, Int4, Int4, Chars(LONG_NAME_LEN),
    Chars(SHORT_STR_LEN), Chars(TIME_LEN), Chars(TIME_LEN), Chars(TIME_LEN), Chars(NAME_LEN), Int4,
    Int4, Chars(NAME_LEN), Chars(NAME_LEN), Chars(MAX_NAME_LEN), Ptr, Int4, Int4, keyValPair_t,
    Chars(MAX_NAME_LEN), Ptr, Dbl>>)
collInfo_t == Struct(<<Dbl, Chars(MAX_NAME_LEN), Chars(MAX_NAME_LEN), Chars(NAME_LEN),
    Chars(NAME_LEN), Int4, Int4, Chars(LONG_NAME_LEN), Chars(LONG_NAME_LEN), Chars(TIME_LEN),
    Chars(TIME_LEN), Chars(TIME_LEN), Chars(NAME_LEN), Chars(NAME_LEN), Chars(MAX_NAME_LEN),
    Chars(MAX_NAME_LEN), keyValPair_t, Ptr>>)
inxIvalPair_t == Struct(<<Int4, Ptr, Ptr>>)
inxValPair_t == Struct(<<Int4, Ptr, Ptr>>)
strArray_t == Struct(<<Int4, Int4, Ptr>>)
intArray_t == Struct(<<Int4, Ptr>>)
transStat_t == Struct(<<Int4, Dbl>>)
transferStat_t == Struct(<<Int4, Int4, Dbl>>)
collOprStat_t == Struct(<<Int4, Int4, Dbl, Chars(MAX_NAME_LEN)>>)
tagStruct_t == Struct(<<Int4, Ptr, Ptr, Ptr>>)
reconnMsg_t == Struct(<<Int4, Int4, Int4, Int4>>)
dataSeg_t == Struct(<<Dbl, Dbl>>)
fileRestartInfo_t == Struct(<<Chars(MAX_NAME_LEN), Chars(MAX_NAME_LEN), Int4, Int4, Dbl>> \o
    Times(MAX_NUM_CONFIG_TRAN_THR, <<dataSeg_t>>))
msgHeader_t == Struct(<<Chars(HEADER_TYPE_LEN), Int4, Int4, Int4, Int4>>)
startupPack_t == Struct(<<Int4, Int4, Int4, Chars(NAME_LEN), Chars(NAME_LEN), Chars(NAME_LEN),
    Chars(NAME_LEN), Chars(NAME_LEN), Chars(NAME_LEN), Chars(LONG_NAME_LEN)>>)
version_t == Struct(<<Int4, Chars(NAME_LEN), Chars(NAME_LEN), Int4, Chars(LONG_NAME_LEN), Int4>>)
vaultPathPolicy_t == Struct(<<Int4, Int4, Int4>>)
rErrMsg_t == Struct(<<Int4, Chars(ERR_MSG_LEN)>>)
rError_t == Struct(<<Int4, Ptr>>)
genQueryInp_t == Struct(<<Int4, Int4, Int4, Int4, keyValPair_t, inxIvalPair_t, inxValPair_t>>)
generalUpdateInp_t == Struct(<<Int4, inxValPair_t>>)
rodsStat_t == Struct(<<Dbl, Int4, Int4, Int4, Int4, Int4, Int4, Int4, Int4, Int4, Int4, Int4,
    Int4>>)
rodsDirent_t == Struct(<<Int4, Int4, Int4, Int4, Chars(DIR_LEN)>>)
authInfo_t == Struct(<<Chars(NAME_LEN), Int4, Int4, Int4, Chars(NAME_LEN), Chars(NAME_LEN)>>)
userOtherInfo_t == Struct(<<Chars(NAME_LEN), Chars(NAME_LEN), Chars(TIME_LEN), Chars(TIME_LEN)>>)
userInfo_t == Struct(<<Chars(NAME_LEN), Chars(NAME_LEN), Chars(NAME_LEN), Int4, authInfo_t,
    userOtherInfo_t>>)

=============================================================================
