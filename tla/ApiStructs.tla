------------------------------ MODULE ApiStructs -----------------------------
(***************************************************************************)
(* The pack instructions and the structs of the API calls, one header of   *)
(* include/api each.                                                       *)
(***************************************************************************)
EXTENDS PackLayout

(* The pack instructions (#define ..._PI). *)

authCheckInp_PI == <<Ptr, Ptr, Ptr>>
authCheckOut_PI == <<Int4, Int4, Ptr>>
authPlugReqInp_PI == <<Chars(MAX_NAME_LEN), Chars(MAX_NAME_LEN)>>
authPlugReqOut_PI == <<Chars(MAX_NAME_LEN)>>
authRequestOut_PI == <<Ptr>>
authResponseInp_PI == <<Ptr, Ptr>>
AuthenticateInp_PI == <<Ptr, Ptr, Ptr>>
AuthenticateOut_PI == <<Ptr>>
BulkOprInp_PI == <<Chars(MAX_NAME_LEN)>> \o GenQueryOut_PI \o KeyValPair_PI
ChkObjPermAndStat_PI == <<Chars(MAX_NAME_LEN), Chars(NAME_LEN), Int4, Int4>> \o KeyValPair_PI
DataCopyInp_PI == DataOprInp_PI \o PortalOprOut_PI
DataObjCopyInp_PI == DataObjInp_PI \o DataObjInp_PI
OpenStat_PI == <<Dbl, Chars(NAME_LEN), Chars(SHORT_STR_LEN), Int4, Int4, Int4, Int4>>
endTransactionInp_PI == <<Ptr, Ptr>>
ExecCmd_PI == <<Chars(LONG_NAME_LEN), Chars(HUGE_NAME_LEN), Chars(LONG_NAME_LEN),
    Chars(MAX_NAME_LEN), Int4, Int4>> \o KeyValPair_PI
ExecCmdOut_PI == BinBytesBuf_PI \o BinBytesBuf_PI \o <<Int4>>
ExecMyRuleInp_PI == <<Chars(META_STR_LEN)>> \o RHostAddr_PI \o KeyValPair_PI \o
    <<Chars(LONG_NAME_LEN), Ptr>>
ExecRuleExpression_PI == BytesBuf_PI \o BytesBuf_PI \o <<Ptr>>
fileChksumInp_PI == RHostAddr_PI \o <<Chars(MAX_NAME_LEN), Chars(MAX_NAME_LEN),
    Chars(MAX_NAME_LEN), Int4, Chars(MAX_NAME_LEN), Chars(NAME_LEN)>>
fileChksumOut_PI == <<Chars(NAME_LEN)>>
fileChmodInp_PI == RHostAddr_PI \o <<Chars(MAX_NAME_LEN), Int4, Chars(MAX_NAME_LEN),
    Chars(MAX_NAME_LEN)>>
fileCloseInp_PI == <<Int4, Chars(MAX_NAME_LEN)>>
fileClosedirInp_PI == <<Int4>>
fileCreateOut_PI == <<Chars(MAX_NAME_LEN)>>
fileGetFsFreeSpaceInp_PI == RHostAddr_PI \o <<Chars(MAX_NAME_LEN), Chars(MAX_NAME_LEN),
    Chars(MAX_NAME_LEN), Int4>>
fileGetFsFreeSpaceOut_PI == <<Dbl>>
fileLseekInp_PI == <<Int4, Dbl, Int4>>
fileLseekOut_PI == <<Dbl>>
fileMkdirInp_PI == RHostAddr_PI \o <<Chars(MAX_NAME_LEN), Chars(MAX_NAME_LEN), Int4>> \o
    KeyValPair_PI
fileOpenInp_PI == <<Chars(MAX_NAME_LEN), Chars(MAX_NAME_LEN), Chars(MAX_NAME_LEN), Int4>> \o
    RHostAddr_PI \o <<Chars(MAX_NAME_LEN), Int4, Int4, Dbl>> \o KeyValPair_PI \o
    <<Chars(MAX_NAME_LEN)>>
fileOpendirInp_PI == <<Chars(MAX_NAME_LEN), Chars(MAX_NAME_LEN), Chars(MAX_NAME_LEN)>> \o
    RHostAddr_PI \o <<Chars(MAX_NAME_LEN)>>
filePutOut_PI == <<Chars(MAX_NAME_LEN)>>
fileReadInp_PI == <<Int4, Int4>>
fileReaddirInp_PI == <<Int4>>
fileRenameInp_PI == RHostAddr_PI \o <<Chars(MAX_NAME_LEN), Chars(MAX_NAME_LEN),
    Chars(MAX_NAME_LEN), Chars(MAX_NAME_LEN)>>
fileRenameOut_PI == <<Chars(MAX_NAME_LEN)>>
fileRmdirInp_PI == <<Int4>> \o RHostAddr_PI \o <<Chars(MAX_NAME_LEN), Chars(MAX_NAME_LEN)>>
fileStageSyncInp_PI == <<Int4, Int4, Dbl>> \o RHostAddr_PI \o <<Chars(MAX_NAME_LEN),
    Chars(MAX_NAME_LEN), Chars(MAX_NAME_LEN), Chars(MAX_NAME_LEN)>> \o KeyValPair_PI
fileSyncOut_PI == <<Chars(MAX_NAME_LEN)>>
fileStatInp_PI == RHostAddr_PI \o <<Chars(MAX_NAME_LEN), Chars(MAX_NAME_LEN), Chars(MAX_NAME_LEN),
    Dbl>>
fileUnlinkInp_PI == RHostAddr_PI \o <<Chars(MAX_NAME_LEN), Chars(MAX_NAME_LEN),
    Chars(MAX_NAME_LEN), Chars(MAX_NAME_LEN)>>
fileWriteInp_PI == <<Int4, Int4>>
generalAdminInp_PI == <<Ptr, Ptr, Ptr, Ptr, Ptr, Ptr, Ptr, Ptr, Ptr, Ptr>>
generalRowInsertInp_PI == <<Ptr, Ptr, Ptr, Ptr, Ptr, Ptr, Ptr, Ptr, Ptr, Ptr>>
generalRowPurgeInp_PI == <<Ptr, Ptr>>
getHierarchyForRescInp_PI == <<Chars(MAX_NAME_LEN)>>
getHierarchyForRescOut_PI == <<Chars(MAX_NAME_LEN)>>
getLimitedPasswordInp_PI == <<Int4, Ptr>>
getLimitedPasswordOut_PI == <<Chars(MAX_PASSWORD_LEN)>>
MiscSvrInfo_PI == <<Int4, Int4, Chars(NAME_LEN), Chars(NAME_LEN), Chars(NAME_LEN)>>
getRescQuotaInp_PI == <<Chars(NAME_LEN), Chars(NAME_LEN), Chars(MAX_NAME_LEN), Int4, Int4>> \o
    KeyValPair_PI
rescQuota_PI == <<Chars(NAME_LEN), Chars(NAME_LEN), Int4, Int4, Dbl, Dbl, Ptr>>
getTempPasswordOut_PI == <<Chars(MAX_PASSWORD_LEN)>>
getTempPasswordForOtherInp_PI == <<Ptr, Ptr>>
getTempPasswordForOtherOut_PI == <<Chars(MAX_PASSWORD_LEN)>>
GetHierInp_PI == <<Dbl>>
GetHierOut_PI == <<Chars(MAX_NAME_LEN)>>
ModAVUMetadataInp_PI == <<Ptr, Ptr, Ptr, Ptr, Ptr, Ptr, Ptr, Ptr, Ptr, Ptr>>
modAccessControlInp_PI == <<Int4, Ptr, Ptr, Ptr, Ptr>>
ModDataObjMeta_PI == <<Ptr, Ptr>>
pamAuthRequestInp_PI == <<Ptr, Ptr, Int4>>
pamAuthRequestOut_PI == <<Ptr>>
ProcStatInp_PI == <<Chars(LONG_NAME_LEN), Chars(NAME_LEN)>> \o KeyValPair_PI
RegReplica_PI == <<Ptr, Ptr>> \o KeyValPair_PI
RULE_EXEC_DEL_INP_PI == <<Chars(NAME_LEN)>>
RULE_EXEC_MOD_INP_PI == <<Chars(NAME_LEN)>> \o KeyValPair_PI
RULE_EXEC_SUBMIT_INP_PI == <<Chars(META_STR_LEN), Chars(MAX_NAME_LEN), Chars(NAME_LEN),
    Chars(NAME_LEN), Chars(TIME_LEN), Chars(NAME_LEN), Chars(NAME_LEN), Chars(NAME_LEN),
    Chars(NAME_LEN), Chars(NAME_LEN), Chars(NAME_LEN)>> \o KeyValPair_PI \o <<Ptr, Chars(NAME_LEN)>>
SetRoundRobinContextInp_PI == <<Chars(NAME_LEN), Chars(MAX_NAME_LEN)>>
simpleQueryInp_PI == <<Ptr, Ptr, Ptr, Ptr, Ptr, Int4, Int4, Int4>>
simpleQueryOut_PI == <<Int4, Ptr>>
specificQueryInp_PI == <<Ptr, Ptr, Ptr, Ptr, Ptr, Ptr, Ptr, Ptr, Ptr, Ptr, Ptr, Int4, Int4, Int4,
    Int4>> \o KeyValPair_PI
sslEndInp_PI == <<Ptr>>
sslStartInp_PI == <<Ptr>>
StructFileExtAndRegInp_PI == <<Chars(MAX_NAME_LEN), Chars(MAX_NAME_LEN), Int4, Int4>> \o
    KeyValPair_PI
StructFileOprInp_PI == RHostAddr_PI \o <<Int4, Int4, Ptr>> \o KeyValPair_PI
SubStructFileLseekInp_PI == RHostAddr_PI \o <<Int4, Int4, Dbl, Int4>>
SubStructFileFdOpr_PI == RHostAddr_PI \o <<Int4, Int4, Int4>>
SubStructFileRenameInp_PI == SubFile_PI \o <<Chars(MAX_NAME_LEN), Chars(MAX_NAME_LEN)>>
ticketAdminInp_PI == <<Ptr, Ptr, Ptr, Ptr, Ptr, Ptr>>
UnregDataObj_PI == <<Ptr, Ptr>>
userAdminInp_PI == <<Ptr, Ptr, Ptr, Ptr, Ptr, Ptr, Ptr, Ptr, Ptr, Ptr>>

(* The structs of the callers (typedef struct ..._t). *)

authCheckInp_t == Struct(<<Ptr, Ptr, Ptr>>)
authCheckOut_t == Struct(<<Int4, Int4, Ptr>>)
authPluginReqInp_t == Struct(<<Chars(MAX_NAME_LEN), Chars(MAX_NAME_LEN)>>)
authPluginReqOut_t == Struct(<<Chars(MAX_NAME_LEN)>>)
authRequestOut_t == Struct(<<Ptr>>)
authResponseInp_t == Struct(<<Ptr, Ptr>>)
AuthenticateInp_t == Struct(<<Ptr, Ptr, Ptr>>)
AuthenticateOut_t == Struct(<<Ptr>>)
bulkOprInp_t == Struct(<<Chars(MAX_NAME_LEN), genQueryOut_t, keyValPair_t>>)
chkObjPermAndStat_t == Struct(<<Chars(MAX_NAME_LEN), Chars(NAME_LEN), Int4, Int4, keyValPair_t>>)
dataOprInp_t == Struct(<<Int4, Int4, Int4, Int4, Int4, Int4, Dbl, Dbl, keyValPair_t>>)
portList_t == Struct(<<Int4, Int4, Int4, Int4, Chars(LONG_NAME_LEN)>>)
portalOprOut_t == Struct(<<Int4, Int4, Int4, Chars(NAME_LEN), portList_t>>)
dataCopyInp_t == Struct(<<dataOprInp_t, portalOprOut_t>>)
dataObjInp_t == Struct(<<Chars(MAX_NAME_LEN), Int4, Int4, Dbl, Dbl, Int4, Int4, Ptr, keyValPair_t>>)
dataObjCopyInp_t == Struct(<<dataObjInp_t, dataObjInp_t>>)
openedDataObjInp_t == Struct(<<Int4, Int4, Int4, Int4, Dbl, Dbl, keyValPair_t>>)
collInp_t == Struct(<<Chars(MAX_NAME_LEN), Int4, Int4, keyValPair_t>>)
openStat_t == Struct(<<Dbl, Chars(NAME_LEN), Chars(SHORT_STR_LEN), Int4, Int4, Int4, Int4>>)
endTransactionInp_t == Struct(<<Ptr, Ptr>>)
execCmd_t == Struct(<<Chars(LONG_NAME_LEN), Chars(HUGE_NAME_LEN), Chars(LONG_NAME_LEN),
    Chars(MAX_NAME_LEN), Int4, Int4, keyValPair_t>>)
execCmdOut_t == Struct(<<bytesBuf_t, bytesBuf_t, Int4>>)
execMyRuleInp_t == Struct(<<Chars(META_STR_LEN), rodsHostAddr_t, keyValPair_t,
    Chars(LONG_NAME_LEN), Ptr>>)
exec_rule_expression_t == Struct(<<bytesBuf_t, bytesBuf_t, Ptr>>)
fileChksumInp_t == Struct(<<rodsHostAddr_t, Chars(MAX_NAME_LEN), Chars(MAX_NAME_LEN),
    Chars(MAX_NAME_LEN), Int4, Chars(MAX_NAME_LEN), Chars(NAME_LEN)>>)
fileChmodInp_t == Struct(<<rodsHostAddr_t, Chars(MAX_NAME_LEN), Int4, Chars(MAX_NAME_LEN),
    Chars(MAX_NAME_LEN)>>)
fileCloseInp_t == Struct(<<Int4, Chars(MAX_NAME_LEN)>>)
fileClosedirInp_t == Struct(<<Int4>>)
fileCreateOut_t == Struct(<<Chars(MAX_NAME_LEN)>>)
fileGetFsFreeSpaceInp_t == Struct(<<rodsHostAddr_t, Chars(MAX_NAME_LEN), Chars(MAX_NAME_LEN),
    Chars(MAX_NAME_LEN), Int4>>)
fileGetFsFreeSpaceOut_t == Struct(<<Dbl>>)
fileLseekInp_t == Struct(<<Int4, Dbl, Int4>>)
fileLseekOut_t == Struct(<<Dbl>>)
fileMkdirInp_t == Struct(<<rodsHostAddr_t, Chars(MAX_NAME_LEN), Chars(MAX_NAME_LEN), Int4,
    keyValPair_t>>)
fileOpenInp_t == Struct(<<Chars(MAX_NAME_LEN), Chars(MAX_NAME_LEN), Chars(MAX_NAME_LEN), Int4,
    rodsHostAddr_t, Chars(MAX_NAME_LEN), Int4, Int4, Dbl, keyValPair_t, Chars(MAX_NAME_LEN)>>)
fileOpendirInp_t == Struct(<<Chars(MAX_NAME_LEN), Chars(MAX_NAME_LEN), Chars(MAX_NAME_LEN),
    rodsHostAddr_t, Chars(MAX_NAME_LEN)>>)
filePutOut_t == Struct(<<Chars(MAX_NAME_LEN)>>)
fileReadInp_t == Struct(<<Int4, Int4>>)
fileReaddirInp_t == Struct(<<Int4>>)
fileRenameInp_t == Struct(<<rodsHostAddr_t, Chars(MAX_NAME_LEN), Chars(MAX_NAME_LEN),
    Chars(MAX_NAME_LEN), Chars(MAX_NAME_LEN)>>)
fileRenameOut_t == Struct(<<Chars(MAX_NAME_LEN)>>)
fileRmdirInp_t == Struct(<<Int4, rodsHostAddr_t, Chars(MAX_NAME_LEN), Chars(MAX_NAME_LEN)>>)
fileStageSyncInp_t == Struct(<<Int4, Int4, Dbl, rodsHostAddr_t, Chars(MAX_NAME_LEN),
    Chars(MAX_NAME_LEN), Chars(MAX_NAME_LEN), Chars(MAX_NAME_LEN), keyValPair_t>>)
fileSyncOut_t == Struct(<<Chars(MAX_NAME_LEN)>>)
fileStatInp_t == Struct(<<rodsHostAddr_t, Chars(MAX_NAME_LEN), Chars(MAX_NAME_LEN),
    Chars(MAX_NAME_LEN), Dbl>>)
fileUnlinkInp_t == Struct(<<rodsHostAddr_t, Chars(MAX_NAME_LEN), Chars(MAX_NAME_LEN),
    Chars(MAX_NAME_LEN), Chars(MAX_NAME_LEN)>>)
fileWriteInp_t == Struct(<<Int4, Int4>>)
generalAdminInp_t == Struct(<<Ptr, Ptr, Ptr, Ptr, Ptr, Ptr, Ptr, Ptr, Ptr, Ptr>>)
generalRowInsertInp_t == Struct(<<Ptr, Ptr, Ptr, Ptr, Ptr, Ptr, Ptr, Ptr, Ptr, Ptr, Ptr>>)
generalRowPurgeInp_t == Struct(<<Ptr, Ptr>>)
getHierarchyForRescInp_t == Struct(<<Chars(MAX_NAME_LEN)>>)
getHierarchyForRescOut_t == Struct(<<Chars(MAX_NAME_LEN)>>)
getLimitedPasswordInp_t == Struct(<<Int4, Ptr>>)
getLimitedPasswordOut_t == Struct(<<Chars(MAX_PASSWORD_LEN)>>)
miscSvrInfo_t == Struct(<<Int4, Int4, Chars(NAME_LEN), Chars(NAME_LEN), Chars(NAME_LEN)>>)
getRescQuotaInp_t == Struct(<<Chars(NAME_LEN), Chars(NAME_LEN), Chars(MAX_NAME_LEN), Int4, Int4,
    keyValPair_t>>)
rescQuota_t == Struct(<<Chars(NAME_LEN), Chars(NAME_LEN), Int4, Int4, Dbl, Dbl, Ptr>>)
getTempPasswordOut_t == Struct(<<Chars(MAX_PASSWORD_LEN)>>)
getTempPasswordForOtherInp_t == Struct(<<Ptr, Ptr>>)
getTempPasswordForOtherOut_t == Struct(<<Chars(MAX_PASSWORD_LEN)>>)
get_hier_inp_t == Struct(<<Dbl>>)
get_hier_out_t == Struct(<<Chars(MAX_NAME_LEN)>>)
modAVUMetadataInp_t == Struct(<<Ptr, Ptr, Ptr, Ptr, Ptr, Ptr, Ptr, Ptr, Ptr, Ptr>>)
modAccessControlInp_t == Struct(<<Int4, Ptr, Ptr, Ptr, Ptr>>)
modDataObjMeta_t == Struct(<<Ptr, Ptr>>)
rodsObjStat_t == Struct(<<Dbl, Int4, Int4, Chars(NAME_LEN), Chars(NAME_LEN), Chars(NAME_LEN),
    Chars(NAME_LEN), Chars(TIME_LEN), Chars(TIME_LEN), Ptr, Chars(MAX_NAME_LEN)>>)
pamAuthRequestInp_t == Struct(<<Ptr, Ptr, Int4>>)
pamAuthRequestOut_t == Struct(<<Ptr>>)
procStatInp_t == Struct(<<Chars(LONG_NAME_LEN), Chars(NAME_LEN), keyValPair_t>>)
regReplica_t == Struct(<<Ptr, Ptr, keyValPair_t>>)
ruleExecDelInp_t == Struct(<<Chars(NAME_LEN)>>)
ruleExecModInp_t == Struct(<<Chars(NAME_LEN), keyValPair_t>>)
ruleExecSubmitInp_t == Struct(<<Chars(META_STR_LEN), Chars(MAX_NAME_LEN), Chars(NAME_LEN),
    Chars(NAME_LEN), Chars(TIME_LEN), Chars(NAME_LEN), Chars(NAME_LEN), Chars(NAME_LEN),
    Chars(NAME_LEN), Chars(NAME_LEN), Chars(NAME_LEN), keyValPair_t, Ptr, Chars(NAME_LEN)>>)
setRoundRobinContextInp_t == Struct(<<Chars(NAME_LEN), Chars(MAX_NAME_LEN)>>)
simpleQueryInp_t == Struct(<<Ptr, Ptr, Ptr, Ptr, Ptr, Int4, Int4, Int4>>)
simpleQueryOut_t == Struct(<<Int4, Ptr>>)
specificQueryInp_t == Struct(<<Ptr, Ptr, Ptr, Ptr, Ptr, Ptr, Ptr, Ptr, Ptr, Ptr, Ptr, Int4, Int4,
    Int4, Int4, keyValPair_t>>)
sslEndInp_t == Struct(<<Ptr>>)
sslStartInp_t == Struct(<<Ptr>>)
structFileExtAndRegInp_t == Struct(<<Chars(MAX_NAME_LEN), Chars(MAX_NAME_LEN), Int4, Int4,
    keyValPair_t>>)
structFileOprInp_t == Struct(<<rodsHostAddr_t, Int4, Int4, Ptr, keyValPair_t>>)
subStructFileLseekInp_t == Struct(<<rodsHostAddr_t, Int4, Int4, Dbl, Int4, Chars(MAX_NAME_LEN)>>)
subStructFileFdOprInp_t == Struct(<<rodsHostAddr_t, Int4, Int4, Int4, Chars(MAX_NAME_LEN)>>)
subStructFileRenameInp_t == Struct(<<subFile_t, Chars(MAX_NAME_LEN), Chars(MAX_NAME_LEN)>>)
ticketAdminInp_t == Struct(<<Ptr, Ptr, Ptr, Ptr, Ptr, Ptr>>)
unregDataObj_t == Struct(<<Ptr, Ptr>>)
userAdminInp_t == Struct(<<Ptr, Ptr, Ptr, Ptr, Ptr, Ptr, Ptr, Ptr, Ptr, Ptr>>)

=============================================================================
