------------------------------- MODULE ApiCalls ------------------------------
(***************************************************************************)
(* What each wrapper of src/api hands to procApiRequest: the API number,   *)
(* the struct behind the void * of the input and of the output, and        *)
(* whether it passes a buffer for the input or the output byte stream.     *)
(***************************************************************************)
EXTENDS ApiTable

Call(apiNumber, inputStruct, inputBs, outStruct, outBs) ==
    [apiNumber |-> apiNumber, inputStruct |-> inputStruct, inputBs |-> inputBs,
     outStruct |-> outStruct, outBs |-> outBs]

(* A char ** for the output: the string itself is unpacked. *)
CharPtr == Struct(<<Chars(0)>>)
Integer == Struct(<<Int4>>)


rcAuthCheck == Call("AUTH_CHECK_AN", authCheckInp_t, FALSE, authCheckOut_t, FALSE)
rcAuthPluginRequest ==
    Call("AUTH_PLUG_REQ_AN", authPluginReqInp_t, FALSE, authPluginReqOut_t, FALSE)
rcAuthRequest == Call("AUTH_REQUEST_AN", None, FALSE, authRequestOut_t, FALSE)
rcAuthResponse == Call("AUTH_RESPONSE_AN", authResponseInp_t, FALSE, None, FALSE)
rcBulkDataObjPut == Call("BULK_DATA_OBJ_PUT_AN", bulkOprInp_t, TRUE, None, FALSE)
rcBulkDataObjReg == Call("BULK_DATA_OBJ_REG_AN", genQueryOut_t, FALSE, genQueryOut_t, FALSE)
rcChkNVPathPerm == Call("CHK_N_V_PATH_PERM_AN", fileOpenInp_t, FALSE, None, FALSE)
rcChkObjPermAndStat == Call("CHK_OBJ_PERM_AND_STAT_AN", chkObjPermAndStat_t, FALSE, None, FALSE)
rcClientHints == Call("CLIENT_HINTS_AN", None, FALSE, bytesBuf_t, FALSE)
rcCloseCollection == Call("CLOSE_COLLECTION_AN", Integer, FALSE, None, FALSE)
rcCollCreate == Call("COLL_CREATE_AN", collInp_t, FALSE, None, FALSE)
_rcCollRepl == Call("COLL_REPL_AN", collInp_t, FALSE, collOprStat_t, FALSE)
rcDataCopy == Call("DATA_COPY_AN", dataCopyInp_t, FALSE, None, FALSE)
rcDataGet == Call("DATA_GET_AN", dataOprInp_t, FALSE, portalOprOut_t, FALSE)
rcDataObjChksum == Call("DATA_OBJ_CHKSUM_AN", dataObjInp_t, FALSE, CharPtr, FALSE)
rcDataObjClose == Call("DATA_OBJ_CLOSE_AN", openedDataObjInp_t, FALSE, None, FALSE)
_rcDataObjCopy == Call("DATA_OBJ_COPY_AN", dataObjCopyInp_t, FALSE, transferStat_t, FALSE)
rcDataObjCreate == Call("DATA_OBJ_CREATE_AN", dataObjInp_t, FALSE, None, FALSE)
rcDataObjCreateAndStat ==
    Call("DATA_OBJ_CREATE_AND_STAT_AN", dataObjInp_t, FALSE, openStat_t, FALSE)
_rcDataObjGet == Call("DATA_OBJ_GET_AN", dataObjInp_t, FALSE, portalOprOut_t, TRUE)
rcDataObjLock == Call("DATA_OBJ_LOCK_AN", dataObjInp_t, FALSE, None, FALSE)
rcDataObjUnlock == Call("DATA_OBJ_UNLOCK_AN", dataObjInp_t, FALSE, None, FALSE)
rcDataObjLseek == Call("DATA_OBJ_LSEEK_AN", openedDataObjInp_t, FALSE, fileLseekOut_t, FALSE)
rcDataObjOpen == Call("DATA_OBJ_OPEN_AN", dataObjInp_t, FALSE, None, FALSE)
rcDataObjOpenAndStat == Call("DATA_OBJ_OPEN_AND_STAT_AN", dataObjInp_t, FALSE, openStat_t, FALSE)
_rcDataObjPhymv == Call("DATA_OBJ_PHYMV_AN", dataObjInp_t, FALSE, transferStat_t, FALSE)
_rcDataObjPut == Call("DATA_OBJ_PUT_AN", dataObjInp_t, TRUE, portalOprOut_t, FALSE)
rcDataObjRead == Call("DATA_OBJ_READ_AN", openedDataObjInp_t, FALSE, None, TRUE)
rcDataObjRename == Call("DATA_OBJ_RENAME_AN", dataObjCopyInp_t, FALSE, None, FALSE)
_rcDataObjRepl == Call("DATA_OBJ_REPL_AN", dataObjInp_t, FALSE, transferStat_t, FALSE)
_rcDataObjRsync == Call("DATA_OBJ_RSYNC_AN", dataObjInp_t, FALSE, msParamArray_t, FALSE)
rcDataObjTrim == Call("DATA_OBJ_TRIM_AN", dataObjInp_t, FALSE, None, FALSE)
rcDataObjTruncate == Call("DATA_OBJ_TRUNCATE_AN", dataObjInp_t, FALSE, None, FALSE)
rcDataObjUnlink == Call("DATA_OBJ_UNLINK_AN", dataObjInp_t, FALSE, None, FALSE)
rcDataObjWrite == Call("DATA_OBJ_WRITE_AN", openedDataObjInp_t, TRUE, None, FALSE)
rcDataPut == Call("DATA_PUT_AN", dataOprInp_t, FALSE, portalOprOut_t, FALSE)
rcEndTransaction == Call("END_TRANSACTION_AN", endTransactionInp_t, FALSE, None, FALSE)
rcExecCmd == Call("EXEC_CMD_AN", execCmd_t, FALSE, execCmdOut_t, FALSE)
rcExecMyRule == Call("EXEC_MY_RULE_AN", execMyRuleInp_t, FALSE, msParamArray_t, FALSE)
rcExecRuleExpression == Call("EXEC_RULE_EXPRESSION_AN", exec_rule_expression_t, FALSE, None, FALSE)
rcFileChksum == Call("FILE_CHKSUM_AN", fileChksumInp_t, FALSE, CharPtr, FALSE)
rcFileChmod == Call("FILE_CHMOD_AN", fileChmodInp_t, FALSE, None, FALSE)
rcFileClose == Call("FILE_CLOSE_AN", fileCloseInp_t, FALSE, None, FALSE)
rcFileClosedir == Call("FILE_CLOSEDIR_AN", fileClosedirInp_t, FALSE, None, FALSE)
rcFileCreate == Call("FILE_CREATE_AN", fileOpenInp_t, FALSE, fileCreateOut_t, FALSE)
rcFileGet == Call("FILE_GET_AN", fileOpenInp_t, FALSE, None, TRUE)
rcFileGetFsFreeSpace ==
    Call("FILE_GET_FS_FREE_SPACE_AN", fileGetFsFreeSpaceInp_t, FALSE, fileGetFsFreeSpaceOut_t, FALSE)
rcFileLseek == Call("FILE_LSEEK_AN", fileLseekInp_t, FALSE, fileLseekOut_t, FALSE)
rcFileMkdir == Call("FILE_MKDIR_AN", fileMkdirInp_t, FALSE, None, FALSE)
rcFileOpen == Call("FILE_OPEN_AN", fileOpenInp_t, FALSE, None, FALSE)
rcFileOpendir == Call("FILE_OPENDIR_AN", fileOpendirInp_t, FALSE, None, FALSE)
rcFilePut == Call("FILE_PUT_AN", fileOpenInp_t, TRUE, filePutOut_t, FALSE)
rcFileRead == Call("FILE_READ_AN", fileReadInp_t, FALSE, None, TRUE)
rcFileReaddir == Call("FILE_READDIR_AN", fileReaddirInp_t, FALSE, rodsDirent_t, FALSE)
rcFileRename == Call("FILE_RENAME_AN", fileRenameInp_t, FALSE, fileRenameOut_t, FALSE)
rcFileRmdir == Call("FILE_RMDIR_AN", fileRmdirInp_t, FALSE, None, FALSE)
rcFileStageToCache == Call("FILE_STAGE_TO_CACHE_AN", fileStageSyncInp_t, FALSE, None, FALSE)
rcFileStat == Call("FILE_STAT_AN", fileStatInp_t, FALSE, rodsStat_t, FALSE)
rcFileSyncToArch == Call("FILE_SYNC_TO_ARCH_AN", fileStageSyncInp_t, FALSE, fileSyncOut_t, FALSE)
rcFileTruncate == Call("FILE_TRUNCATE_AN", fileOpenInp_t, FALSE, None, FALSE)
rcFileUnlink == Call("FILE_UNLINK_AN", fileUnlinkInp_t, FALSE, None, FALSE)
rcFileWrite == Call("FILE_WRITE_AN", fileWriteInp_t, TRUE, None, FALSE)
rcGenQuery == Call("GEN_QUERY_AN", genQueryInp_t, FALSE, genQueryOut_t, FALSE)
rcGeneralAdmin == Call("GENERAL_ADMIN_AN", generalAdminInp_t, FALSE, None, FALSE)
rcGeneralRowInsert == Call("GENERAL_ROW_INSERT_AN", generalRowInsertInp_t, FALSE, None, FALSE)
rcGeneralRowPurge == Call("GENERAL_ROW_PURGE_AN", generalRowPurgeInp_t, FALSE, None, FALSE)
rcGeneralUpdate == Call("GENERAL_UPDATE_AN", generalUpdateInp_t, FALSE, None, FALSE)
rcGetHierFromLeafId ==
    Call("GET_HIER_FROM_LEAF_ID_AN", get_hier_inp_t, FALSE, get_hier_out_t, FALSE)
rcGetHierarchyForResc ==
    Call("GET_HIER_FOR_RESC_AN", getHierarchyForRescInp_t, FALSE, getHierarchyForRescOut_t, FALSE)
rcGetHostForGet == Call("GET_HOST_FOR_GET_AN", dataObjInp_t, FALSE, CharPtr, FALSE)
rcGetHostForPut == Call("GET_HOST_FOR_PUT_AN", dataObjInp_t, FALSE, CharPtr, FALSE)
rcGetLimitedPassword ==
    Call("GET_LIMITED_PASSWORD_AN", getLimitedPasswordInp_t, FALSE, getLimitedPasswordOut_t, FALSE)
rcGetMiscSvrInfo == Call("GET_MISC_SVR_INFO_AN", None, FALSE, miscSvrInfo_t, FALSE)
rcGetRemoteZoneResc == Call("GET_REMOTE_ZONE_RESC_AN", dataObjInp_t, FALSE, rodsHostAddr_t, FALSE)
rcGetRescQuota == Call("GET_RESC_QUOTA_AN", getRescQuotaInp_t, FALSE, rescQuota_t, FALSE)
rcGetTempPassword == Call("GET_TEMP_PASSWORD_AN", None, FALSE, getTempPasswordOut_t, FALSE)
rcGetTempPasswordForOther ==
    Call("GET_TEMP_PASSWORD_FOR_OTHER_AN", getTempPasswordForOtherInp_t, FALSE, getTempPasswordForOtherOut_t, FALSE)
rcIESClientHints == Call("IES_CLIENT_HINTS_AN", None, FALSE, bytesBuf_t, FALSE)
rcL3FileGetSingleBuf == Call("L3_FILE_GET_SINGLE_BUF_AN", Integer, FALSE, None, TRUE)
rcL3FilePutSingleBuf == Call("L3_FILE_PUT_SINGLE_BUF_AN", Integer, TRUE, None, FALSE)
rcModAVUMetadata == Call("MOD_AVU_METADATA_AN", modAVUMetadataInp_t, FALSE, None, FALSE)
rcModAccessControl == Call("MOD_ACCESS_CONTROL_AN", modAccessControlInp_t, FALSE, None, FALSE)
rcModColl == Call("MOD_COLL_AN", collInp_t, FALSE, None, FALSE)
rcModDataObjMeta == Call("MOD_DATA_OBJ_META_AN", modDataObjMeta_t, FALSE, None, FALSE)
rcObjStat == Call("OBJ_STAT_AN", dataObjInp_t, FALSE, rodsObjStat_t, FALSE)
rcOpenCollection == Call("OPEN_COLLECTION_AN", collInp_t, FALSE, None, FALSE)
rcOprComplete == Call("OPR_COMPLETE_AN", Integer, FALSE, None, FALSE)
rcPamAuthRequest ==
    Call("PAM_AUTH_REQUEST_AN", pamAuthRequestInp_t, FALSE, pamAuthRequestOut_t, FALSE)
rcPhyBundleColl == Call("PHY_BUNDLE_COLL_AN", structFileExtAndRegInp_t, FALSE, None, FALSE)
rcPhyPathReg == Call("PHY_PATH_REG_AN", dataObjInp_t, FALSE, None, FALSE)
rcProcStat == Call("PROC_STAT_AN", procStatInp_t, FALSE, genQueryOut_t, FALSE)
rcQuerySpecColl == Call("QUERY_SPEC_COLL_AN", dataObjInp_t, FALSE, genQueryOut_t, FALSE)
rcReadCollection == Call("READ_COLLECTION_AN", Integer, FALSE, collEnt_t, FALSE)
rcRegColl == Call("REG_COLL_AN", collInp_t, FALSE, None, FALSE)
rcRegDataObj == Call("REG_DATA_OBJ_AN", dataObjInfo_t, FALSE, dataObjInfo_t, FALSE)
rcRegReplica == Call("REG_REPLICA_AN", regReplica_t, FALSE, None, FALSE)
_rcRmColl == Call("RM_COLL_AN", collInp_t, FALSE, collOprStat_t, FALSE)
rcRuleExecDel == Call("RULE_EXEC_DEL_AN", ruleExecDelInp_t, FALSE, None, FALSE)
rcRuleExecMod == Call("RULE_EXEC_MOD_AN", ruleExecModInp_t, FALSE, None, FALSE)
rcRuleExecSubmit == Call("RULE_EXEC_SUBMIT_AN", ruleExecSubmitInp_t, FALSE, CharPtr, FALSE)
rcServerReport == Call("SERVER_REPORT_AN", None, FALSE, bytesBuf_t, FALSE)
rcSetRoundRobinContext == Call("SET_RR_CTX_AN", setRoundRobinContextInp_t, FALSE, None, FALSE)
rcSimpleQuery == Call("SIMPLE_QUERY_AN", simpleQueryInp_t, FALSE, simpleQueryOut_t, FALSE)
rcSpecificQuery == Call("SPECIFIC_QUERY_AN", specificQueryInp_t, FALSE, genQueryOut_t, FALSE)
rcSslEnd == Call("SSL_END_AN", sslEndInp_t, FALSE, None, FALSE)
rcSslStart == Call("SSL_START_AN", sslStartInp_t, FALSE, None, FALSE)
rcStreamClose == Call("STREAM_CLOSE_AN", fileCloseInp_t, FALSE, None, FALSE)
rcStreamRead == Call("STREAM_READ_AN", fileReadInp_t, FALSE, None, TRUE)
rcStructFileBundle == Call("STRUCT_FILE_BUNDLE_AN", structFileExtAndRegInp_t, FALSE, None, FALSE)
rcStructFileExtAndReg ==
    Call("STRUCT_FILE_EXT_AND_REG_AN", structFileExtAndRegInp_t, FALSE, None, FALSE)
rcStructFileExtract == Call("STRUCT_FILE_EXTRACT_AN", structFileOprInp_t, FALSE, None, FALSE)
rcStructFileSync == Call("STRUCT_FILE_SYNC_AN", structFileOprInp_t, FALSE, None, FALSE)
rcSubStructFileClose ==
    Call("SUB_STRUCT_FILE_CLOSE_AN", subStructFileFdOprInp_t, FALSE, None, FALSE)
rcSubStructFileClosedir ==
    Call("SUB_STRUCT_FILE_CLOSEDIR_AN", subStructFileFdOprInp_t, FALSE, None, FALSE)
rcSubStructFileCreate == Call("SUB_STRUCT_FILE_CREATE_AN", subFile_t, FALSE, None, FALSE)
rcSubStructFileGet == Call("SUB_STRUCT_FILE_GET_AN", subFile_t, FALSE, None, TRUE)
rcSubStructFileLseek ==
    Call("SUB_STRUCT_FILE_LSEEK_AN", subStructFileLseekInp_t, FALSE, fileLseekOut_t, FALSE)
rcSubStructFileMkdir == Call("SUB_STRUCT_FILE_MKDIR_AN", subFile_t, FALSE, None, FALSE)
rcSubStructFileOpen == Call("SUB_STRUCT_FILE_OPEN_AN", subFile_t, FALSE, None, FALSE)
rcSubStructFileOpendir == Call("SUB_STRUCT_FILE_OPENDIR_AN", subFile_t, FALSE, None, FALSE)
rcSubStructFilePut == Call("SUB_STRUCT_FILE_PUT_AN", subFile_t, TRUE, None, FALSE)
rcSubStructFileRead == Call("SUB_STRUCT_FILE_READ_AN", subStructFileFdOprInp_t, FALSE, None, TRUE)
rcSubStructFileReaddir ==
    Call("SUB_STRUCT_FILE_READDIR_AN", subStructFileFdOprInp_t, FALSE, rodsDirent_t, FALSE)
rcSubStructFileRename ==
    Call("SUB_STRUCT_FILE_RENAME_AN", subStructFileRenameInp_t, FALSE, None, FALSE)
rcSubStructFileRmdir == Call("SUB_STRUCT_FILE_RMDIR_AN", subFile_t, FALSE, None, FALSE)
rcSubStructFileStat == Call("SUB_STRUCT_FILE_STAT_AN", subFile_t, FALSE, rodsStat_t, FALSE)
rcSubStructFileTruncate == Call("SUB_STRUCT_FILE_TRUNCATE_AN", subFile_t, FALSE, None, FALSE)
rcSubStructFileUnlink == Call("SUB_STRUCT_FILE_UNLINK_AN", subFile_t, FALSE, None, FALSE)
rcSubStructFileWrite == Call("SUB_STRUCT_FILE_WRITE_AN", subStructFileFdOprInp_t, TRUE, None, FALSE)
rcSyncMountedColl == Call("SYNC_MOUNTED_COLL_AN", dataObjInp_t, FALSE, None, FALSE)
rcTicketAdmin == Call("TICKET_ADMIN_AN", ticketAdminInp_t, FALSE, None, FALSE)
rcUnbunAndRegPhyBunfile == Call("UNBUN_AND_REG_PHY_BUNFILE_AN", dataObjInp_t, FALSE, None, FALSE)
rcUnregDataObj == Call("UNREG_DATA_OBJ_AN", unregDataObj_t, FALSE, None, FALSE)
rcUserAdmin == Call("USER_ADMIN_AN", userAdminInp_t, FALSE, None, FALSE)
rcZoneReport == Call("ZONE_REPORT_AN", None, FALSE, bytesBuf_t, FALSE)

Calls == [
    rcAuthCheck |-> rcAuthCheck, rcAuthPluginRequest |-> rcAuthPluginRequest,
    rcAuthRequest |-> rcAuthRequest, rcAuthResponse |-> rcAuthResponse,
    rcBulkDataObjPut |-> rcBulkDataObjPut, rcBulkDataObjReg |-> rcBulkDataObjReg,
    rcChkNVPathPerm |-> rcChkNVPathPerm, rcChkObjPermAndStat |-> rcChkObjPermAndStat,
    rcClientHints |-> rcClientHints, rcCloseCollection |-> rcCloseCollection,
    rcCollCreate |-> rcCollCreate, _rcCollRepl |-> _rcCollRepl, rcDataCopy |-> rcDataCopy,
    rcDataGet |-> rcDataGet, rcDataObjChksum |-> rcDataObjChksum,
    rcDataObjClose |-> rcDataObjClose, _rcDataObjCopy |-> _rcDataObjCopy,
    rcDataObjCreate |-> rcDataObjCreate, rcDataObjCreateAndStat |-> rcDataObjCreateAndStat,
    _rcDataObjGet |-> _rcDataObjGet, rcDataObjLock |-> rcDataObjLock,
    rcDataObjUnlock |-> rcDataObjUnlock, rcDataObjLseek |-> rcDataObjLseek,
    rcDataObjOpen |-> rcDataObjOpen, rcDataObjOpenAndStat |-> rcDataObjOpenAndStat,
    _rcDataObjPhymv |-> _rcDataObjPhymv, _rcDataObjPut |-> _rcDataObjPut,
    rcDataObjRead |-> rcDataObjRead, rcDataObjRename |-> rcDataObjRename,
    _rcDataObjRepl |-> _rcDataObjRepl, _rcDataObjRsync |-> _rcDataObjRsync,
    rcDataObjTrim |-> rcDataObjTrim, rcDataObjTruncate |-> rcDataObjTruncate,
    rcDataObjUnlink |-> rcDataObjUnlink, rcDataObjWrite |-> rcDataObjWrite,
    rcDataPut |-> rcDataPut, rcEndTransaction |-> rcEndTransaction, rcExecCmd |-> rcExecCmd,
    rcExecMyRule |-> rcExecMyRule, rcExecRuleExpression |-> rcExecRuleExpression,
    rcFileChksum |-> rcFileChksum, rcFileChmod |-> rcFileChmod, rcFileClose |-> rcFileClose,
    rcFileClosedir |-> rcFileClosedir, rcFileCreate |-> rcFileCreate, rcFileGet |-> rcFileGet,
    rcFileGetFsFreeSpace |-> rcFileGetFsFreeSpace, rcFileLseek |-> rcFileLseek,
    rcFileMkdir |-> rcFileMkdir, rcFileOpen |-> rcFileOpen, rcFileOpendir |-> rcFileOpendir,
    rcFilePut |-> rcFilePut, rcFileRead |-> rcFileRead, rcFileReaddir |-> rcFileReaddir,
    rcFileRename |-> rcFileRename, rcFileRmdir |-> rcFileRmdir,
    rcFileStageToCache |-> rcFileStageToCache, rcFileStat |-> rcFileStat,
    rcFileSyncToArch |-> rcFileSyncToArch, rcFileTruncate |-> rcFileTruncate,
    rcFileUnlink |-> rcFileUnlink, rcFileWrite |-> rcFileWrite, rcGenQuery |-> rcGenQuery,
    rcGeneralAdmin |-> rcGeneralAdmin, rcGeneralRowInsert |-> rcGeneralRowInsert,
    rcGeneralRowPurge |-> rcGeneralRowPurge, rcGeneralUpdate |-> rcGeneralUpdate,
    rcGetHierFromLeafId |-> rcGetHierFromLeafId, rcGetHierarchyForResc |-> rcGetHierarchyForResc,
    rcGetHostForGet |-> rcGetHostForGet, rcGetHostForPut |-> rcGetHostForPut,
    rcGetLimitedPassword |-> rcGetLimitedPassword, rcGetMiscSvrInfo |-> rcGetMiscSvrInfo,
    rcGetRemoteZoneResc |-> rcGetRemoteZoneResc, rcGetRescQuota |-> rcGetRescQuota,
    rcGetTempPassword |-> rcGetTempPassword,
    rcGetTempPasswordForOther |-> rcGetTempPasswordForOther,
    rcIESClientHints |-> rcIESClientHints, rcL3FileGetSingleBuf |-> rcL3FileGetSingleBuf,
    rcL3FilePutSingleBuf |-> rcL3FilePutSingleBuf, rcModAVUMetadata |-> rcModAVUMetadata,
    rcModAccessControl |-> rcModAccessControl, rcModColl |-> rcModColl,
    rcModDataObjMeta |-> rcModDataObjMeta, rcObjStat |-> rcObjStat,
    rcOpenCollection |-> rcOpenCollection, rcOprComplete |-> rcOprComplete,
    rcPamAuthRequest |-> rcPamAuthRequest, rcPhyBundleColl |-> rcPhyBundleColl,
    rcPhyPathReg |-> rcPhyPathReg, rcProcStat |-> rcProcStat,
    rcQuerySpecColl |-> rcQuerySpecColl, rcReadCollection |-> rcReadCollection,
    rcRegColl |-> rcRegColl, rcRegDataObj |-> rcRegDataObj, rcRegReplica |-> rcRegReplica,
    _rcRmColl |-> _rcRmColl, rcRuleExecDel |-> rcRuleExecDel, rcRuleExecMod |-> rcRuleExecMod,
    rcRuleExecSubmit |-> rcRuleExecSubmit, rcServerReport |-> rcServerReport,
    rcSetRoundRobinContext |-> rcSetRoundRobinContext, rcSimpleQuery |-> rcSimpleQuery,
    rcSpecificQuery |-> rcSpecificQuery, rcSslEnd |-> rcSslEnd, rcSslStart |-> rcSslStart,
    rcStreamClose |-> rcStreamClose, rcStreamRead |-> rcStreamRead,
    rcStructFileBundle |-> rcStructFileBundle, rcStructFileExtAndReg |-> rcStructFileExtAndReg,
    rcStructFileExtract |-> rcStructFileExtract, rcStructFileSync |-> rcStructFileSync,
    rcSubStructFileClose |-> rcSubStructFileClose,
    rcSubStructFileClosedir |-> rcSubStructFileClosedir,
    rcSubStructFileCreate |-> rcSubStructFileCreate, rcSubStructFileGet |-> rcSubStructFileGet,
    rcSubStructFileLseek |-> rcSubStructFileLseek, rcSubStructFileMkdir |-> rcSubStructFileMkdir,
    rcSubStructFileOpen |-> rcSubStructFileOpen,
    rcSubStructFileOpendir |-> rcSubStructFileOpendir, rcSubStructFilePut |-> rcSubStructFilePut,
    rcSubStructFileRead |-> rcSubStructFileRead,
    rcSubStructFileReaddir |-> rcSubStructFileReaddir,
    rcSubStructFileRename |-> rcSubStructFileRename,
    rcSubStructFileRmdir |-> rcSubStructFileRmdir, rcSubStructFileStat |-> rcSubStructFileStat,
    rcSubStructFileTruncate |-> rcSubStructFileTruncate,
    rcSubStructFileUnlink |-> rcSubStructFileUnlink,
    rcSubStructFileWrite |-> rcSubStructFileWrite, rcSyncMountedColl |-> rcSyncMountedColl,
    rcTicketAdmin |-> rcTicketAdmin, rcUnbunAndRegPhyBunfile |-> rcUnbunAndRegPhyBunfile,
    rcUnregDataObj |-> rcUnregDataObj, rcUserAdmin |-> rcUserAdmin, rcZoneReport |-> rcZoneReport]

(***************************************************************************)
(* The packer, or the unpacker, finds every item of the instruction at the *)
(* member the compiler laid out for it.  A char * takes any length.        *)
(***************************************************************************)
SameMember(item, member) ==
    /\ item.off = member.off
    /\ item.what[1] = member.what[1]
    /\ item.what[2] = member.what[2] \/ member.what[2] = 0
Fits(items, struct) ==
    LET packed == Packed(items).members
    IN /\ Len(packed) <= Len(struct.members)
       /\ \A i \in DOMAIN packed : SameMember(packed[i], struct.members[i])

(* The packed items are all the members: nothing the caller sets is left   *)
(* behind.                                                                 *)
Whole(items, struct) == Len(Packed(items).members) = Len(struct.members)

(* A struct is passed exactly when the row has an instruction for it. *)
Described(packInstruct, struct) == (packInstruct = NULL) = (struct = None)

DescribedAs(packInstruct, struct, Rel(_, _)) ==
    packInstruct # NULL => Rel(matchPackInstruct(packInstruct), struct)

=============================================================================
