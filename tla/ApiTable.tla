------------------------------- MODULE ApiTable ------------------------------
(***************************************************************************)
(* The tables an API call is packed and unpacked by: the two tables that   *)
(* resolve the name of a pack instruction, the API numbers, and for each   *)
(* API number the pack instructions of its input and output, and whether   *)
(* an input or an output byte stream goes with them.  The rows are written *)
(* by hand in the source, and the structs they describe are passed as      *)
(* void *: the compiler checks neither.                                    *)
(***************************************************************************)
EXTENDS ApiStructs

(* The columns of an apidef_t the client uses. *)
Row(apiNumber, clientUserAuth, inPackInstruct, inBsFlag, outPackInstruct, outBsFlag) ==
    [apiNumber |-> apiNumber, clientUserAuth |-> clientUserAuth,
     inPackInstruct |-> inPackInstruct, inBsFlag |-> inBsFlag,
     outPackInstruct |-> outPackInstruct, outBsFlag |-> outBsFlag]

(* No pack instruction. *)
NULL == "NULL"

RodsPackTable == [
    STR_PI |-> STR_PI, IRODS_STR_PI |-> IRODS_STR_PI, STR_PTR_PI |-> STR_PTR_PI,
    INT_PI |-> INT_PI, CHAR_PI |-> CHAR_PI, DOUBLE_PI |-> DOUBLE_PI, FLOAT_PI |-> INT_PI,
    BOOL_PI |-> INT_PI, BUF_LEN_PI |-> BUF_LEN_PI, INT16_PI |-> INT16_PI,
    MsgHeader_PI |-> MsgHeader_PI, StartupPack_PI |-> StartupPack_PI, Version_PI |-> Version_PI,
    RErrMsg_PI |-> RErrMsg_PI, RError_PI |-> RError_PI, RHostAddr_PI |-> RHostAddr_PI,
    RODS_STAT_T_PI |-> RODS_STAT_T_PI, RODS_DIRENT_T_PI |-> RODS_DIRENT_T_PI,
    KeyValPair_PI |-> KeyValPair_PI, InxIvalPair_PI |-> InxIvalPair_PI,
    InxValPair_PI |-> InxValPair_PI, PortList_PI |-> PortList_PI,
    PortalOprOut_PI |-> PortalOprOut_PI, DataOprInp_PI |-> DataOprInp_PI,
    GenQueryInp_PI |-> GenQueryInp_PI, SqlResult_PI |-> SqlResult_PI,
    GenQueryOut_PI |-> GenQueryOut_PI, DataObjInfo_PI |-> DataObjInfo_PI,
    TransStat_PI |-> TransStat_PI, TransferStat_PI |-> TransferStat_PI,
    AuthInfo_PI |-> AuthInfo_PI, UserOtherInfo_PI |-> UserOtherInfo_PI,
    UserInfo_PI |-> UserInfo_PI, CollInfo_PI |-> CollInfo_PI, BytesBuf_PI |-> BytesBuf_PI,
    charDataArray_PI |-> charDataArray_PI, strDataArray_PI |-> strDataArray_PI,
    intDataArray_PI |-> intDataArray_PI, int16DataArray_PI |-> int16DataArray_PI,
    int64DataArray_PI |-> int64DataArray_PI, BinBytesBuf_PI |-> BinBytesBuf_PI,
    MsParam_PI |-> MsParam_PI, MsParamArray_PI |-> MsParamArray_PI,
    TagStruct_PI |-> TagStruct_PI, RodsObjStat_PI |-> RodsObjStat_PI,
    ReconnMsg_PI |-> ReconnMsg_PI, VaultPathPolicy_PI |-> VaultPathPolicy_PI,
    IntArray_PI |-> IntArray_PI, SpecColl_PI |-> SpecColl_PI, SubFile_PI |-> SubFile_PI,
    CollEnt_PI |-> CollEnt_PI, CollOprStat_PI |-> CollOprStat_PI, DataSeg_PI |-> DataSeg_PI,
    FileRestartInfo_PI |-> FileRestartInfo_PI, CS_NEG_PI |-> CS_NEG_PI,
    StrArray_PI |-> StrArray_PI]

api_pack_table_init == [
    DataObjInp_PI |-> DataObjInp_PI, OpenedDataObjInp_PI |-> OpenedDataObjInp_PI,
    DataCopyInp_PI |-> DataCopyInp_PI, DataObjCopyInp_PI |-> DataObjCopyInp_PI,
    fileOpenInp_PI |-> fileOpenInp_PI, fileChksumInp_PI |-> fileChksumInp_PI,
    fileChksumOut_PI |-> fileChksumOut_PI, fileLseekInp_PI |-> fileLseekInp_PI,
    fileLseekOut_PI |-> fileLseekOut_PI, fileStatInp_PI |-> fileStatInp_PI,
    fileUnlinkInp_PI |-> fileUnlinkInp_PI, fileReadInp_PI |-> fileReadInp_PI,
    fileChmodInp_PI |-> fileChmodInp_PI, fileCloseInp_PI |-> fileCloseInp_PI,
    fileGetFsFreeSpaceInp_PI |-> fileGetFsFreeSpaceInp_PI,
    fileGetFsFreeSpaceOut_PI |-> fileGetFsFreeSpaceOut_PI, fileMkdirInp_PI |-> fileMkdirInp_PI,
    fileOpendirInp_PI |-> fileOpendirInp_PI, fileReaddirInp_PI |-> fileReaddirInp_PI,
    fileRenameInp_PI |-> fileRenameInp_PI, fileRmdirInp_PI |-> fileRmdirInp_PI,
    fileWriteInp_PI |-> fileWriteInp_PI, fileClosedirInp_PI |-> fileClosedirInp_PI,
    MiscSvrInfo_PI |-> MiscSvrInfo_PI, ModDataObjMeta_PI |-> ModDataObjMeta_PI,
    authRequestOut_PI |-> authRequestOut_PI, authResponseInp_PI |-> authResponseInp_PI,
    CollInpNew_PI |-> CollInpNew_PI, ExecMyRuleInp_PI |-> ExecMyRuleInp_PI,
    simpleQueryInp_PI |-> simpleQueryInp_PI, generalAdminInp_PI |-> generalAdminInp_PI,
    authCheckInp_PI |-> authCheckInp_PI, authCheckOut_PI |-> authCheckOut_PI,
    modAccessControlInp_PI |-> modAccessControlInp_PI,
    ModAVUMetadataInp_PI |-> ModAVUMetadataInp_PI, RULE_EXEC_MOD_INP_PI |-> RULE_EXEC_MOD_INP_PI,
    RULE_EXEC_DEL_INP_PI |-> RULE_EXEC_DEL_INP_PI,
    RULE_EXEC_SUBMIT_INP_PI |-> RULE_EXEC_SUBMIT_INP_PI, simpleQueryOut_PI |-> simpleQueryOut_PI,
    RegReplica_PI |-> RegReplica_PI, UnregDataObj_PI |-> UnregDataObj_PI,
    ExecCmd_PI |-> ExecCmd_PI, ExecCmdOut_PI |-> ExecCmdOut_PI,
    SubStructFileFdOpr_PI |-> SubStructFileFdOpr_PI,
    SubStructFileLseekInp_PI |-> SubStructFileLseekInp_PI,
    SubStructFileRenameInp_PI |-> SubStructFileRenameInp_PI,
    getTempPasswordOut_PI |-> getTempPasswordOut_PI, StructFileOprInp_PI |-> StructFileOprInp_PI,
    StructFileExtAndRegInp_PI |-> StructFileExtAndRegInp_PI,
    ChkObjPermAndStat_PI |-> ChkObjPermAndStat_PI, userAdminInp_PI |-> userAdminInp_PI,
    OpenStat_PI |-> OpenStat_PI, fileStageSyncInp_PI |-> fileStageSyncInp_PI,
    generalRowInsertInp_PI |-> generalRowInsertInp_PI,
    generalRowPurgeInp_PI |-> generalRowPurgeInp_PI, getRescQuotaInp_PI |-> getRescQuotaInp_PI,
    rescQuota_PI |-> rescQuota_PI, BulkOprInp_PI |-> BulkOprInp_PI,
    endTransactionInp_PI |-> endTransactionInp_PI, ProcStatInp_PI |-> ProcStatInp_PI,
    specificQueryInp_PI |-> specificQueryInp_PI, ticketAdminInp_PI |-> ticketAdminInp_PI,
    getTempPasswordForOtherInp_PI |-> getTempPasswordForOtherInp_PI,
    getTempPasswordForOtherOut_PI |-> getTempPasswordForOtherOut_PI,
    pamAuthRequestInp_PI |-> pamAuthRequestInp_PI, pamAuthRequestOut_PI |-> pamAuthRequestOut_PI,
    authPlugReqInp_PI |-> authPlugReqInp_PI, authPlugReqOut_PI |-> authPlugReqOut_PI,
    getHierarchyForRescInp_PI |-> getHierarchyForRescInp_PI,
    getHierarchyForRescOut_PI |-> getHierarchyForRescOut_PI, sslStartInp_PI |-> sslStartInp_PI,
    sslEndInp_PI |-> sslEndInp_PI, getLimitedPasswordInp_PI |-> getLimitedPasswordInp_PI,
    getLimitedPasswordOut_PI |-> getLimitedPasswordOut_PI, fileSyncOut_PI |-> fileSyncOut_PI,
    fileRenameOut_PI |-> fileRenameOut_PI, fileCreateOut_PI |-> fileCreateOut_PI,
    filePutOut_PI |-> filePutOut_PI, GetHierInp_PI |-> GetHierInp_PI,
    GetHierOut_PI |-> GetHierOut_PI, SetRoundRobinContextInp_PI |-> SetRoundRobinContextInp_PI,
    ExecRuleExpression_PI |-> ExecRuleExpression_PI]

ApiNumber == [
    IES_CLIENT_HINTS_AN |-> 10216, FILE_CREATE_AN |-> 500, FILE_OPEN_AN |-> 501,
    FILE_WRITE_AN |-> 502, FILE_CLOSE_AN |-> 503, FILE_LSEEK_AN |-> 504, FILE_READ_AN |-> 505,
    FILE_UNLINK_AN |-> 506, FILE_MKDIR_AN |-> 507, FILE_CHMOD_AN |-> 508, FILE_RMDIR_AN |-> 509,
    FILE_STAT_AN |-> 510, FILE_FSTAT_AN |-> 511, FILE_FSYNC_AN |-> 512, FILE_STAGE_AN |-> 513,
    FILE_GET_FS_FREE_SPACE_AN |-> 514, FILE_OPENDIR_AN |-> 515, FILE_CLOSEDIR_AN |-> 516,
    FILE_READDIR_AN |-> 517, FILE_PUT_AN |-> 518, FILE_GET_AN |-> 519, FILE_CHKSUM_AN |-> 520,
    CHK_N_V_PATH_PERM_AN |-> 521, FILE_RENAME_AN |-> 522, FILE_TRUNCATE_AN |-> 523,
    FILE_STAGE_TO_CACHE_AN |-> 524, FILE_SYNC_TO_ARCH_AN |-> 525, DATA_OBJ_CREATE_AN |-> 601,
    DATA_OBJ_OPEN_AN |-> 602, DATA_OBJ_PUT_AN |-> 606, DATA_PUT_AN |-> 607,
    DATA_OBJ_GET_AN |-> 608, DATA_GET_AN |-> 609, DATA_COPY_AN |-> 611, SIMPLE_QUERY_AN |-> 614,
    DATA_OBJ_UNLINK_AN |-> 615, REG_DATA_OBJ_AN |-> 619, UNREG_DATA_OBJ_AN |-> 620,
    REG_REPLICA_AN |-> 621, MOD_DATA_OBJ_META_AN |-> 622, RULE_EXEC_SUBMIT_AN |-> 623,
    RULE_EXEC_DEL_AN |-> 624, EXEC_MY_RULE_AN |-> 625, OPR_COMPLETE_AN |-> 626,
    DATA_OBJ_RENAME_AN |-> 627, DATA_OBJ_RSYNC_AN |-> 628, DATA_OBJ_CHKSUM_AN |-> 629,
    PHY_PATH_REG_AN |-> 630, DATA_OBJ_TRIM_AN |-> 632, OBJ_STAT_AN |-> 633,
    SUB_STRUCT_FILE_CREATE_AN |-> 635, SUB_STRUCT_FILE_OPEN_AN |-> 636,
    SUB_STRUCT_FILE_READ_AN |-> 637, SUB_STRUCT_FILE_WRITE_AN |-> 638,
    SUB_STRUCT_FILE_CLOSE_AN |-> 639, SUB_STRUCT_FILE_UNLINK_AN |-> 640,
    SUB_STRUCT_FILE_STAT_AN |-> 641, SUB_STRUCT_FILE_FSTAT_AN |-> 642,
    SUB_STRUCT_FILE_LSEEK_AN |-> 643, SUB_STRUCT_FILE_RENAME_AN |-> 644,
    QUERY_SPEC_COLL_AN |-> 645, SUB_STRUCT_FILE_MKDIR_AN |-> 647,
    SUB_STRUCT_FILE_RMDIR_AN |-> 648, SUB_STRUCT_FILE_OPENDIR_AN |-> 649,
    SUB_STRUCT_FILE_READDIR_AN |-> 650, SUB_STRUCT_FILE_CLOSEDIR_AN |-> 651,
    DATA_OBJ_TRUNCATE_AN |-> 652, SUB_STRUCT_FILE_TRUNCATE_AN |-> 653,
    GET_XMSG_TICKET_AN |-> 654, SEND_XMSG_AN |-> 655, RCV_XMSG_AN |-> 656,
    SUB_STRUCT_FILE_GET_AN |-> 657, SUB_STRUCT_FILE_PUT_AN |-> 658, SYNC_MOUNTED_COLL_AN |-> 659,
    STRUCT_FILE_SYNC_AN |-> 660, CLOSE_COLLECTION_AN |-> 661, STRUCT_FILE_EXTRACT_AN |-> 664,
    STRUCT_FILE_EXT_AND_REG_AN |-> 665, STRUCT_FILE_BUNDLE_AN |-> 666,
    CHK_OBJ_PERM_AND_STAT_AN |-> 667, GET_REMOTE_ZONE_RESC_AN |-> 668,
    DATA_OBJ_OPEN_AND_STAT_AN |-> 669, L3_FILE_GET_SINGLE_BUF_AN |-> 670,
    L3_FILE_PUT_SINGLE_BUF_AN |-> 671, DATA_OBJ_CREATE_AND_STAT_AN |-> 672,
    DATA_OBJ_CLOSE_AN |-> 673, DATA_OBJ_LSEEK_AN |-> 674, DATA_OBJ_READ_AN |-> 675,
    DATA_OBJ_WRITE_AN |-> 676, COLL_REPL_AN |-> 677, OPEN_COLLECTION_AN |-> 678,
    RM_COLL_AN |-> 679, MOD_COLL_AN |-> 680, COLL_CREATE_AN |-> 681, DATA_OBJ_UNLOCK_AN |-> 682,
    REG_COLL_AN |-> 683, PHY_BUNDLE_COLL_AN |-> 684, UNBUN_AND_REG_PHY_BUNFILE_AN |-> 685,
    GET_HOST_FOR_PUT_AN |-> 686, GET_RESC_QUOTA_AN |-> 687, BULK_DATA_OBJ_REG_AN |-> 688,
    BULK_DATA_OBJ_PUT_AN |-> 689, PROC_STAT_AN |-> 690, STREAM_READ_AN |-> 691,
    EXEC_CMD_AN |-> 692, STREAM_CLOSE_AN |-> 693, GET_HOST_FOR_GET_AN |-> 694,
    DATA_OBJ_REPL_AN |-> 695, DATA_OBJ_COPY_AN |-> 696, DATA_OBJ_PHYMV_AN |-> 697,
    DATA_OBJ_FSYNC_AN |-> 698, DATA_OBJ_LOCK_AN |-> 699, GET_MISC_SVR_INFO_AN |-> 700,
    GENERAL_ADMIN_AN |-> 701, GEN_QUERY_AN |-> 702, AUTH_REQUEST_AN |-> 703,
    AUTH_RESPONSE_AN |-> 704, AUTH_CHECK_AN |-> 705, MOD_AVU_METADATA_AN |-> 706,
    MOD_ACCESS_CONTROL_AN |-> 707, RULE_EXEC_MOD_AN |-> 708, GET_TEMP_PASSWORD_AN |-> 709,
    GENERAL_UPDATE_AN |-> 710, READ_COLLECTION_AN |-> 713, USER_ADMIN_AN |-> 714,
    GENERAL_ROW_INSERT_AN |-> 715, GENERAL_ROW_PURGE_AN |-> 716, END_TRANSACTION_AN |-> 718,
    DATABASE_RESC_OPEN_AN |-> 719, DATABASE_OBJ_CONTROL_AN |-> 720,
    DATABASE_RESC_CLOSE_AN |-> 721, SPECIFIC_QUERY_AN |-> 722, TICKET_ADMIN_AN |-> 723,
    GET_TEMP_PASSWORD_FOR_OTHER_AN |-> 724, PAM_AUTH_REQUEST_AN |-> 725,
    GET_LIMITED_PASSWORD_AN |-> 726, SSL_START_AN |-> 1100, SSL_END_AN |-> 1101,
    AUTH_PLUG_REQ_AN |-> 1201, AUTH_PLUG_RESP_AN |-> 1202, GET_HIER_FOR_RESC_AN |-> 1203,
    GET_HIER_FROM_LEAF_ID_AN |-> 1204, SET_RR_CTX_AN |-> 1205, EXEC_RULE_EXPRESSION_AN |-> 1206,
    SERVER_REPORT_AN |-> 10204, ZONE_REPORT_AN |-> 10205, CLIENT_HINTS_AN |-> 10215]

ApiTable1 == {
    Row("GET_MISC_SVR_INFO_AN", "NO_USER_AUTH", NULL, 0, "MiscSvrInfo_PI", 0),
    Row("FILE_CREATE_AN", "REMOTE_USER_AUTH", "fileOpenInp_PI", 0, "fileCreateOut_PI", 0),
    Row("FILE_OPEN_AN", "REMOTE_USER_AUTH", "fileOpenInp_PI", 0, NULL, 0),
    Row("CHK_N_V_PATH_PERM_AN", "REMOTE_USER_AUTH", "fileOpenInp_PI", 0, NULL, 0),
    Row("FILE_WRITE_AN", "REMOTE_USER_AUTH", "fileWriteInp_PI", 1, NULL, 0),
    Row("FILE_CLOSE_AN", "REMOTE_USER_AUTH", "fileCloseInp_PI", 0, NULL, 0),
    Row("FILE_LSEEK_AN", "REMOTE_USER_AUTH", "fileLseekInp_PI", 0, "fileLseekOut_PI", 0),
    Row("FILE_READ_AN", "REMOTE_USER_AUTH", "fileReadInp_PI", 0, NULL, 1),
    Row("FILE_UNLINK_AN", "REMOTE_USER_AUTH", "fileUnlinkInp_PI", 0, NULL, 0),
    Row("FILE_MKDIR_AN", "REMOTE_USER_AUTH", "fileMkdirInp_PI", 0, NULL, 0),
    Row("FILE_CHMOD_AN", "REMOTE_USER_AUTH", "fileChmodInp_PI", 0, NULL, 0),
    Row("FILE_RMDIR_AN", "REMOTE_USER_AUTH", "fileRmdirInp_PI", 0, NULL, 0),
    Row("FILE_STAT_AN", "REMOTE_USER_AUTH", "fileStatInp_PI", 0, "RODS_STAT_T_PI", 0),
    Row("FILE_GET_FS_FREE_SPACE_AN", "REMOTE_USER_AUTH", "fileGetFsFreeSpaceInp_PI", 0, "fileGetFsFreeSpaceOut_PI", 0),
    Row("FILE_OPENDIR_AN", "REMOTE_USER_AUTH", "fileOpendirInp_PI", 0, NULL, 0),
    Row("FILE_CLOSEDIR_AN", "REMOTE_USER_AUTH", "fileClosedirInp_PI", 0, NULL, 0),
    Row("FILE_READDIR_AN", "REMOTE_USER_AUTH", "fileReaddirInp_PI", 0, "RODS_DIRENT_T_PI", 0),
    Row("FILE_RENAME_AN", "REMOTE_USER_AUTH", "fileRenameInp_PI", 0, "fileRenameOut_PI", 0),
    Row("FILE_TRUNCATE_AN", "REMOTE_USER_AUTH", "fileOpenInp_PI", 0, NULL, 0),
    Row("FILE_PUT_AN", "REMOTE_USER_AUTH", "fileOpenInp_PI", 1, "filePutOut_PI", 0),
    Row("FILE_GET_AN", "REMOTE_USER_AUTH", "fileOpenInp_PI", 0, NULL, 1)}

ApiTable2 == {
    Row("FILE_STAGE_TO_CACHE_AN", "REMOTE_USER_AUTH", "fileStageSyncInp_PI", 0, NULL, 0),
    Row("FILE_SYNC_TO_ARCH_AN", "REMOTE_USER_AUTH", "fileStageSyncInp_PI", 0, "fileSyncOut_PI", 0),
    Row("DATA_OBJ_CREATE_AN", "REMOTE_USER_AUTH", "DataObjInp_PI", 0, NULL, 0),
    Row("DATA_OBJ_OPEN_AN", "REMOTE_USER_AUTH", "DataObjInp_PI", 0, NULL, 0),
    Row("DATA_OBJ_READ_AN", "REMOTE_USER_AUTH", "OpenedDataObjInp_PI", 0, NULL, 1),
    Row("DATA_OBJ_WRITE_AN", "REMOTE_USER_AUTH", "OpenedDataObjInp_PI", 1, NULL, 0),
    Row("DATA_OBJ_CLOSE_AN", "REMOTE_USER_AUTH", "OpenedDataObjInp_PI", 0, NULL, 0),
    Row("DATA_OBJ_PUT_AN", "REMOTE_USER_AUTH", "DataObjInp_PI", 1, "PortalOprOut_PI", 0),
    Row("DATA_OBJ_GET_AN", "REMOTE_USER_AUTH", "DataObjInp_PI", 0, "PortalOprOut_PI", 1),
    Row("DATA_OBJ_REPL_AN", "REMOTE_USER_AUTH", "DataObjInp_PI", 0, "TransferStat_PI", 0),
    Row("DATA_OBJ_LSEEK_AN", "REMOTE_USER_AUTH", "OpenedDataObjInp_PI", 0, "fileLseekOut_PI", 0),
    Row("DATA_OBJ_COPY_AN", "REMOTE_USER_AUTH", "DataObjCopyInp_PI", 0, "TransferStat_PI", 0),
    Row("DATA_OBJ_UNLINK_AN", "REMOTE_USER_AUTH", "DataObjInp_PI", 0, NULL, 0),
    Row("DATA_PUT_AN", "REMOTE_USER_AUTH", "DataOprInp_PI", 0, "PortalOprOut_PI", 0),
    Row("DATA_GET_AN", "REMOTE_USER_AUTH", "DataOprInp_PI", 0, "PortalOprOut_PI", 0),
    Row("DATA_COPY_AN", "REMOTE_USER_AUTH", "DataCopyInp_PI", 0, NULL, 0),
    Row("SIMPLE_QUERY_AN", "LOCAL_PRIV_USER_AUTH", "simpleQueryInp_PI", 0, "simpleQueryOut_PI", 0),
    Row("GENERAL_ADMIN_AN", "LOCAL_PRIV_USER_AUTH", "generalAdminInp_PI", 0, NULL, 0),
    Row("GEN_QUERY_AN", "REMOTE_USER_AUTH", "GenQueryInp_PI", 0, "GenQueryOut_PI", 0),
    Row("AUTH_REQUEST_AN", "NO_USER_AUTH", NULL, 0, "authRequestOut_PI", 0),
    Row("AUTH_RESPONSE_AN", "NO_USER_AUTH", "authResponseInp_PI", 0, NULL, 0)}

ApiTable3 == {
    Row("AUTH_CHECK_AN", "NO_USER_AUTH", "authCheckInp_PI", 0, "authCheckOut_PI", 0),
    Row("END_TRANSACTION_AN", "REMOTE_USER_AUTH", "endTransactionInp_PI", 0, NULL, 0),
    Row("SPECIFIC_QUERY_AN", "REMOTE_USER_AUTH", "specificQueryInp_PI", 0, "GenQueryOut_PI", 0),
    Row("TICKET_ADMIN_AN", "REMOTE_USER_AUTH", "ticketAdminInp_PI", 0, NULL, 0),
    Row("GET_TEMP_PASSWORD_FOR_OTHER_AN", "LOCAL_PRIV_USER_AUTH", "getTempPasswordForOtherInp_PI", 0, "getTempPasswordForOtherOut_PI", 0),
    Row("PAM_AUTH_REQUEST_AN", "NO_USER_AUTH", "pamAuthRequestInp_PI", 0, "pamAuthRequestOut_PI", 0),
    Row("GET_LIMITED_PASSWORD_AN", "REMOTE_USER_AUTH", "getLimitedPasswordInp_PI", 0, "getLimitedPasswordOut_PI", 0),
    Row("OPEN_COLLECTION_AN", "REMOTE_USER_AUTH", "CollInpNew_PI", 0, NULL, 0),
    Row("READ_COLLECTION_AN", "REMOTE_USER_AUTH", "INT_PI", 0, "CollEnt_PI", 0),
    Row("USER_ADMIN_AN", "REMOTE_USER_AUTH", "userAdminInp_PI", 0, NULL, 0),
    Row("GENERAL_ROW_INSERT_AN", "LOCAL_PRIV_USER_AUTH", "generalRowInsertInp_PI", 0, NULL, 0),
    Row("GENERAL_ROW_PURGE_AN", "LOCAL_PRIV_USER_AUTH", "generalRowPurgeInp_PI", 0, NULL, 0),
    Row("CLOSE_COLLECTION_AN", "REMOTE_USER_AUTH", "INT_PI", 0, NULL, 0),
    Row("COLL_REPL_AN", "REMOTE_USER_AUTH", "CollInpNew_PI", 0, "CollOprStat_PI", 0),
    Row("RM_COLL_AN", "REMOTE_USER_AUTH", "CollInpNew_PI", 0, "CollOprStat_PI", 0),
    Row("MOD_AVU_METADATA_AN", "REMOTE_USER_AUTH", "ModAVUMetadataInp_PI", 0, NULL, 0),
    Row("MOD_ACCESS_CONTROL_AN", "REMOTE_USER_AUTH", "modAccessControlInp_PI", 0, NULL, 0),
    Row("RULE_EXEC_MOD_AN", "LOCAL_PRIV_USER_AUTH", "RULE_EXEC_MOD_INP_PI", 0, NULL, 0),
    Row("GET_TEMP_PASSWORD_AN", "REMOTE_USER_AUTH", NULL, 0, "getTempPasswordOut_PI", 0),
    Row("GENERAL_UPDATE_AN", "LOCAL_PRIV_USER_AUTH", "GeneralUpdateInp_PI", 0, NULL, 0)}

ApiTable4 == {
    Row("MOD_DATA_OBJ_META_AN", "REMOTE_USER_AUTH", "ModDataObjMeta_PI", 0, NULL, 0),
    Row("RULE_EXEC_SUBMIT_AN", "REMOTE_USER_AUTH", "RULE_EXEC_SUBMIT_INP_PI", 0, "IRODS_STR_PI", 0),
    Row("RULE_EXEC_DEL_AN", "REMOTE_USER_AUTH", "RULE_EXEC_DEL_INP_PI", 0, NULL, 0),
    Row("EXEC_MY_RULE_AN", "REMOTE_USER_AUTH", "ExecMyRuleInp_PI", 0, "MsParamArray_PI", 0),
    Row("OPR_COMPLETE_AN", "REMOTE_USER_AUTH", "INT_PI", 0, NULL, 0),
    Row("DATA_OBJ_RENAME_AN", "REMOTE_USER_AUTH", "DataObjCopyInp_PI", 0, NULL, 0),
    Row("DATA_OBJ_RSYNC_AN", "REMOTE_USER_AUTH", "DataObjInp_PI", 0, "MsParamArray_PI", 0),
    Row("DATA_OBJ_CHKSUM_AN", "REMOTE_USER_AUTH", "DataObjInp_PI", 0, "STR_PI", 0),
    Row("PHY_PATH_REG_AN", "REMOTE_USER_AUTH", "DataObjInp_PI", 0, NULL, 0),
    Row("DATA_OBJ_PHYMV_AN", "REMOTE_USER_AUTH", "DataObjInp_PI", 0, "TransferStat_PI", 0),
    Row("DATA_OBJ_TRIM_AN", "REMOTE_USER_AUTH", "DataObjInp_PI", 0, NULL, 0),
    Row("OBJ_STAT_AN", "REMOTE_USER_AUTH", "DataObjInp_PI", 0, "RodsObjStat_PI", 0),
    Row("EXEC_CMD_AN", "REMOTE_USER_AUTH", "ExecCmd_PI", 0, "ExecCmdOut_PI", 0),
    Row("STREAM_CLOSE_AN", "REMOTE_USER_AUTH", "fileCloseInp_PI", 0, NULL, 0),
    Row("GET_HOST_FOR_GET_AN", "REMOTE_USER_AUTH", "DataObjInp_PI", 0, "STR_PI", 0),
    Row("DATA_OBJ_LOCK_AN", "REMOTE_USER_AUTH", "DataObjInp_PI", 0, NULL, 0),
    Row("DATA_OBJ_UNLOCK_AN", "REMOTE_USER_AUTH", "DataObjInp_PI", 0, NULL, 0),
    Row("SUB_STRUCT_FILE_CREATE_AN", "REMOTE_USER_AUTH", "SubFile_PI", 0, NULL, 0),
    Row("SUB_STRUCT_FILE_OPEN_AN", "REMOTE_USER_AUTH", "SubFile_PI", 0, NULL, 0),
    Row("SUB_STRUCT_FILE_READ_AN", "REMOTE_USER_AUTH", "SubStructFileFdOpr_PI", 0, NULL, 1),
    Row("SUB_STRUCT_FILE_WRITE_AN", "REMOTE_USER_AUTH", "SubStructFileFdOpr_PI", 1, NULL, 0)}

ApiTable5 == {
    Row("SUB_STRUCT_FILE_CLOSE_AN", "REMOTE_USER_AUTH", "SubStructFileFdOpr_PI", 0, NULL, 0),
    Row("SUB_STRUCT_FILE_UNLINK_AN", "REMOTE_USER_AUTH", "SubFile_PI", 0, NULL, 0),
    Row("SUB_STRUCT_FILE_STAT_AN", "REMOTE_USER_AUTH", "SubFile_PI", 0, "RODS_STAT_T_PI", 0),
    Row("SUB_STRUCT_FILE_LSEEK_AN", "REMOTE_USER_AUTH", "SubStructFileLseekInp_PI", 0, "fileLseekOut_PI", 0),
    Row("SUB_STRUCT_FILE_RENAME_AN", "REMOTE_USER_AUTH", "SubStructFileRenameInp_PI", 0, NULL, 0),
    Row("QUERY_SPEC_COLL_AN", "REMOTE_USER_AUTH", "DataObjInp_PI", 0, "GenQueryOut_PI", 0),
    Row("MOD_COLL_AN", "REMOTE_USER_AUTH", "CollInpNew_PI", 0, NULL, 0),
    Row("SUB_STRUCT_FILE_MKDIR_AN", "REMOTE_USER_AUTH", "SubFile_PI", 0, NULL, 0),
    Row("SUB_STRUCT_FILE_RMDIR_AN", "REMOTE_USER_AUTH", "SubFile_PI", 0, NULL, 0),
    Row("SUB_STRUCT_FILE_OPENDIR_AN", "REMOTE_USER_AUTH", "SubFile_PI", 0, NULL, 0),
    Row("SUB_STRUCT_FILE_READDIR_AN", "REMOTE_USER_AUTH", "SubStructFileFdOpr_PI", 0, "RODS_DIRENT_T_PI", 0),
    Row("SUB_STRUCT_FILE_CLOSEDIR_AN", "REMOTE_USER_AUTH", "SubStructFileFdOpr_PI", 0, NULL, 0),
    Row("DATA_OBJ_TRUNCATE_AN", "REMOTE_USER_AUTH", "DataObjInp_PI", 0, NULL, 0),
    Row("SUB_STRUCT_FILE_TRUNCATE_AN", "REMOTE_USER_AUTH", "SubFile_PI", 0, NULL, 0),
    Row("SUB_STRUCT_FILE_GET_AN", "REMOTE_USER_AUTH", "SubFile_PI", 0, NULL, 1),
    Row("SUB_STRUCT_FILE_PUT_AN", "REMOTE_USER_AUTH", "SubFile_PI", 1, NULL, 0),
    Row("SYNC_MOUNTED_COLL_AN", "REMOTE_USER_AUTH", "DataObjInp_PI", 0, NULL, 0),
    Row("STRUCT_FILE_SYNC_AN", "REMOTE_USER_AUTH", "StructFileOprInp_PI", 0, NULL, 0),
    Row("COLL_CREATE_AN", "REMOTE_USER_AUTH", "CollInpNew_PI", 0, NULL, 0),
    Row("STRUCT_FILE_EXTRACT_AN", "REMOTE_USER_AUTH", "StructFileOprInp_PI", 0, NULL, 0),
    Row("STRUCT_FILE_EXT_AND_REG_AN", "REMOTE_USER_AUTH", "StructFileExtAndRegInp_PI", 0, NULL, 0)}

ApiTable6 == {
    Row("STRUCT_FILE_BUNDLE_AN", "REMOTE_USER_AUTH", "StructFileExtAndRegInp_PI", 0, NULL, 0),
    Row("CHK_OBJ_PERM_AND_STAT_AN", "REMOTE_USER_AUTH", "ChkObjPermAndStat_PI", 0, NULL, 0),
    Row("GET_REMOTE_ZONE_RESC_AN", "REMOTE_USER_AUTH", "DataObjInp_PI", 0, "RHostAddr_PI", 0),
    Row("DATA_OBJ_OPEN_AND_STAT_AN", "REMOTE_USER_AUTH", "DataObjInp_PI", 0, "OpenStat_PI", 0),
    Row("L3_FILE_GET_SINGLE_BUF_AN", "REMOTE_USER_AUTH", "INT_PI", 0, NULL, 1),
    Row("L3_FILE_PUT_SINGLE_BUF_AN", "REMOTE_USER_AUTH", "INT_PI", 1, NULL, 0),
    Row("DATA_OBJ_CREATE_AND_STAT_AN", "REMOTE_USER_AUTH", "DataObjInp_PI", 0, "OpenStat_PI", 0),
    Row("PHY_BUNDLE_COLL_AN", "LOCAL_PRIV_USER_AUTH", "StructFileExtAndRegInp_PI", 0, NULL, 0),
    Row("UNBUN_AND_REG_PHY_BUNFILE_AN", "REMOTE_USER_AUTH", "DataObjInp_PI", 0, NULL, 0),
    Row("GET_HOST_FOR_PUT_AN", "REMOTE_USER_AUTH", "DataObjInp_PI", 0, "STR_PI", 0),
    Row("GET_RESC_QUOTA_AN", "REMOTE_USER_AUTH", "getRescQuotaInp_PI", 0, "rescQuota_PI", 0),
    Row("BULK_DATA_OBJ_REG_AN", "REMOTE_USER_AUTH", "GenQueryOut_PI", 0, "GenQueryOut_PI", 0),
    Row("BULK_DATA_OBJ_PUT_AN", "REMOTE_USER_AUTH", "BulkOprInp_PI", 1, NULL, 0),
    Row("PROC_STAT_AN", "REMOTE_USER_AUTH", "ProcStatInp_PI", 0, "GenQueryOut_PI", 0),
    Row("STREAM_READ_AN", "REMOTE_USER_AUTH", "fileReadInp_PI", 0, NULL, 1),
    Row("REG_COLL_AN", "REMOTE_USER_AUTH", "CollInpNew_PI", 0, NULL, 0),
    Row("REG_DATA_OBJ_AN", "REMOTE_USER_AUTH", "DataObjInfo_PI", 0, "DataObjInfo_PI", 0),
    Row("UNREG_DATA_OBJ_AN", "REMOTE_USER_AUTH", "UnregDataObj_PI", 0, NULL, 0),
    Row("REG_REPLICA_AN", "REMOTE_USER_AUTH", "RegReplica_PI", 0, NULL, 0),
    Row("FILE_CHKSUM_AN", "REMOTE_USER_AUTH", "fileChksumInp_PI", 0, "fileChksumOut_PI", 0),
    Row("SSL_START_AN", "NO_USER_AUTH", "sslStartInp_PI", 0, NULL, 0)}

ApiTable7 == {
    Row("SSL_END_AN", "NO_USER_AUTH", "sslEndInp_PI", 0, NULL, 0),
    Row("AUTH_PLUG_REQ_AN", "NO_USER_AUTH", "authPlugReqInp_PI", 0, "authPlugReqOut_PI", 0),
    Row("GET_HIER_FOR_RESC_AN", "NO_USER_AUTH", "getHierarchyForRescInp_PI", 0, "getHierarchyForRescOut_PI", 0),
    Row("ZONE_REPORT_AN", "LOCAL_PRIV_USER_AUTH", NULL, 0, "BytesBuf_PI", 0),
    Row("SERVER_REPORT_AN", "REMOTE_PRIV_USER_AUTH", NULL, 0, "BytesBuf_PI", 0),
    Row("CLIENT_HINTS_AN", "REMOTE_USER_AUTH", NULL, 0, "BytesBuf_PI", 0),
    Row("IES_CLIENT_HINTS_AN", "REMOTE_USER_AUTH", NULL, 0, "BytesBuf_PI", 0),
    Row("GET_HIER_FROM_LEAF_ID_AN", "REMOTE_USER_AUTH", "GetHierInp_PI", 0, "GetHierOut_PI", 0),
    Row("SET_RR_CTX_AN", "LOCAL_USER_AUTH", "SetRoundRobinContextInp_PI", 0, NULL, 0),
    Row("EXEC_RULE_EXPRESSION_AN", "LOCAL_USER_AUTH", "ExecRuleExpression_PI", 0, NULL, 0)}

client_api_table_inp ==
    ApiTable1 \cup ApiTable2 \cup ApiTable3 \cup ApiTable4 \cup ApiTable5 \cup ApiTable6
    \cup ApiTable7

(* The common table first, then the API's; no table holds a name of the    *)
(* other one with another value.                                           *)
matchPackInstruct(name) == (RodsPackTable @@ api_pack_table_init)[name]

(* apiTableLookup: the rows with the API number of a call. *)
RowsOf(apiNumber) ==
    {row \in client_api_table_inp : ApiNumber[row.apiNumber] = ApiNumber[apiNumber]}

=============================================================================
