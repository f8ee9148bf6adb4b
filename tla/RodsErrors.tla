------------------------------ MODULE RodsErrors ------------------------------
(***************************************************************************)
(* The errors of rodsErrorTable.h and how a status is taken apart again.   *)
(* An error is a multiple of 1000, so that an errno can be subtracted from *)
(* it.  The numbers are written without their sign, in the order of the    *)
(* table; an error is known by its number, and by its place where two have *)
(* the same.                                                               *)
(***************************************************************************)
EXTENDS Integers, Sequences, SequencesExt

Thousands(first, last) == [i \in 1 .. last - first + 1 |-> 1000 * (first + i - 1)]

system_errors == <<1000, 1100>> \o Thousands(2, 33) \o Thousands(35, 86)
    \o Thousands(89, 136) \o <<144000>> \o Thousands(146, 165)
user_input_errors == Thousands(300, 326) \o Thousands(337, 361)
    \o <<370000, 380000, 390000>> \o Thousands(400, 403)
file_driver_errors == <<500000>> \o Thousands(510, 530) \o <<540000>>
    \o Thousands(550, 556) \o <<600000>> \o Thousands(610, 635) \o Thousands(701, 703)
    \o Thousands(715, 717) \o Thousands(750, 757) \o Thousands(730, 739)
    \o Thousands(741, 746) \o <<746000, 748000, 749000>> \o Thousands(760, 762)
    \o <<770000>>
catalog_library_errors == Thousands(801, 840) \o Thousands(850, 861)
ticket_errors == Thousands(890, 897)
miscellaneous_errors == Thousands(900, 913)
authentication_errors == Thousands(921, 942) \o Thousands(951, 971)
    \o <<981000, 982000>> \o Thousands(991, 994)
rule_engine_errors == Thousands(1000, 1060) \o <<1062000, 1063000>>
    \o Thousands(1065, 1118) \o Thousands(1201, 1203) \o Thousands(1205, 1217)
    \o Thousands(1220, 1225) \o Thousands(1230, 1234)
php_errors == Thousands(1600, 1602)
irods_4x_errors == Thousands(1800, 1829)
netcdf_errors == Thousands(2000, 2025)
ssl_errors == Thousands(2100, 2105)
ooi_errors == Thousands(2200, 2211)
deprecation_errors == <<3000000>>
xml_errors == Thousands(2300, 2302)
handler_errors == <<99999996, 99999997, 99999998, 99999999>>

Groups ==
  <<system_errors, user_input_errors, file_driver_errors, catalog_library_errors, ticket_errors,
    miscellaneous_errors, authentication_errors, rule_engine_errors, php_errors,
    irods_4x_errors, netcdf_errors, ssl_errors, ooi_errors, deprecation_errors, xml_errors,
    handler_errors>>
NEW_ERROR == FlattenSeq(Groups)

-----------------------------------------------------------------------------
(* A status: minus an error, minus an errno.                               *)

\* C's integer division, toward 0.
Truncated(status) == IF status < 0 THEN -((-status) \div 1000) ELSE status \div 1000

\* irods_error_map: the first error inserted under a number stays.
irods_error_map(code) ==
  LET errors == NEW_ERROR
      found == {i \in DOMAIN errors : -errors[i] = code}
  IN IF found = {} THEN 0 ELSE CHOOSE i \in found : \A j \in found : i <= j

\* [error, errno]: the place of the error in the table, and the errno whose
\* text is the sub-name, 0 for none.
rodsErrorName(status) ==
  LET testVal == Truncated(status)
      subCode == status - testVal * 1000
  IN [error |-> irods_error_map(testVal * 1000), errno |-> IF status < 0 THEN -subCode ELSE 0]

Remainder(status) == status - 1000 * Truncated(status)
getErrno(status) == IF Remainder(status) < 0 THEN -Remainder(status) ELSE Remainder(status)
getIrodsErrno(status) == Truncated(status) * 1000
=============================================================================
