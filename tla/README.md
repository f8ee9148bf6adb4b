# TLA+ models of the iRODS C client library

The repository is the client side of iRODS: the library an application links to
talk to an iRODS server (the *agent*). There is no server in it. The models here
follow `src/`, read with its comments, in two layers. The first is where the library
has more than one thread, process or machine at work: how a connection is made,
negotiated and logged in, its reconnection manager, the UDP bulk transfer (RBUDP),
the parallel transfer of large files with its restart file, and commands of one
user that meet in the same directories or the same password file. The second is
what every call rests on: how its input and its answer are packed, by which row of
the API table, what its options and parameters are and who frees them, how the
answers of queries become the entries of a collection, and the texts in which
queries, parameters, statuses and passwords are written. Paths below are relative
to the repository.

## 1. The system's parts

| part | state | operations | modelled in |
|---|---|---|---|
| Reconnection manager (`src/core/rcConnect.cpp`) | `clientState`, `reconnThrState`, `sock`, `reconnectedSock`, `exit_flg`, mutex, condition variable of `rcComm_t` | `cliReconnManager`, the four `cliChkReconnAt...`, `rcDisconnect`, `cleanRcComm` | `Reconn` |
| API request and reply (`src/core/procApiRequest.cpp`) | a call's place, its network object, its result | `procApiRequest`, `sendApiRequest`, `readAndProcApiReply`, `procApiReply`, `cliGetCollOprStat` | `Reconn` |
| RBUDP (`src/rbudp/`) | hash table, error bitmap, counters, peer's byte order, the two sockets | `sendfileByFd`/`sendBuf`/`udpSend`, `getfileByFd`/`receiveBuf`/`udpReceive`, the bitmap functions | `RbudpSeq`, `Rbudp`, `RbudpTransfer`, `RbudpEndian` |
| Parallel transfer (`src/core/rcPortalOpr.cpp`, `src/api/rcDataObjPut.cpp`, `rcDataObjGet.cpp`) | one connection, position and status per thread; the segments (`dataSeg`); the restart file | `putFileToPortal`, `getFileFromPortal`, `rcPartialDataPut/Get`, `writeLfRestartFile`, `clearLfRestartFile` | `Portal` |
| Large-file restart (same file) | the restart file, its copy of the segments, two file positions | `readLfRestartFile`, `lfRestartPutWithInfo`, `lfRestartGetWithInfo`, `putSeg`, `getSeg` | `LfRestart` |
| Connection set-up (`src/core/rcConnect.cpp`, `sockComm.cpp`) | socket, tries, `negotiation_results`, `ssl` of `rcComm_t` | `_rcConnect`, `connectToRhost` and its retries, start-up pack, `readVersion` | `Connect`; not redirection |
| Negotiation (`src/core/irods_client_negotiation.cpp`, `irods_network_factory.cpp`) | policies, result | the table, the exchange, the choice of the network object | `Connect` |
| Login (`src/core/clientLogin.cpp`, `sslSockComm.cpp`) | `loggedIn`, `ssl_on`, `ssl`, `negotiation_results` | `clientLogin`, `clientLoginWithPassword`, `clientLoginPam`, `sslStart`, `sslEnd` | `Login` |
| Packing (`src/core/packStruct.cpp`, `base64.cpp`) | none between calls | `packStruct`, `unpackStruct` with the natives, XML, dependent types and counted arrays; `base64_encode`, `base64_decode` | `PackStruct`, `PackLayout`, `Base64` |
| API table and wrappers (`include/api/`, `src/api/`, `rodsPackTable.h`) | constant tables | a call of `procApiRequest` by each wrapper | `ApiStructs`, `ApiTable`, `ApiCalls`, on `PackLayout` |
| Collections (`src/core/miscUtil.cpp`) | `collHandle_t`: state, two pages, `rowInx`, `prevdataId` | `rclOpenCollection`, `rclReadCollection`, `rclCloseCollection`, `genQueryOutTo...Res` | `Collections`, `QueryResult` |
| Directories and targets (same file) | the name space; a walk per process | `mkColl`, `mkCollR`, `mkdirR`, `rmdirR`; `resolveRodsTarget` | `MkTree`, `Target` |
| Options (`src/core/rcMisc.cpp`) | `keyValPair_t` and the other arrays that grow by ten | `addKeyVal`, `rmKeyVal`, `clearKeyVal`, `getValByKey` | `KeyVal`, `KeyMap` |
| Parameters (`src/core/msParam.cpp`) | `msParamArray_t`, the structs behind its pointers | add, remove, clear, trim, reset; the fillers and readers; the two string formats | `MsParams`, `MspTypes`, `MspStr` |
| Query texts, statuses (`rcMisc.cpp`, `rodsGenQueryNames.h`, `rodsErrorTable.h`) | constant tables | `fillGenQueryInpFromStrCond`; `rodsErrorName`, `getErrno` | `GenQuery`, `RodsErrors` |
| Passwords (`src/core/obf.cpp`) | `~/.irods/.irodsA` and its times | `obfSavePw`, `obfGetPw`, `obfTempOps`, `obfRmPw`; the encodings by time and by key | `PwFile`; `PwCode` on `Obf` |
| Network objects and plugins, authentication objects | the descriptor they copied | read and send; start; the login steps | as `handle` of `Reconn`, as outcomes in `Connect` and `Login` |
| Paths, containers, hierarchy parsers, environment, logging, hashing, encryption, `irods_threads` | sequential data | | no, see section 8 |

How they meet. An application opens a connection: `_rcConnect` tries sockets, sends
the start-up pack, negotiates with the server whether SSL is used, and writes the
result into `conn->negotiation_results`; from then on `network_factory` looks
at that field, before every message, to choose the TCP or the SSL object.
`clientLoginPam` turns SSL on for one request and off again, and changes the same field.
The password it logs in with comes from a file that other commands of the user may
be writing. Then the application fills a struct, with a `keyValPair_t` of options in
it, and calls an `rc...` function. The wrapper hands it as a `void *` to
`procApiRequest`, which finds the row of the API table, packs the struct by the
row's instruction, sends the request over `conn->sock`, reads the reply and unpacks it.
On a connection opened with `RECONN_TIMEOUT` a second thread closes that socket
and puts another in its place every few minutes; `clientState`,
`reconnThrState`, one mutex and one condition variable of `rcComm_t` keep the two
apart. `rcDataObjPut` and `rcDataObjGet` make one such call, get an address from
the server, and move the data of a large file over other connections, with one
thread for each (or over RBUDP), then report with `rcOprComplete`. The threads
share `conn->fileRestart` without a lock. When the process dies, what is left is
the local file, the server's object and the restart file, from which another
process goes on. A command that works on a whole tree makes its directories, which
others make at the same time, and walks over collections with queries whose
answers come in pages.

What is hard about it: early returns that must leave handle and socket right, a retry
on a used handle, two ends that must agree how they talk; the interleaving of client and manager, a socket replaced
under its user, waits without a predicate, threads that fail alone; datagrams lost,
late, twice; two sides that must agree how far they are; a snapshot taken without
a lock; the death of the process between any two steps; tables written by hand
that must agree with structs the compiler laid out; arrays that do not know their own
room; pointers whose owner depends on a flag; values that travel as text. `PROJECT.json` lists each
such place under "hazards" with the property that watches it.

What makes each part correct, in the order of the table: a call keeps one open socket
and nobody waits for ever; a successful call had a reply; success of a bulk transfer is
a whole file; so is success of a parallel one; the restart file never claims a block
too many; a returned handle works as both policies ask; the flag `loggedIn` tells
what the server did; what is packed is unpacked; table, struct and instruction agree;
a walk gives each entry once; a path is made whole whoever else is making it; an
option is found under its keyword and nowhere else; a struct is freed once; a text is
read as what it was written from; a saved password is the one that is read.

## 2. Modules

    Connect         _rcConnect, to a connection both ends read alike
      Login           logins, requests and SSL on that connection
        MCLogin, ConnectProofs
    RbudpSeq        bitmaps and sequence numbers, operators only
      Rbudp           the two programs, the network and the control connection
        RbudpTransfer   what they promise, in five actions (abstract)
        MCRbudp         instance for TLC, and the refinement mapping
        RbudpProofs     theorems
      RbudpEndian     the guess of the peer's byte order, with 32-bit numbers
    Reconn          client thread and reconnection manager
      MCReconn, ReconnProofs
    Portal          a parallel transfer with its threads and its restart file
      MCPortal, PortalProofs
      LfRestart       Portal, the death of the process, and the restart
        MCLfRestart; its theorems are in PortalProofs (on Induction)
    KeyVal          options, two arrays that grow
      KeyMap          what they promise: a map (abstract)
    Collections     a walk with its two queries
      CollectionsProofs  theorems (on Induction)
    MkTree          makers and removers of directories
    MsParams        the parameters of a rule
    PwFile          the password file between commands
      MachinesProofs  theorems on KeyVal, MkTree, RbudpEndian, PwFile and MsParams
    Target          the targets of a copy, source after source
    PwCode, on Obf  a password from who scrambles it to who reads it
    Base64          binary data as text, character after character
      AlgorithmsProofs  theorems on Target, PwCode and Base64 (on Induction)
    PackLayout      where members lie, and where the packer looks for them
      ApiStructs      the pack instructions and the structs
        ApiTable        the rows of the table
          ApiCalls        what each wrapper hands over
    PackStruct, QueryResult, GenQuery, RodsErrors, MspStr, MspTypes
                    algorithms, operators only
    MCMachines      instance for all from KeyVal on, and RbudpEndian
      MCData          inputs for structs, calls and answers
        MCText          inputs for texts and parameters

Operators named for a fault (`SwitchForgetsClose`, `OffsetFirst`, ...) stand
before the definition they are a faulty variant of. No specification uses them.
Each property of each run is violated when one of them takes the place of that
definition (`PROJECT.json`, "mutants"), which shows that the property depends on
the code it is about.

### Connect and Login

`conn` is the handle, field by field; `peer` is what the server at the other end
reads and writes, and whom it has authenticated; `open` are the open descriptors.
`pc` is the place in `connectToRhostWithTout` (`"connect"`, `"try"`), in
`connectToRhost` (`"startup"` to `"start"`, `"returned"`) and in the functions an
application calls. One action is one outcome of one call to the outside, with what
the code does on it: each early return closes the socket or leaves it. `Readable`
joins the two ends: what `network_factory`'s object writes, the server must be able to
read, otherwise only the failing actions are possible. `setting` is arbitrary
from the start: what the client asks for (and by which of two comparisons),
whether the server knows of negotiation, and both policies.

`Login` adds no variable. Its requests to the server are one step each and can
fail with the connection or without it, or return 0 with no reply, as `Reconn` shows
that they do (`SuccessMeansReply`).

### Rbudp

`sPc` and `rPc` are the places in `sendfileByFd` and `getfileByFd`; `sChunk`,
`rChunk` count the iterations of their loops over chunks of one gigabyte. `table`
is the part of `hashTable` below `remainNumberOfPackets`, `bits` the error bitmap
without its first byte. One action is one round of a side: `SendRound` is
`udpSend` and the end signal, `RecvBitmap` the read of the bitmap and what
`sendBuf` makes of it, `Receive` one datagram, `AnswerRound` the bitmap written.
`net` is the set of datagrams that may still arrive, never emptied by a receipt:
loss, delay, repetition and reordering are in what happens to arrive. The payload
is abstracted to the chunk it belongs to: `good[c]` holds the packets of chunk c
whose place in the file has the right content. Garbage is the content of a bitmap
that malloc returned and nobody wrote; a sender that acts on it (end of file on
the control connection) may do anything. `SelectFails` is a signal that interrupts
`select`: the code logs it and calls `recv` with the set of descriptors as it was
filled, so the receiver may block there (`inRecv`), deaf to the control connection,
until a datagram comes; `AnswerRound` and `AnswerFails` wait for that. `RbudpTransfer` says what is promised:
chunks arrive in order, the sender never counts one that has not, and an end
without an error comes after the last.

### Reconn

One action is a section of code under the mutex, or one use of the network.
`LockFree` is the mutex: the manager keeps it from its decision to reconnect to
the end of the attempt. `waiters` holds the threads asleep on the condition
variable; `NotifyAll` wakes them, and with `Spurious` they may wake by
themselves. `handle` is the descriptor a network object copied. `SwitchConnect` is
`cliSwitchConnect`. All the ways out of a call, early and late, are actions with
the `cliChkReconnAtSendEnd`, `...ReadEnd` calls they make or forget.

### Portal and LfRestart

The unit is the block that fits a transfer buffer. `Cut` is the server's division
of the file, arbitrary in the proofs. A thread's action is a header
(`RcvHeader`, `RcvDone`, `RcvFails`), a pass of the inner loop in two steps
(`Move`, then `Count` for the shared counters) or the step after the loop
(`Book`, which counts the whole header even if the loop broke off). `Pack` copies
one field of one segment at a time, in the order of `DataSeg_PI`, since the other
threads write meanwhile; `OpenRestart` truncates, `WriteRestart` writes. Main is
the calling thread. `acked` and `InTransit` are a put's blocks between the socket
and the server's file. Get and put have the same shape in the code, line by line,
and are one model with the constant `Direction`.

`LfRestart` adds `Crash`, possible before every step, and `Restart`: the
walk over the segments, gaps that are moved and added to the segment before them,
segments that are skipped, and the restart file rewritten on the way, where the process may
die again. `getSeg` checks what it reads and writes. `putSeg` checks what it wrote against what
it read, and does not look at what it read: `ReadFallsShort` is a block of which the local
file gave less, or nothing, and which is counted like a whole one (`CountBlock`). A block that was
written in part counts as not moved; `shorts` counts such reads.

### PackStruct, PackLayout, Base64 and the API table

`PackStruct` is the interpreter of pack instructions, in both directions and both
protocols. An instruction is a sequence of items (type, name, array sizes, pointer),
the value of a struct the sequence of the values of its items, a stream a sequence of
tokens: a native one of tagged numbers, strings and runs of bytes, an XML one of tags
and characters, in which the entities count as one. What is kept is everything that
steers the walk: how a size that names an earlier item is found, `?` and `%`, which
choose a type by an earlier value, pointers that are NULL, the string that
stands for NULL, the tag that is looked for, the length a packed string may have.

`PackLayout` computes two layouts of the same struct: the one the compiler makes, with the
alignment of nested structs, and the one the packer assumes, which aligns an item
but not a struct. `ApiStructs` has the instructions and structs of `include/api`,
`ApiTable` the rows, `ApiCalls` what each wrapper passes behind its `void *`. Neither
table is checked by the compiler; `CallsAgree` checks them against each other.

`Base64` encodes at once, into the room `packChar` makes, and decodes an action per
character: `decoder` holds the loop's `g`, `y` and `t` and what is written so far. A
character is the code `mymap` gives it. `DecodeBreak` is a line break that somebody put
in on the way, at any place.

### Collections and QueryResult

`handle` is the `collHandle_t`; `readCollection` is one call of
`rclReadCollection`, through both orders (`dataFirst`), the query that opens a kind of
entry, the next page, the trimming of replicas to one entry, and the errors that are
logged and those that are returned. The server answers with the rows of `catalog`, a
page of `MaxRows` at a time, or fails. `QueryResult` follows each column of an
answer through `genQueryOutToCollRes` and `genQueryOutToDataObjRes`: taken over, made
up or freed, and then by `rclCloseCollection`.

### MkTree and Target

One action of `MkTree` is one call to the server or to the file system: `Look`
goes backward until something exists or the start is reached, which nobody looks for
(`AtStart`), `Make` goes forward. Between any two, the
other process moves. A path is its names, `at` the number of names before `tmpLen`; the start "/" is 0 names,
and there the loop that looks for the end of the name just made does not move
(`Past`): the first name is made again, which `mkdirR` takes for an error and `mkCollR` for a success,
for ever (`Repeats`). An action of `Target` is one round of the loop of
`resolveRodsTarget`: `resolved` is the status, the destination, which an earlier source may
have made, the targets so far, and the world with the collections made on the way.

### KeyVal and MsParams

`KeyVal` is a `keyValPair_t` by operation. The C struct does not store its
room; `room` does here, so that a write beyond it can be stated. The refinement mapping
to `KeyMap` is `getValByKey`. `MsParams` gives each struct behind a pointer a number and
counts how often it is freed; `owner` is who is to free it.

### PwFile, PwCode and Obf

An action of `PwFile` is one system call on the file: opened and emptied, stamped by
writing a space, the time read back, the password written (`obfiWritePw`). Each may fail
(`NotOpened`, `StampFails`, `WriteFails`), and what a write leaves then is nothing or a
part (`Torn`). Between stamp and password the text is scrambled (`EncodePw`), with the file's time or, if
that is 0 modulo 65536, the system's. A process works on the
inode it opened and may be killed between its steps; the name may go away meanwhile. `lost` says that
a save has ended after it emptied the file and before its password was in it. `Obf` is
the wheel of 77 characters and the amounts it is turned by; the digests are arbitrary
functions. `PwCode` scrambles a password in one of three ways (`EncodeByTime`,
`EncodeByKey`, `EncodeByKeyV2`); a file with a password scrambled by its time may afterwards be
rewritten by others (`Rewritten`), and is then younger than the time in it. A program reads one
message after another (`ReadByKeyV2`, `NextMessage`), and `myOut` is the static buffer of
`obfDecodeByKeyV2`, whose old text an empty result leaves but for its first character. The limits of `strncat` (150)
and `strncpy` (`MAX_PASSWORD_LEN`) are `UpTo`; what is cut by the second has no end (`ended`).

### GenQuery, RodsErrors, MspStr, MspTypes

Text is a sequence of tokens: marks the parsers look for one by one, and words they do
not look into. `GenQuery` has the catalog's columns, the names they go by, and
`fillGenQueryInpFromStrCond`. `RodsErrors` has the table of errors and how a status
with an errno is taken apart. `MspStr` has `kw=value++++kw=value` and `a%b%c`, `MspTypes` which
C type a value is stored with and loaded with, and who owns the options of a request
that is taken from a parameter. A value there is a text (`"null"`, a word, a numeral) and a number.
The C types keep their order and not their width: a float keeps 3 bits of a number,
an `int` has 5, a `rodsLong_t` 8, for 24, 32 and 64, so a 64-bit integer is narrowed to an `int` by the last bits
(`Narrowed`), and `strtof` gives the nearest number that a float has (`ToFloat`), for a
double too.

### MCMachines

The variables of `KeyVal` to `RbudpEndian` are put side by side; the initial state
chooses which machine moves, the others stay. `MCData` and `MCText` are one of them: their
one step picks an input, a property says what the algorithm makes of it. The machines
share no state in the code either: that is why they share a run.

## 3. What the runs check

| run | instance | shows |
|---|---|---|
| `rbudp` | chunks of 4, 3 and 2 packets, 2 bits to a bitmap byte, `MAX_NO_PROGRESS_CNT` 3, `MAX_SEND_ERR_CNT` 2, broken control connection, failing mmap and recv, interrupted select | both sides' success means a whole file (`SuccessSound`); a set bit is a payload in place (`BitmapSound`); no payload leaves the buffer, nothing missing drops out of the sender's table, the sides are at most a chunk apart and never talk at once (`RoundsSound`); both return, unless the receiver is in a `recv` after a select that was interrupted and no datagram comes (`Termination`); the whole implements `RbudpTransfer` (`ReliableTransfer`) |
| `rbudp_ends` | chunks of 3 and 1, late datagrams, orderly ends | both sides return whatever garbage they act on, with the same exception (`Termination`, `TypeOK`) |
| `login` | 3 descriptors, 3 tries, two attempts, all settings of both ends, every failure, then calls without end | no closed socket is used and at most one is left behind (`SocketsKept`); a connection that is returned works the way both policies ask for (`OpenedAsAgreed`); `loggedIn` tells what the server did, and both ends talk alike after a successful `clientLoginPam` (`AuthSound`); `_rcConnect` returns (`ConnectEnds`) |
| `reconn` | 3 descriptors, calls, progress reports, disconnect, spurious wakeups, a name that stops resolving | a call works on one open, current socket (`HandleFresh`); no descriptor is lost or closed twice (`DescriptorsAccounted`); the socket changes between calls only (`RenewedWhileProcessing`); every call releases the state, and the retries in `sendApiRequest` and `readAndProcApiReply` never find a socket to switch to (`CallsEndClean`); neither thread waits for ever on a live one, and `rcDisconnect` returns whatever the manager does (`WaitsEnd`) |
| `portal` | put, encrypted, 2 threads, 3 blocks divided 1 and 2 | success means a whole file (`TransferSuccess`); the restart file is right at any moment (`RestartFileSound`); the call returns, unless encryption fails in the middle of a header (`TransferReturns`) |
| `lf_restart` | get, 3 threads with a block each, 2 restarts | a restart that succeeds leaves a whole file and the file never claims a block that was not moved (`RestartSound`); no claim is taken back (`ClaimGrows`) |
| `lf_restart_put` | put, encrypted, 2 threads, 3 blocks, 2 restarts | with blocks on their way to the server when the process dies, the restart file claims, and a successful restart leaves out, no more blocks than reads of the local file fell short in `putSeg` (`ShortfallBounded`): none, if none did |
| `machines` | one machine at a time, see section 4 | see the next table |

The properties of `machines`:

| property | says |
|---|---|
| `RoundTrips` | what `packStruct` writes, `unpackStruct` reads to the end as it was, in both protocols: counted arrays, NULL pointers, types and counts given by an earlier item, strings that XML escapes |
| `CallsAgree` | every wrapper's API number has one row; the packer finds each member where the compiler put it, and leaves none behind |
| `AnswersOwned` | each column of an answer is freed once, by the conversion or at the end of the walk, and each value an entry is read from is there |
| `TargetsSound` | targets of sources with different names differ; a directory that is said to be there is; a move makes nothing |
| `TextsBack` | queries, statuses, options and lists of parameters are read as what they were written from; a typed value is, when the reader's type can hold it, and a reader of another type is told so; the options of a request have one owner |
| `PasswordsBack` | a scrambled password is read back, within 20 seconds by the clock, over its wrap, and by key in both versions (of the second, 50 characters), whatever was read before but for one case |
| `Base64Back` | bytes that are encoded fit the room made for them; they are decoded to what they were in room for just as many, wherever lines are broken, and refused in less |
| `EntriesGiven` | a walk gives each entry once and in order; it ends without an error only when all are given, and errors of one query do not end the other's entries |
| `TreesSound` | no directory without its parent; success means a whole path unless somebody removes of it; an error has a cause, of which one is in the code alone: `mkdirR` had to make the first name of its path |
| `KeyValSound`, `IsKeyMap` | options are never written beyond their room and a keyword has one slot; the arrays implement a map |
| `ParamsOwned` | no struct is freed twice or forgotten; a label names one parameter |
| `PasswordKept` | the password written last is the one a login reads, once nobody is saving and nobody emptied the file for nothing |
| `InPlace` | below 65536 packets a peer of either byte order gets each payload into its place |
| `EveryoneEnds` | who reads on reaches the end of a collection; who makes directories ends, but for a `mkCollR` that makes the first name of its path |

Four runs end in a violation: the code does not do what its text says.

| run | property | what happens |
|---|---|---|
| `rbudp_stale` | `ReceiverSuccess` | a late datagram of the last chunk is taken for one of this chunk: its header has a number only |
| `reconn_resolve` | `ClientWaitEnds` | the manager returns without `notify_all` when the name does not resolve; the client that woke it sleeps for ever |
| `reconn_join` | `ManagerEnded` | `exit_flg` is read once in minutes, the join gives up after two seconds, and the handle is freed under a live manager |
| `reconn_body` | `SuccessMeansReply` | a reply whose body cannot be read leaves `status` at 0, which the caller takes for success |

More properties are stated in the modules that the code does not have: no run is
kept for them, and naming one as the invariant of a cfg shows its counterexample.
`StartupPlain` (`Connect`): a retry after a first attempt that negotiated SSL and
then timed out sends its start-up pack through the SSL object, so it fails.
`StatReplyFresh` and `DisconnectCloses` (`Reconn`): the answer to a progress report
may go to a socket already replaced, and `rcDisconnect` may leave a renewed socket
open. `SenderSuccess` with `"eof"` in `Faults`: the sender acts on a bitmap it
never received. `InPlace` (`RbudpEndian`) from 65536 packets on: a swapped number is in range.
`NoOverlap` (`LfRestart`): a restart does come to the branch marked "should not be
here", when a thread had received no header before the restart file was written;
`RestartSound` shows that it does no harm.
`EveryoneDone` (`MkTree`; `TreeSpec` is the specification to check it with): a `mkCollR` that starts
at "/" and has to make the first name of its path never returns, though its comment says "mk the directory recursively"
(`src/core/miscUtil.cpp:48`). `EmptyAtV1` (`PwCode`): "If encoding is not V2, handles is at V1" (`src/core/obf.cpp:1266`) is
not so of an empty password that comes after one of the second version, which is returned in its place.
`RestartSound` of a put: it holds with `shorts` = 0 only, as it says.

Where the code is known to go wrong, a property of `machines` names the case by
an operator and says what holds of the others:

* `Shifted`, `Full` (`MCData`): of two NULL-able pointers of the same name the first takes
  the second's value in XML; a native string that just fits is packed and then refused.
* The two calls left out of `CallFits`: in the input of `rcFileMkdir` the options begin four
  bytes before the place the packer reads them from, and the instruction of
  `rcGeneralUpdate` is in neither table. `LeftBehind`: calls whose struct has a member
  the instruction does not mention.
* `Straddling` (`Collections`): a page with nothing but replicas of one object
  ends the walk.
* `Misread` and the texts of `MCText`: an upper-case query is searched for the lower-case keyword
  first. `Garbled`: `parseMspForFloat` loads a float where an int
  was stored, `parseMspForDouble` a double where a 64-bit integer was. `Readable`: a 64-bit integer that is no
  `int` is narrowed, a number below 0 cannot be told from a status, `strtof` rounds what a float has not.
* `FirstMissing`, `Repeats` (`MkTree`): the first name of a path is made twice, or for ever.
* `Stranded` (`Rbudp`): the receiver is in `recv` after an interrupted `select`.
* `TakenForLast` (`PwCode`): an empty V1 code after one of V2. `TakenForSha1`, `TakenForV2`: a code that begins like another's.
* `FreedOnce` excepts parameters that were reset: the pointer to the freed struct stays.
* `PasswordKept` excepts a save that was killed or failed between `O_TRUNC` and the write, until somebody
  saves again (`Quiet`); a removal that meets a save (`raced`); 20 seconds between stamp and password, and a stamp of
  0, for which the system's clock is taken, when the clocks differ (`InTime`); and temporary passwords of 29 characters and more.

## 4. Bounds

* `login`: two attempts have at most two sockets open, the third descriptor tells a
  leak from a reuse. `MaxTries` is the code's own 3. The number of calls
  after the connection is made is not bounded. A failed, closed or crashed process
  stops, hence `CHECK_DEADLOCK FALSE`.
* `rbudp`: three chunks give a first, a middle and a last one; 4, 3 and 2 packets
  with 2 bits to a byte give every relation of a chunk's length to its bitmap: a
  whole number of bytes, one short of it, and a number of the chunk before that
  lies in the slack or out of range. Three rounds without progress reach the
  reset of the counter as well as its limit.
* `reconn`: three descriptors are the old socket, the new one, and one more that
  tells a leak from a reuse. The number of calls is not bounded.
* `portal`: two threads are enough for a torn snapshot, three blocks for a header
  followed by another and for one that breaks off. Headers may have any length.
* `lf_restart`: with three threads the middle one may have moved nothing when the
  first and the last have; `MaxRestarts` = 2 lets the first restart die half-way
  and the second finish. `lf_restart` stops when its restarts are used up, hence
  `CHECK_DEADLOCK FALSE`; `Reconn` really stops after `rcDisconnect`.
* `machines`, which stops when an input is picked or a machine ends, hence
  `CHECK_DEADLOCK FALSE`:
  - collections: pages of 2 rows, up to 3 sub-collections and 7 replicas, so that
    an object's replicas fit a page, cross into the next, or fill one; 2 failing
    queries, of the same kind or of both;
  - directories: 2 processes whose paths are the same, share a prefix, or are one the
    other's, and that start at "/" or below it; trees with none, some or all of the prefix, and an object in the way;
  - options: `PTR_ARRAY_MALLOC_LEN` 2 for 10, with 4 keywords (one the empty one), so that the
    arrays grow past one and past two allocations, and shrink over the border;
  - parameters: labels a and b, 3 structs, enough for a copy, its original and one more;
  - password file: two who save and one who removes, one of them by way of reading a temporary
    password; lengths at both sides of both limits; a clock that reaches the 20 seconds; a file
    system 12 seconds ahead, and a start at 65514, from which the file's time comes to the 0 that means none;
  - byte order: 65535 packets, the largest chunk for which a swapped number is
    never in range, with every low byte, every high byte and both ends;
  - targets: up to 2 sources of 10 kinds, a destination that is a directory, a file, missing or below
    something missing, three operations;
  - scrambled passwords: of no, printable and other characters, all 16 turns, three times of which one is close
    to the wrap, a file up to 18 hours younger than its time, both sides of the 20 seconds; two keys,
    both digests; 4, 49 and 50 characters, each message after each;
  - binary data: up to 5 bytes of all bits, of some and of none, with just their room and with one
    byte less, 2 line breaks anywhere;
  - inputs: each struct with arrays of 0, 1 and 2, NULL pointers and characters XML escapes;
    each wrapper; each answer the walk asks for; queries of each
    column and of 2 columns with 2 conditions; each error of the table; pairs, lists and values
    as in `MCText`; numbers about the ends of what an `int` and a float keep, with the widths scaled as section 2 says. Lengths such as `NAME_LEN` are scaled down where
    only "too long" matters, and kept where the layout is computed.

## 5. Fairness

* `Login`: connecting, writing and reading end (the reads of the negotiation and of
  the version have a timeout; a plugin's write returns or fails), and a try is at some time
  decided, not interrupted by signals for ever (`SF` of `TryDecided`): an interrupted
  `select` starts a try that is not counted. Nothing is assumed of the calls after it.
* `Rbudp`: each side runs when its blocking read or select can return (`WF` of
  `Sender`). The receiver looks at the datagrams first, and a signal may put it into `recv`; neither
  comes for ever without an end signal being seen between (`SF` of `Answer`): the sender blasts a
  finite table and then waits. Nothing says that a datagram comes at all, so nothing frees a receiver from `recv` (`Stranded`).
  `Termination` otherwise rests on the counter of rounds without progress and on the closing of the control
  connection.
* `Reconn`: both threads run, network operations end. The client gets the mutex
  (`SF`) because the manager leaves it free while it sleeps for minutes. The
  application is not obliged to start a call. Spurious wakeups do not go on for ever.
  From `rcDisconnect` on nothing at all is assumed of the manager.
* `Portal`: the threads run; a server thread that has got its data sends its next
  message or closes; data written to a live connection arrive.
* `Collections`: a reader reads on (`WF` of `rclReadCollection`); that is how the code's
  callers loop. `MkTree`: each process runs (`WF` of `TreeStep(p)`).
* `LfRestart` and the other machines state no liveness: the process may die, the application
  may stop.

## 6. What is proved

TLAPS proves, for every value of the constants that satisfies the modules'
assumptions (any chunks, descriptors, threads, blocks, division of the file, keywords,
allocation step, and every combination of faults unless said otherwise):

| theorem | says |
|---|---|
| `LoginType`, `RbudpType`, `ReconnType`, `PortalType`, `KeyValType`, `MkTreeType`, `PwFileType`, `MsParamsType`, `CollectionsType`, `TargetType`, `Base64Type` | the type invariants |
| `LoginSocketsKept`, of `LoginSocketOpen` and `LoginOneLeftBehind` | `_rcConnect` uses no closed socket and leaves at most one behind, for any number of tries |
| `LoginOpenedAsAgreed` | a connection that is returned works, the way both policies ask for |
| `LoginAuthSound`, of `LoginIsSound` and `LoginPamAgreement` | `loggedIn` tells what the server has done; after a successful `clientLoginPam` both ends talk alike, unless the server is gone or `SSL_shutdown` failed |
| `RbudpSuccessSound`, of `RbudpReceiverSuccess` and `RbudpSenderSuccess` | success means a whole file, if no datagram outlives its chunk and the connection does not end in an orderly way (`NoStaleAssumption`): `rbudp_stale` shows why it must be assumed |
| `RbudpBitmapSound` | a set bit is a payload in place, and no payload leaves the buffer; same assumption |
| `RbudpRoundsSound` | chunks, rounds and bitmaps of the two sides fit together, and a packet the receiver lacks is in the sender's table; same assumption |
| `RbudpImplementsTransfer` | the two programs implement `RbudpTransfer`, step by step; same assumption |
| `RbudpEndianInPlace` | either byte order, any order of the packets: each payload in its place, for less than 65536 packets in a chunk (`Few`) |
| `ReconnHandleFresh`, `ReconnRenewedWhileProcessing` | the socket of a call is open and stays the connection's |
| `ReconnDescriptorsAccounted` | no descriptor is lost |
| `ReconnCallsEndClean`, of `ReconnNoSwitchLeft` and `ReconnCallReleases` | every call releases the state, and the retries with a switch are dead code |
| `PortalTransferSuccess` | success means a whole file |
| `PortalRestartFileSound` | the restart file claims only moved blocks; for a put, if the network and the server lose nothing they were given (`DataFlows`) |
| `LfRestartSound` | the same across any number of deaths of the process, and a restart succeeds only with a whole file, as long as no read of the local file fell short in `putSeg` (`shorts` = 0); same assumption |
| `LfRestartClaimGrows` | no write of the restart file, of a transfer or of a restart, claims less than the file before it |
| `KeyValIsSound` | `addKeyVal` never writes beyond the room, and a keyword has one slot |
| `KeyValIsMap` | a `keyValPair_t` implements a map: `KeyValSpec(batches) => IsKeyMap` |
| `CollectionsEntriesGiven` | a walk over a collection gives each entry once and in order whichever queries fail; all of them if none does and nothing in the catalog ends it early; those of one kind if one query fails |
| `MkTreeSound` | processes that make and remove directories, from any start: no directory without its parent, success means a whole path unless somebody removes of it, an error has a cause, the first name made twice being one |
| `PwFileKept` | the password saved last can be read once nobody is saving and no save has ended without its password, whatever calls fail, up to the exceptions of `PasswordKept` |
| `MsParamsOwned` | a struct behind a parameter is freed once, by who owns it, and not forgotten; a label names one parameter |
| `TargetsAreSound` | for any number of sources and any name space: each source has its target, those of different names differ, a directory is there when it is said to be, a move makes nothing |
| `PasswordsAreBack` | a scrambled password is read back, of any length the file or the buffer takes: by the clock within 20 seconds and over its wrap, and not after; by key in both versions, whatever the digests are and whatever was read before, of the second version its first 50 characters; excepted are an empty one of the first version after one of the second, and codes that begin like another scheme's |
| `Base64IsBack` | `base64_decode` gives back what `base64_encode` was given, for bytes of any number, in exactly the room they need, wherever and how often lines are broken, and writes nothing beyond less |

The invariants.

* `ConnectProofs`. Each theorem has its own part. `SocketInv` says which sockets
  are open: the one this attempt made (`Mine`) and one more at most. `AgreedInv` follows the
  result from the table to the handle; its first conjunct, that the server reads plain
  text until `sockClientStart`, is why a retry that still has the result "SSL" cannot
  get past the start-up pack. `LoginInv` and `PamInv` add which call is at which
  place. `ITypeInv` adds to the types that a try is only made while there are tries left.
* `RbudpProofs!IInv`. That the bitmap is sound says nothing of the sender. It
  takes `LockStep` (on which chunk the sides are), `NetSound` (datagrams belong to
  the receiver's chunk), `ReplySound` (a bitmap on its way contains the preset
  bits, so what is missing are packets), `SenderSound` and `ReceiverSound` (the
  chunks before this one are intact).
* `ReconnProofs!IInv`. Mutual exclusion is no mutex here, it is in the values of
  `clientState`: `StateFollows` ties them to the client's place, and the manager
  goes on only in `PROCESSING_STATE` (`ITypeInv`). `SocketsFollow` says which
  descriptors are open and which the client has a copy of.
* `PortalProofs!IInv`. `Progress` is the arithmetic of a thread (position, what is
  left, what is counted), `Ends` what an end without an error means, `Kept` which
  blocks are in place, `Claims` that a segment never runs ahead of the position.
  `Packed` is the heart of `RestartFileSound`: the length is copied before the
  offset, and an offset only changes at the first header, so a length other
  than 0 finds its offset. `Saved` carries it to the file, `Caller` to the result.
* `MachinesProofs!KeyValInv`. `KeyValSound` is not inductive: `addKeyVal` makes room only when the
  length is a multiple of `PTR_ARRAY_MALLOC_LEN`, and after removals that says nothing of the
  room. What is missing is that the room itself is always a multiple; then a length that is none
  and not above the room is below it. It also takes that no hole comes before a keyword,
  or the first usable slot would be another than the keyword's own. For the
  refinement, `getValByKey` is written as a function of the two arrays; one lemma
  each says what it gives after an append, a replacement and a removal, and each
  operation then is one action of `KeyMap` under the mapping, or a stutter.

* `RbudpProofs!RoundInv` adds to `IInv` that a bitmap on its way only grows older (`ReplyKept`: all it
  holds is held) and that a sender's first table is a whole chunk (`FirstRound`): together they keep
  `NothingForgotten` true when the sides pass to the next chunk at different times. `ImplInv` adds that
  the sender is alive while the transfer goes on (`SenderAlive`); under it each action is one of
  `RbudpTransfer`'s, seen through the mapping, or a stutter.
* `PortalProofs!RestartIInv` is two invariants, of the transfer and of what is left when the
  process has died. In the transfer it is `IInv` and `CopiesInv`: a copy about to be
  written is not behind the file, and neither is ahead of the segments. After a death it is `Remains`:
  the file claims only what is stored; in a restart `Walking`: all before the position is stored,
  and the segments being brought up to date claim what the file did. Where a segment lies
  is the end of a walk over the segments before it (`End`, a recursive function), so
  facts about it are by induction on the number of threads.
* `CollectionsProofs!CollInv`. `EntriesGiven` speaks of the entries only, and nothing of it is inductive.
  The invariant says where the walk stands: after sub-collection `c` and replica `d`, with the entries of
  both given (`Given`), but for the one entry that a walk with data objects first loses when its first query
  fails (`lost`). A page is the part of the list that begins at a multiple of `MaxRows`, and the row to come
  is the one after `c`, or `d` (`Paged`); `prevdataId` is the object of replica `d`, and inside a page the
  next row is of another (`DataAt`). The second list is begun when the first has been given (`Phase`,
  `FirstWhole`), and a closed walk has all of it, or a failure to show (`Whole`). The proof goes along
  the code: a page (`NextPageFacts`), a row of each kind (`NextColl`, `NextData`, where replicas are skipped), a
  query that may not have opened (`StageColl`, `StageData`), the two orders (`ReadCollsFirst`,
  `ReadDataFirst`). `NoObject` is where `Straddling` comes in: a page without another object is
  the last one, or holds nothing but replicas of the object before it. The entries expected
  are a recursive function of the replicas (`KeptUpTo`), so what it gives is by `Induction`.
* `MachinesProofs`, the others. `TreeInv`: where a process that makes a path stands there is something (`Standing`),
  unless somebody removes; one that is alone finds nothing new below (`Ahead`); and each error has a
  cause; `OnePlace`: a step changes the tree at one place of
  the process's own path at most. `PwInv`: who is saving has the inode that has the name, unless a removal met the save, and a stamp not
  younger than the clock (`Stamped`, `EncodedAt`); who saved last is done, so that only a later save, whole or
  failing, or a removal can touch what it wrote. `ParamInv`: `FreedOnce` says nothing of pointers; what is missing is that no two parameters
  have one struct, and that a parameter's struct is the array's and not freed. `EndianInv`: a peer whose numbers
  are swapped is of the other byte order; with less than 65536 packets a swapped number other than 0 is out of
  range, so the first such number settles it, and 0 is itself either way.
* `AlgorithmsProofs!TargetInv`. Each target was right when it was found (`Placed`, `Stands`), and later sources
  undo nothing: the world only grows, and the destination changes at most once, from missing to there
  (`Kept`, one lemma for each of the functions a source goes through).
* `AlgorithmsProofs!CodeInv` says that what is written is the password scrambled; of `myOut` it takes nothing, since a result
  that is not empty hides what was there, and an empty one can only be of the first version. That it is read back
  takes that a turn of the wheel and the turn back are inverse modulo 77, that the chain of characters the
  third way adds is the same on both sides, character after character (by induction), and that the
  time in the text shows how old it is, wrapped or not (`Shows`).
* `AlgorithmsProofs!Base64Inv` says what `base64_decode` holds after `k` codes (`Decoding`): in `g` how many of the
  current three bytes are not padding (`Left`), in `t` the bits of the codes since the last group (`PartOf`), written
  all groups before (`Start`). It is in the room: the first group that is not stops the loop.

`Induction` states induction with a set in the place of a predicate (`SetInduction`, `BoundedInduction`,
from the library's well-foundedness of `<`): the library's own induction theorems take an operator for
an argument, and cannot be cited. It is what makes recursive functions provable, those of
`LfRestart` and `Collections` among them.

The type invariants of the machines are proved and not part of the run `machines`; those of the
other modules are both.

Only model-checked, and why:

* Liveness: TLAPS does not reason about it under fairness.
* `ShortfallBounded`: a count of blocks over several restarts, on 2 threads and 3 blocks; what is proved is the case without short reads.
* `RoundTrips`, `TextsBack`: `PackStruct`, `GenQuery`, `MspStr` and `MCText` declare `RECURSIVE` operators, which no
  module with a theorem may reach. The interpreter of `PackStruct` follows nested instructions, and what it
  computes for every instruction would be an induction over their structure.
* `CallsAgree`: the table of the API is compared with the structs row by row, and has no other rows.
* `AnswersOwned`: a walk asks for six sets of columns in all, and TLC compares each with what is taken and
  freed of it. Of other answers it does not hold (section 8).

## 7. What is assumed of the outside

The agent, its threads and the network and authentication plugins are outside the
repository. `Connect`: an exchange with the agent has every outcome the caller
tells apart, but bytes of the SSL plugin are read only by a server that has started
SSL, and plain ones only by one that has not; a server that negotiates sends its
version after the client's answer. `Login`: the server authenticates the client
before it says so. `Reconn`: a request, a
reply or a reconnection may fail at any point. `Portal`: server threads are given
consecutive parts of the file; a failing one may say DONE; the server of a put
answers `rcOprComplete` with an error when one of its threads gave up. The
application restarts a transfer that did not succeed, with files nobody has
touched since. `Collections`: the catalog does not change during a walk, replicas of an
object come one after the other, and a query is continued by the call that opened it. `KeyVal`: a server sends
each keyword once, and no empty one but the last. `PackLayout`: the 64-bit Linux ABI.
`PwFile`: the file system's clock may be ahead of the process's by a constant, and any call on the file may fail.
`Rbudp`: a signal may interrupt `select` at any time.
`Obf`: the digests are any functions.

## 8. What is not modelled

* RBUDP's streams and file lists, socket set-up and pacing.
* Of the parallel transfer: the small files that travel over the agent's
  connection (`putFile`, `getFile`), checksums, progress callbacks, and the
  single-thread get, which passes the mode 0640 as its thread number and so has no
  segment of its own.
* Of the connection: redirection to another server (`rcReconnect`), the keys and the
  signed identifier exchanged in the negotiation, the certificate check beyond its
  outcome, what the authentication plugins compute. The reconnection manager's
  thread is `Reconn`'s; `Login` is about connections without it.
* `irods_serialization` and the authentication and network objects: conversions, or thin wrappers
  around plugins that are not in the repository.
* Path parsing, hierarchy and children parsers, environment and command line, logging, file times,
  containers: sequential code without a protocol, on strings that only
  a character by character copy would show. Hashing and encryption: cryptography.
  `irods_threads.cpp` is used by nothing.
* Of `miscUtil.cpp`: the queries of one answer (`getDataObjInfo...`) and printing. Of `obf.cpp`: the prompts.

Met on the way, modelled as it is or outside the models, and covered by no property:

* A put whose encryption fails leaves its inner loop without a status
  and waits for a header while the server waits for data: `TransferReturns` says
  that the call ends in every other case.
* Collections: closing a walk half-way leaves the server's query open; an unknown
  collection type ends the list; a linked collection with more than one page ends early, being
  continued by another call than it was opened by; a conversion
  (`genQueryOutTo...Res`) that fails after it took columns over frees them twice.
* Targets and directories: several files to one existing file are not refused; for several
  local sources a missing destination is made and then refused; `EEXIST` of a file is taken for a
  directory; `mkdirR` fails when another process makes the same directory between its
  two steps, `mkCollR` does not; `mkdirForFilePath`, which starts at "/", fails when the first directory of
  the path is missing, having made it.
* RBUDP: an interrupted `select` is taken for one that found both sockets readable.
* Restart: `putSeg` counts what it did not read, and a restart of a put then succeeds with a hole in the object.
* Parameters: `replMsParamArray` writes through a NULL pointer;
  `trimMsParamArray` forgets the structs of parameters without a type; `convertListToMultiString`'s doubled `%` is
  undone by one of the two readers only; a keyword that is refused leaks the options read so far; a
  `DataObjCopyInp` made from a `DataObjInp` leaves its options with two owners.
* Packing: an integer missing from an XML stream is no error; arrays of pointers
  to integers are unpacked with the length in bytes for their count; index pairs are unpacked with exactly
  the room they need, so that an addition would write beyond it.
* Texts: an unquoted "and" in a value splits a condition; two errors share a thousand with
  another and go by its name.
* Passwords: the file is emptied and written in place, so a full disk costs the old password; the time wraps by 65535 where 65536 is
  meant; an encoding by MD5 whose text begins with "sha1" is taken for the other one.

## 9. Plan

Modelled, checked and proved so far: sections 2, 3 and 6. What is left to prove:

1. `PackStruct`, for any instruction: its interpreter would have to be written as a recursive function of
   the depth of nesting, as the walks of `LfRestart` and `Collections` are.
2. `GenQuery` and `MspStr`, for texts of any length: their parsers as machines, a token at a time, as `Base64` is.

If the models are extended again: redirection (`redirectConnToRescSvr`, `rcReconnect`, with two
handles, either of which must be disconnected on every path); transfers in one piece and the
choice among the three ways to move a file; a server end for `Reconn` that
keeps the old socket until the switch.
