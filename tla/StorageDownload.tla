-------------------------- MODULE StorageDownload --------------------------
(***************************************************************************)
(* Downloading, updating and deleting maps: libs/storage/storage.cpp with  *)
(* its downloader (map_files_downloader.cpp, http_map_files_downloader.cpp,*)
(* downloader_queue_universal.cpp), the callbacks that Framework installs  *)
(* (libs/map/framework.cpp) and the files of local_country_file_utils.cpp. *)
(*                                                                         *)
(* All of it runs on the GUI thread, one event after the other: a call of  *)
(* the user interface, a finished HTTP request, a task that another thread *)
(* posted.  The File thread checks checksums and saves countries.txt, the  *)
(* Network thread asks the metaserver for the list of servers.             *)
(*                                                                         *)
(* An event calls handlers that call handlers.  "calls" is what the        *)
(* running event still has to do, the innermost call first; the next event *)
(* starts when it is empty, while the other threads go on meanwhile.       *)
(*                                                                         *)
(* Maps are downloaded whole: Storage never loads a diff scheme (its       *)
(* loader is commented out), so that no country ever has a diff.           *)
(***************************************************************************)
EXTENDS Integers, FiniteSets, SequencesExt

CONSTANTS
  Leaves,      \* countries that are one map file
  Subtree,     \* node of the country tree -> its leaves, in tree order
  NoCountry,   \* no country at all
  Bundled,     \* version of the countries.txt inside the application
  MaxVersion,  \* newest version on the servers
  Events,      \* what may happen besides downloading: see MayHappen
  MaxEvents    \* how many of the user's and the environment's events happen

ASSUME TreeAssumption == \A n \in DOMAIN Subtree : Subtree[n] \in Seq(Leaves)
ASSUME LeavesAssumption == \A c \in Leaves : c \in DOMAIN Subtree /\ Subtree[c] = <<c>>
ASSUME NullAssumption == NoCountry \notin DOMAIN Subtree
ASSUME VersionAssumption == Bundled \in Nat \ {0} /\ MaxVersion \in Nat /\ Bundled <= MaxVersion
ASSUME EventsAssumption == MaxEvents \in Nat

VARIABLES
  version,      \* m_currentVersion
  queue,        \* HttpMapFilesDownloader::m_queue
  pending,      \* MapFilesDownloader::m_pendingRequests
  request,      \* m_request: what it downloads, and whether it was given any server
  servers,      \* whether m_serversList is known
  requested,    \* m_isMetaConfigRequested
  downloading,  \* the countries of m_downloadingCountries
  failed,       \* m_failedCountries
  localFiles,   \* m_localFiles: country -> versions
  checking,     \* m_isCheckUpdatesRunning
  fetch,        \* the text file the check is waiting for
  latest,       \* the version the check is about
  deferred,     \* m_pendingCountriesVersion, 0 if !m_hasPendingCountries
  calls,        \* GUI thread: what the running event still has to do
  gui,          \* GUI thread: tasks posted to it
  fileThread,   \* File thread: its tasks
  network,      \* Network thread: its tasks
  disk,         \* the map files: country, version, and whether intact
  ready,        \* the downloaded files (.ready) not yet installed
  countriesTxt, \* version of the saved countries.txt, 0 if there is none
  saved,        \* the download queue in the settings
  mwm,          \* country -> the version MwmSet has registered, or 0
  doomed,       \* deregistered maps that are still in use
  left          \* how many events may still come

queueVars == <<queue, pending, request>>
serverVars == <<servers, requested>>
countryVars == <<downloading, failed, localFiles>>
checkVars == <<version, checking, fetch, latest, deferred>>
threadVars == <<fileThread, network>>
diskVars == <<disk, ready, countriesTxt>>
mwmVars == <<mwm, doomed>>

vars == <<queueVars, serverVars, countryVars, checkVars, calls, gui, threadVars,
          diskVars, saved, mwmVars, left>>

Versions == 1..MaxVersion
Nodes == DOMAIN Subtree
Request == [id : Leaves, version : Versions, served : BOOLEAN]
NoRequest == [id |-> NoCountry, version |-> 0, served |-> FALSE]

\* A call or a task: what, for which country, and one more argument.
Task(op, c, v) == [op |-> op, id |-> c, arg |-> v]
Do(op) == Task(op, NoCountry, 0)

-----------------------------------------------------------------------------
(* The running event. *)

Idle == calls = <<>>
Doing(op) == ~Idle /\ Head(calls).op = op
This == Head(calls).id
Arg == Head(calls).arg
Return == calls' = Tail(calls)
Call(tasks) == calls' = tasks \o Tail(calls)

\* An event of the user or of the environment, bounded by MaxEvents.
MayHappen(event) == event \in Events /\ left > 0
Event(event) == Idle /\ MayHappen(event) /\ left' = left - 1

RunGuiTask ==
  /\ Idle /\ gui # <<>>
  /\ calls' = <<Head(gui)>>
  /\ gui' = Tail(gui)
  /\ UNCHANGED <<queueVars, serverVars, countryVars, checkVars, threadVars, diskVars,
                 saved, mwmVars, left>>

-----------------------------------------------------------------------------
(* Helpers. *)

\* Mutant: the pending requests do not count.
GetStartedQueue == queue

\* HttpMapFilesDownloader::GetQueue.
GetQueue == IF queue = <<>> THEN pending ELSE queue
IsCountryInQueue(c) == Contains(GetQueue, c)

IsIdleForCountriesApply == downloading = {}

\* CountryStatusEx(c) = OnDisk: up to date, and nothing else is going on.
IsOnDisk(c) == /\ c \notin failed /\ ~IsCountryInQueue(c)
               /\ localFiles[c] # {} /\ Max(localFiles[c]) = version

Of(files, c, v) == {f \in files : f.id = c /\ f.version = v}

\* Mutant: the directory of the current version is skipped too.
KnownBefore(files, c, v) ==
  {f.version : f \in {g \in files : g.id = c /\ g.version < v}}

\* FindAllLocalMapsAndCleanup(v) skips the directories of versions after v.
Known(files, c, v) == {f.version : f \in {g \in files : g.id = c /\ g.version <= v}}

\* Of several maps of a country RegisterAllLocalMaps keeps the latest.
LocalMaps(v) ==
  [c \in Leaves |-> IF Known(disk, c, v) = {} THEN {} ELSE {Max(Known(disk, c, v))}]

RegisterAllLocalMaps(v) ==
  /\ localFiles' = LocalMaps(v)
  /\ disk' = {f \in disk : f.version > v \/ f.version \in LocalMaps(v)[f.id]}
  /\ ready' = {f \in ready : f.version >= v}

\* NotifyCheckUpdatesResult, up to its call of StartPendingMapDownloads.
EndCheck == checking' = FALSE /\ fetch' = "none"

\* RunCountriesCheckAsyncSaveOnly when no check is running.
\* DownloadAsStringFromMeta does nothing while a text file is being downloaded.
StartCheck == checking' = TRUE /\ fetch' = IF fetch = "none" THEN "maps" ELSE fetch

\* EnsureMetaConfigReady has to ask the metaserver first.
AskMetaServer(then) ==
  /\ requested' = TRUE
  /\ network' = Append(network, Do(then))

\* Mutant: only maps that were in use are ever deleted.
DeletesNothing(c, held) == {}

\* The map the set of maps has for c is deregistered: its file is deleted at once
\* (OnMapDeregistered, DeleteCustomCountryVersion), or once nobody uses it.
Dooms(c, held) == IF held THEN {<<c, mwm[c]>>} ELSE {}
Deletes(c, held) == IF held THEN {} ELSE Of(disk, c, mwm[c])
MayBeHeld == IF "hold" \in Events THEN BOOLEAN ELSE {FALSE}

-----------------------------------------------------------------------------
(* DownloadNode, RetryDownloadNode: DownloadCountry for leaf after leaf. *)

\* A downloaded map of n is still to be verified and installed, or n waits among the
\* pending requests that GetQueue does not show: Storage does not know, and downloads
\* the map again.
IsAskedAgain(n) ==
  \E c \in Range(Subtree[n]) :
    \/ Contains(pending, c) /\ ~IsCountryInQueue(c)
    \/ \E task \in Range(fileThread) \cup Range(gui) :
         task.id = c /\ task.op \in {"sha", "verified", "rejected"}

DownloadNode(n) ==
  /\ Event("download")
  /\ IsAskedAgain(n) => "impatient" \in Events
  /\ calls' = [k \in DOMAIN Subtree[n] |-> Task("download", Subtree[n][k], 0)]
  /\ UNCHANGED <<queueVars, serverVars, countryVars, checkVars, gui, threadVars,
                 diskVars, saved, mwmVars>>

RetryDownloadNode(n) ==
  /\ Event("retry")
  /\ IsAskedAgain(n) => "impatient" \in Events
  /\ calls' = [k \in DOMAIN Subtree[n] |-> Task("retry", Subtree[n][k], 0)]
  /\ UNCHANGED <<queueVars, serverVars, countryVars, checkVars, gui, threadVars,
                 diskVars, saved, mwmVars>>

Wanted == /\ Doing("download") \/ (Doing("retry") /\ This \in failed)
          /\ ~IsOnDisk(This) /\ ~IsCountryInQueue(This)

DownloadNothing ==
  /\ Doing("download") \/ Doing("retry")
  /\ ~Wanted
  /\ Return
  /\ UNCHANGED <<queueVars, serverVars, countryVars, checkVars, gui, threadVars,
                 diskVars, saved, mwmVars, left>>

\* PreparePlaceForCountryFiles fails.
DownloadImpossible ==
  /\ Wanted /\ MayHappen("nodirectory") /\ left' = left - 1
  /\ failed' = failed \cup {This}
  /\ Return
  /\ UNCHANGED <<queueVars, serverVars, downloading, localFiles, checkVars, gui,
                 threadVars, diskVars, saved, mwmVars>>

\* IsFileDownloaded.
DownloadFound ==
  /\ Wanted /\ Of(ready, This, version) # {}
  /\ failed' = failed \ {This}
  /\ Call(<<Task("register", This, 0)>>)
  /\ UNCHANGED <<queueVars, serverVars, downloading, localFiles, checkVars, gui,
                 threadVars, diskVars, saved, mwmVars, left>>

DownloadQueued ==
  /\ Wanted /\ Of(ready, This, version) = {}
  /\ failed' = failed \ {This}
  /\ pending' = Append(pending, This)
  /\ saved' = IF queue = <<>> THEN pending' ELSE queue
  /\ LET needCheck == IsIdleForCountriesApply /\ GetQueue = <<>> /\ pending = <<>>
     IN  \/ /\ checking \/ needCheck
            /\ IF checking THEN UNCHANGED <<checking, fetch>> ELSE StartCheck
            /\ Return
         \/ /\ ~checking /\ ~needCheck
            /\ Call(<<Do("startPending")>>)
            /\ UNCHANGED <<checking, fetch>>
  /\ UNCHANGED <<queue, request, serverVars, downloading, localFiles, version, latest,
                 deferred, gui, threadVars, diskVars, mwmVars, left>>

-----------------------------------------------------------------------------
(* StartPendingMapDownloads: from the pending requests to the queue. *)

Enqueue(s) == [k \in DOMAIN s |-> Task("enqueue", s[k], 0)] \o <<Do("clearPending")>>

StartPending ==
  /\ Doing("startPending")
  /\ IF pending # <<>> /\ servers THEN Call(Enqueue(pending)) ELSE Return
  /\ IF pending # <<>> /\ ~servers /\ ~requested
       THEN AskMetaServer("downloadPending")
       ELSE UNCHANGED <<requested, network>>
  /\ UNCHANGED <<queueVars, servers, countryVars, checkVars, gui, fileThread, diskVars,
                 saved, mwmVars, left>>

\* RunMetaConfigAsync on the Network thread; LoadMetaConfig always finds servers.
GetMetaConfig ==
  /\ network # <<>>
  /\ gui' = Append(gui, Head(network))
  /\ network' = Tail(network)
  /\ UNCHANGED <<queueVars, serverVars, countryVars, checkVars, calls, fileThread,
                 diskVars, saved, mwmVars, left>>

\* ... and its callback on the GUI thread.
GotServersForMaps ==
  /\ Doing("downloadPending")
  /\ servers' = TRUE /\ requested' = FALSE
  /\ Call(Enqueue(pending))
  /\ UNCHANGED <<queueVars, countryVars, checkVars, gui, threadVars, diskVars, saved,
                 mwmVars, left>>

GotServersForText ==
  /\ Doing("countries") \/ Doing("signature")
  /\ servers' = TRUE /\ requested' = FALSE
  /\ fetch' = Head(calls).op
  /\ Return
  /\ UNCHANGED <<queueVars, countryVars, version, checking, latest, deferred, gui,
                 threadVars, diskVars, saved, mwmVars, left>>

\* The user chose another server for the maps.
ResetMapDownloadMetaConfig ==
  /\ Event("newServer")
  /\ servers' = FALSE /\ requested' = FALSE
  /\ UNCHANGED <<queueVars, countryVars, checkVars, calls, gui, threadVars, diskVars,
                 saved, mwmVars>>

\* Queue::Append, which saves the queue, and Download() if it is the only one.
EnqueueCountry ==
  /\ Doing("enqueue")
  /\ queue' = Append(queue, This)
  /\ saved' = queue'
  /\ IF queue = <<>> THEN Call(<<Do("request")>>) ELSE Return
  /\ UNCHANGED <<pending, request, serverVars, countryVars, checkVars, gui, threadVars,
                 diskVars, mwmVars, left>>

ClearPending ==
  /\ Doing("clearPending")
  /\ pending' = <<>>
  /\ Return
  /\ UNCHANGED <<queue, request, serverVars, countryVars, checkVars, gui, threadVars,
                 diskVars, saved, mwmVars, left>>

-----------------------------------------------------------------------------
(* HttpMapFilesDownloader: one request at a time, for the top of the queue. *)

\* The servers that are known now give the request its URLs.  Without any URL
\* FileHttpRequest starts no thread, and never reports that it ended.
StartRequest ==
  /\ Doing("request")
  /\ downloading' = downloading \cup {Head(queue)}
  /\ request' = [id |-> Head(queue), version |-> version, served |-> servers]
  /\ Return
  /\ UNCHANGED <<queue, pending, serverVars, failed, localFiles, checkVars, gui,
                 threadVars, diskVars, saved, mwmVars, left>>

\* HttpRequest::GetFile cannot create the file and returns a null pointer.
StartRequestWithoutFile ==
  /\ Doing("request") /\ MayHappen("nofile") /\ left' = left - 1
  /\ downloading' = downloading \cup {Head(queue)}
  /\ request' = NoRequest
  /\ Return
  /\ UNCHANGED <<queue, pending, serverVars, failed, localFiles, checkVars, gui,
                 threadVars, diskVars, saved, mwmVars>>

\* The policy forbids to download: OnMapFileDownloaded is called at once.
RequestForbidden ==
  /\ Doing("request") /\ MayHappen("cellular") /\ left' = left - 1
  /\ queue' = Tail(queue)
  /\ request' = NoRequest
  /\ downloading' = downloading \ {Head(queue)}
  /\ failed' = failed \cup {Head(queue)}
  /\ Call(<<Do("finish"), Do("next")>>)
  /\ UNCHANGED <<pending, serverVars, localFiles, checkVars, gui, threadVars, diskVars,
                 saved, mwmVars>>

IsOfTheTop == request # NoRequest /\ queue # <<>> /\ Head(queue) = request.id

\* OnMapFileDownloaded, Storage::OnDownloadFinished: the checksum comes next.
RequestCompleted(intact) ==
  /\ Idle /\ IsOfTheTop /\ request.served
  /\ intact \/ MayHappen("corrupt")
  /\ left' = IF intact THEN left ELSE left - 1
  /\ queue' = Tail(queue)
  /\ downloading' = downloading \ {request.id}
  /\ ready' = (ready \ Of(ready, request.id, request.version))
                \cup {[id |-> request.id, version |-> request.version, intact |-> intact]}
  /\ fileThread' = Append(fileThread, Task("sha", request.id, version))
  /\ calls' = <<Do("next")>>
  /\ UNCHANGED <<pending, request, serverVars, failed, localFiles, checkVars, gui,
                 network, disk, countriesTxt, saved, mwmVars>>

RequestFailed ==
  /\ Event("failure") /\ IsOfTheTop /\ request.served
  /\ queue' = Tail(queue)
  /\ downloading' = downloading \ {request.id}
  /\ failed' = failed \cup {request.id}
  /\ calls' = <<Do("finish"), Do("next")>>
  /\ UNCHANGED <<pending, request, serverVars, localFiles, checkVars, gui, threadVars,
                 diskVars, saved, mwmVars>>

\* Mutant: the next request is left to the next download.
NextRequestLater ==
  /\ Doing("next")
  /\ request' = NoRequest
  /\ Return
  /\ UNCHANGED <<queue, pending, serverVars, countryVars, checkVars, gui, threadVars,
                 diskVars, saved, mwmVars, left>>

\* The end of OnMapFileDownloaded.
NextRequest ==
  /\ Doing("next")
  /\ request' = NoRequest
  /\ IF queue # <<>> THEN Call(<<Do("request")>>) ELSE Return
  /\ UNCHANGED <<queue, pending, serverVars, countryVars, checkVars, gui, threadVars,
                 diskVars, saved, mwmVars, left>>

\* Mutant: a file with a wrong checksum is not deleted.
CheckShaOnly ==
  /\ fileThread # <<>> /\ Head(fileThread).op = "sha"
  /\ LET task == Head(fileThread)
         ok == \E f \in Of(ready, task.id, task.arg) : f.intact
     IN  gui' = Append(gui, Task(IF ok THEN "verified" ELSE "rejected", task.id, 0))
  /\ fileThread' = Tail(fileThread)
  /\ UNCHANGED <<queueVars, serverVars, countryVars, checkVars, calls, network,
                 diskVars, saved, mwmVars, left>>

\* On the File thread.  A file that is missing has no good checksum either.
CheckSha ==
  /\ fileThread # <<>> /\ Head(fileThread).op = "sha"
  /\ LET task == Head(fileThread)
         files == Of(ready, task.id, task.arg)
         ok == \E f \in files : f.intact
     IN  /\ gui' = Append(gui, Task(IF ok THEN "verified" ELSE "rejected", task.id, 0))
         /\ ready' = IF ok THEN ready ELSE ready \ files
  /\ fileThread' = Tail(fileThread)
  /\ UNCHANGED <<queueVars, serverVars, countryVars, checkVars, calls, network, disk,
                 countriesTxt, saved, mwmVars, left>>

\* finishFn on the GUI thread.
Verified ==
  /\ Doing("verified")
  /\ Call(<<Task("register", This, 0), Do("finish")>>)
  /\ UNCHANGED <<queueVars, serverVars, countryVars, checkVars, gui, threadVars, diskVars,
                 saved, mwmVars, left>>

Rejected ==
  /\ Doing("rejected")
  /\ failed' = failed \cup {This}
  /\ Call(<<Do("finish")>>)
  /\ UNCHANGED <<queueVars, serverVars, downloading, localFiles, checkVars, gui,
                 threadVars, diskVars, saved, mwmVars, left>>

\* RegisterDownloadedFiles: the file gets its name, and Framework registers it in
\* the set of maps, where it replaces the old version or revives itself.
RegisterDownloadedFiles ==
  LET c == This
      file == Of(ready, c, version)
      replaced == mwm[c] \notin {0, version}
  IN
  /\ Doing("register") /\ file # {}
  /\ \E held \in MayBeHeld :
       /\ disk' = (disk \ (Of(disk, c, version)
                           \cup IF replaced THEN Deletes(c, held) ELSE {})) \cup file
       /\ doomed' = (doomed \ {<<c, version>>})
                      \cup IF replaced THEN Dooms(c, held) ELSE {}
  /\ mwm' = [mwm EXCEPT ![c] = version]
  /\ ready' = ready \ file
  /\ localFiles' = [localFiles EXCEPT ![c] = @ \cup {version}]
  /\ saved' = GetQueue
  /\ Return
  /\ UNCHANGED <<queueVars, serverVars, downloading, failed, checkVars, gui, threadVars,
                 countriesTxt, left>>

\* RenameFileX fails: a map of this version that was registered is deleted.
RegisterMissingFile ==
  /\ Doing("register") /\ Of(ready, This, version) = {}
  /\ disk' = IF version \in localFiles[This] THEN disk \ Of(disk, This, version) ELSE disk
  /\ failed' = failed \cup {This}
  /\ Return
  /\ UNCHANGED <<queueVars, serverVars, downloading, localFiles, checkVars, gui,
                 threadVars, ready, countriesTxt, saved, mwmVars, left>>

-----------------------------------------------------------------------------
(* OnFinishDownloading and the application of a new countries.txt. *)

FinishDownloading ==
  /\ Doing("finish")
  /\ GetQueue # <<>> \/ deferred = 0 \/ ~IsIdleForCountriesApply
  /\ Return
  /\ UNCHANGED <<queueVars, serverVars, countryVars, checkVars, gui, threadVars, diskVars,
                 saved, mwmVars, left>>

ApplyPendingCountries ==
  /\ Doing("finish")
  /\ GetQueue = <<>> /\ deferred # 0 /\ IsIdleForCountriesApply
  /\ deferred' = 0
  /\ IF deferred > version
       THEN Call(<<Task("apply", NoCountry, deferred)>>) /\ UNCHANGED <<checking, fetch>>
       ELSE Call(<<Do("startPending")>>) /\ EndCheck
  /\ UNCHANGED <<queueVars, serverVars, countryVars, version, latest, gui, threadVars,
                 diskVars, saved, mwmVars, left>>

ApplyCountriesInMemory ==
  /\ Doing("apply")
  /\ version' = Arg
  /\ RegisterAllLocalMaps(Arg)
  /\ EndCheck
  /\ Call(<<Do("startPending")>>)
  /\ UNCHANGED <<queueVars, serverVars, downloading, failed, latest, deferred, gui,
                 threadVars, countriesTxt, saved, mwmVars, left>>

\* The GUI task of PersistAndApplyCountries.
ApplyOrDefer ==
  /\ Doing("applyOrDefer")
  /\ \/ /\ IsIdleForCountriesApply
        /\ Call(<<Task("apply", NoCountry, Arg)>>)
        /\ UNCHANGED <<checking, fetch, deferred, left>>
     \/ /\ \/ ~IsIdleForCountriesApply /\ UNCHANGED left
           \/ MayHappen("noworlds") /\ left' = left - 1
        /\ IF deferred = 0 \/ Arg > deferred
             THEN deferred' = Arg /\ Return /\ UNCHANGED <<checking, fetch>>
             ELSE EndCheck /\ Call(<<Do("startPending")>>) /\ UNCHANGED deferred
  /\ UNCHANGED <<queueVars, serverVars, countryVars, version, latest, gui, threadVars,
                 diskVars, saved, mwmVars>>

-----------------------------------------------------------------------------
(* The check for updates: maps.json, countries.txt, its signature. *)

\* "fetch" is the text file that m_fileRequest loads: "maps", "countries" or
\* "signature", "servers" while the metaserver is asked first, "none" at the end.
\* NotifyCheckUpdatesResult with an error, or with no update.
GiveUpCheck ==
  /\ EndCheck
  /\ calls' = <<Do("startPending")>>

\* Mutant: m_isCheckUpdatesRunning is not looked at.
RunSecondCheck ==
  /\ Event("check")
  /\ StartCheck
  /\ UNCHANGED <<queueVars, serverVars, countryVars, version, latest, deferred, calls,
                 gui, threadVars, diskVars, saved, mwmVars>>

\* MWMStorage, MapManager, UpdateDialog, Framework: the user asks for a check.
RunCountriesCheck ==
  /\ Event("check")
  /\ IF checking THEN UNCHANGED <<checking, fetch>> ELSE StartCheck
  /\ UNCHANGED <<queueVars, serverVars, countryVars, version, latest, deferred, calls,
                 gui, threadVars, diskVars, saved, mwmVars>>

\* Mutant: the check ends without NotifyCheckUpdatesResult.
TextRefusedUnnoticed ==
  /\ Idle /\ fetch \in {"maps", "countries", "signature"}
  /\ fetch = "maps" \/ MayHappen("garbled")
  /\ left' = IF fetch = "maps" THEN left ELSE left - 1
  /\ fetch' = "none"
  /\ UNCHANGED <<queueVars, serverVars, countryVars, version, checking, latest, deferred,
                 calls, gui, threadVars, diskVars, saved, mwmVars>>

\* The text brings no new version, cannot be read, or has a wrong signature.
TextRefused ==
  /\ Idle /\ fetch \in {"maps", "countries", "signature"}
  /\ fetch = "maps" \/ MayHappen("garbled")
  /\ left' = IF fetch = "maps" THEN left ELSE left - 1
  /\ GiveUpCheck
  /\ UNCHANGED <<queueVars, serverVars, countryVars, version, latest, deferred, gui,
                 threadVars, diskVars, saved, mwmVars>>

\* The download failed: the callback is called all the same, with an empty text.
FetchFailed ==
  /\ Event("offline") /\ fetch \in {"maps", "countries", "signature"}
  /\ GiveUpCheck
  /\ UNCHANGED <<queueVars, serverVars, countryVars, version, latest, deferred, gui,
                 threadVars, diskVars, saved, mwmVars>>

\* A new version: the servers may not have it, so that they are asked for again.
MapsFetched(v) ==
  /\ Event("update") /\ fetch = "maps"
  /\ v > version
  /\ latest' = v
  /\ servers' = FALSE
  /\ AskMetaServer("countries")
  /\ fetch' = "servers"
  /\ UNCHANGED <<queueVars, countryVars, version, checking, deferred, calls, gui,
                 fileThread, diskVars, saved, mwmVars>>

\* EnsureMetaConfigReady may skip the signature, but no request can be pending.
CountriesFetched ==
  /\ Idle /\ fetch = "countries"
  /\ fetch' = IF servers THEN "signature" ELSE "servers"
  /\ IF ~servers /\ ~requested
       THEN AskMetaServer("signature") ELSE UNCHANGED <<requested, network>>
  /\ UNCHANGED <<queueVars, servers, countryVars, version, checking, latest, deferred,
                 calls, gui, fileThread, diskVars, saved, mwmVars, left>>

\* PersistAndApplyCountries.
SignatureFetched ==
  /\ Idle /\ fetch = "signature"
  /\ fetch' = "none"
  /\ fileThread' = Append(fileThread, Task("save", NoCountry, latest))
  /\ gui' = Append(gui, Task("applyOrDefer", NoCountry, latest))
  /\ UNCHANGED <<queueVars, serverVars, countryVars, version, checking, latest, deferred,
                 calls, network, diskVars, saved, mwmVars, left>>

\* SaveCountriesToWritableDirAtomic on the File thread: a temporary file is
\* written, the old file is removed, the temporary file gets its name.
RemoveCountriesTxt ==
  /\ fileThread # <<>> /\ Head(fileThread).op = "save"
  /\ countriesTxt' = 0
  /\ fileThread' = <<[Head(fileThread) EXCEPT !.op = "rename"]>> \o Tail(fileThread)
  /\ UNCHANGED <<queueVars, serverVars, countryVars, checkVars, calls, gui, network, disk,
                 ready, saved, mwmVars, left>>

RenameCountriesTxt ==
  /\ fileThread # <<>> /\ Head(fileThread).op = "rename"
  /\ countriesTxt' = Head(fileThread).arg
  /\ fileThread' = Tail(fileThread)
  /\ UNCHANGED <<queueVars, serverVars, countryVars, checkVars, calls, gui, network, disk,
                 ready, saved, mwmVars, left>>

\* The temporary file cannot be written, or does not get its name.
SaveCountriesFails ==
  /\ fileThread # <<>> /\ Head(fileThread).op \in {"save", "rename"}
  /\ MayHappen("nospace") /\ left' = left - 1
  /\ fileThread' = Tail(fileThread)
  /\ UNCHANGED <<queueVars, serverVars, countryVars, checkVars, calls, gui, network,
                 diskVars, saved, mwmVars>>

-----------------------------------------------------------------------------
(* Cancelling and deleting. *)

\* The queue is read once; the entry that is erased is that of the node.
CancelSteps(n) ==
  LET queued == Range(GetQueue)
      Leaf(c) == (IF c \in queued THEN <<Task("remove", c, 0)>> ELSE <<>>)
                   \o <<Task("forgive", c, 0)>>
  IN  FlattenSeq([k \in DOMAIN Subtree[n] |-> Leaf(Subtree[n][k])])
        \o IF n \in Leaves THEN <<Task("stop", n, 0)>> ELSE <<>>

CancelDownloadNode(n) ==
  /\ Event("cancel")
  /\ calls' = CancelSteps(n)
  /\ UNCHANGED <<queueVars, serverVars, countryVars, checkVars, gui, threadVars,
                 diskVars, saved, mwmVars>>

Forgive ==
  /\ Doing("forgive")
  /\ failed' = failed \ {This}
  /\ Return
  /\ UNCHANGED <<queueVars, serverVars, downloading, localFiles, checkVars, gui,
                 threadVars, diskVars, saved, mwmVars, left>>

Stop ==
  /\ Doing("stop")
  /\ downloading' = downloading \ {This}
  /\ Return
  /\ UNCHANGED <<queueVars, serverVars, failed, localFiles, checkVars, gui, threadVars,
                 diskVars, saved, mwmVars, left>>

\* DeleteCountryFilesFromDownloader: HttpMapFilesDownloader::Remove, which starts
\* the next request, and the downloader's files.
RemoveFromQueue ==
  LET c == This
      atTop == queue # <<>> /\ Head(queue) = c
      request1 == IF atTop THEN NoRequest ELSE request
      queue1 == RemoveFirst(queue, c)
  IN
  /\ Doing("remove")
  /\ pending' = RemoveFirst(pending, c)
  /\ queue' = queue1
  /\ request' = request1
  /\ Call((IF Contains(queue, c) /\ queue1 # <<>> /\ request1 = NoRequest
             THEN <<Do("request")>> ELSE <<>>) \o <<Task("cleanup", c, 0)>>)
  /\ UNCHANGED <<serverVars, countryVars, checkVars, gui, threadVars, diskVars, saved,
                 mwmVars, left>>

CleanUp ==
  /\ Doing("cleanup")
  /\ ready' = ready \ Of(ready, This, version)
  /\ saved' = GetQueue
  /\ Return
  /\ UNCHANGED <<queueVars, serverVars, countryVars, checkVars, gui, threadVars, disk,
                 countriesTxt, mwmVars, left>>

DeleteNode(n) ==
  /\ Event("delete")
  /\ calls' = [k \in DOMAIN Subtree[n] |-> Task("delete", Subtree[n][k], 0)]
  /\ UNCHANGED <<queueVars, serverVars, countryVars, checkVars, gui, threadVars,
                 diskVars, saved, mwmVars>>

\* Mutant: the map is deleted without deregistering it.
DeleteShownCountry ==
  /\ Doing("delete") /\ localFiles[This] # {}
  /\ disk' = disk \ Of(disk, This, mwm[This])
  /\ localFiles' = [localFiles EXCEPT ![This] = {}]
  /\ Call(<<Task("remove", This, 0), Task("stop", This, 0)>>)
  /\ UNCHANGED <<queueVars, serverVars, downloading, failed, checkVars, gui, threadVars,
                 ready, countriesTxt, saved, mwmVars, left>>

\* DeleteCountry: Framework::OnCountryFileDelete deregisters the map.
DeleteCountry ==
  LET c == This IN
  /\ Doing("delete") /\ localFiles[c] # {}
  /\ \E held \in MayBeHeld :
       /\ disk' = IF mwm[c] = 0 THEN disk ELSE disk \ Deletes(c, held)
       /\ doomed' = IF mwm[c] = 0 THEN doomed ELSE doomed \cup Dooms(c, held)
  /\ mwm' = [mwm EXCEPT ![c] = 0]
  /\ localFiles' = [localFiles EXCEPT ![c] = {}]
  /\ Call(<<Task("remove", c, 0), Task("stop", c, 0)>>)
  /\ UNCHANGED <<queueVars, serverVars, downloading, failed, checkVars, gui, threadVars,
                 ready, countriesTxt, saved, left>>

DeleteNothing ==
  /\ Doing("delete") /\ localFiles[This] = {}
  /\ Return
  /\ UNCHANGED <<queueVars, serverVars, countryVars, checkVars, gui, threadVars, diskVars,
                 saved, mwmVars, left>>

-----------------------------------------------------------------------------
(* The set of maps, used by other threads. *)

\* The last handle to a deregistered map is released on another thread.
ReleaseMap(c, v) ==
  /\ <<c, v>> \in doomed
  /\ doomed' = doomed \ {<<c, v>>}
  /\ gui' = Append(gui, Task("deleteFile", c, v))
  /\ UNCHANGED <<queueVars, serverVars, countryVars, checkVars, calls, threadVars,
                 diskVars, saved, mwm, left>>

\* A thread opens a damaged map: the set deregisters it.
FindBadMap(c) ==
  /\ mwm[c] # 0 /\ \E f \in Of(disk, c, mwm[c]) : ~f.intact
  /\ MayHappen("bad") /\ left' = left - 1
  /\ mwm' = [mwm EXCEPT ![c] = 0]
  /\ gui' = Append(gui, Task("deleteFile", c, mwm[c]))
  /\ UNCHANGED <<queueVars, serverVars, countryVars, checkVars, calls, threadVars,
                 diskVars, saved, doomed>>

\* Mutant: the file that is deleted is the one the country has now.
DeleteShownVersion ==
  /\ Doing("deleteFile")
  /\ disk' = disk \ Of(disk, This, mwm[This])
  /\ Return
  /\ UNCHANGED <<queueVars, serverVars, countryVars, checkVars, gui, threadVars, ready,
                 countriesTxt, saved, mwmVars, left>>

\* DeleteCustomCountryVersion, posted to the GUI thread by OnMapDeregistered.
DeleteCustomCountryVersion ==
  /\ Doing("deleteFile")
  /\ disk' = disk \ Of(disk, This, Arg)
  /\ Return
  /\ UNCHANGED <<queueVars, serverVars, countryVars, checkVars, gui, threadVars, ready,
                 countriesTxt, saved, mwmVars, left>>

-----------------------------------------------------------------------------
(* The application is killed, and started again. *)

NewerOf(v, w) == IF v > w THEN v ELSE w

\* A new countries.txt is still to be saved, or to get its name.
Saving == \E task \in Range(fileThread) : task.op \in {"save", "rename"}

\* That it is killed before the new countries.txt is there is an event of its own.
Restart ==
  LET v == NewerOf(Bundled, countriesTxt) IN
  /\ MayHappen(IF Saving THEN "crashInSave" ELSE "crash") /\ left' = left - 1
  /\ version' = v
  /\ RegisterAllLocalMaps(v)
  /\ mwm' = [c \in Leaves |-> IF LocalMaps(v)[c] = {} THEN 0 ELSE Max(LocalMaps(v)[c])]
  /\ queue' = <<>> /\ pending' = <<>> /\ request' = NoRequest
  /\ servers' = FALSE /\ requested' = FALSE
  /\ downloading' = {} /\ failed' = {}
  /\ checking' = FALSE /\ fetch' = "none" /\ latest' = 0 /\ deferred' = 0
  /\ gui' = <<>> /\ fileThread' = <<>> /\ network' = <<>>
  /\ doomed' = {}
  /\ calls' = [k \in DOMAIN saved |-> Task("download", saved[k], 0)]
  /\ UNCHANGED <<countriesTxt, saved>>

-----------------------------------------------------------------------------
(* The specification. *)

\* The application starts for the first time, with any maps of its first version.
Init ==
  /\ version = Bundled
  /\ \E installed \in SUBSET Leaves :
       /\ disk = {[id |-> c, version |-> Bundled, intact |-> TRUE] : c \in installed}
       /\ localFiles = [c \in Leaves |-> IF c \in installed THEN {Bundled} ELSE {}]
       /\ mwm = [c \in Leaves |-> IF c \in installed THEN Bundled ELSE 0]
  /\ queue = <<>> /\ pending = <<>> /\ request = NoRequest
  /\ servers = FALSE /\ requested = FALSE
  /\ downloading = {} /\ failed = {}
  /\ checking = FALSE /\ fetch = "none" /\ latest = 0 /\ deferred = 0
  /\ calls = <<>> /\ gui = <<>> /\ fileThread = <<>> /\ network = <<>>
  /\ ready = {} /\ countriesTxt = 0 /\ saved = <<>>
  /\ doomed = {} /\ left = MaxEvents

\* What users, servers, devices and other threads may do.
Environment ==
  \/ \E n \in Nodes : \/ DownloadNode(n) \/ RetryDownloadNode(n)
                      \/ CancelDownloadNode(n) \/ DeleteNode(n)
  \/ ResetMapDownloadMetaConfig
  \/ RunCountriesCheck
  \/ \E v \in Versions : MapsFetched(v)
  \/ \E c \in Leaves : FindBadMap(c)
  \/ Restart

\* What the running event does.
Handlers ==
  \/ DownloadNothing \/ DownloadImpossible \/ DownloadFound \/ DownloadQueued
  \/ StartPending \/ GotServersForMaps \/ GotServersForText
  \/ EnqueueCountry \/ ClearPending
  \/ StartRequest \/ StartRequestWithoutFile \/ RequestForbidden \/ NextRequest
  \/ Verified \/ Rejected \/ RegisterDownloadedFiles \/ RegisterMissingFile
  \/ FinishDownloading \/ ApplyPendingCountries
  \/ ApplyCountriesInMemory \/ ApplyOrDefer
  \/ Forgive \/ Stop \/ RemoveFromQueue \/ CleanUp
  \/ DeleteCountry \/ DeleteNothing \/ DeleteCustomCountryVersion

GuiThread == RunGuiTask \/ Handlers

Download == RequestFailed \/ \E intact \in BOOLEAN : RequestCompleted(intact)
Fetch == TextRefused \/ FetchFailed \/ CountriesFetched \/ SignatureFetched
FileThread == CheckSha \/ RemoveCountriesTxt \/ RenameCountriesTxt \/ SaveCountriesFails
Release == \E c \in Leaves, v \in Versions : ReleaseMap(c, v)

Next == Environment \/ GuiThread \/ Download \/ Fetch \/ FileThread \/ GetMetaConfig \/ Release

Spec == Init /\ [][Next]_vars

\* Threads run, and every HTTP request that has a server ends one way or the other;
\* nothing forces a user to act or a thread to release a map.
Fairness ==
  /\ WF_vars(GuiThread) /\ WF_vars(Download) /\ WF_vars(Fetch)
  /\ WF_vars(FileThread) /\ WF_vars(GetMetaConfig)

FairSpec == Spec /\ Fairness

-----------------------------------------------------------------------------
(* Properties. *)

\* Every variable keeps its type, through every operation of Storage.
TypeOK ==
  /\ version \in Versions /\ latest \in 0..MaxVersion /\ deferred \in 0..MaxVersion
  /\ countriesTxt \in 0..MaxVersion
  /\ queue \in Seq(Leaves) /\ pending \in Seq(Leaves) /\ saved \in Seq(Leaves)
  /\ request = NoRequest \/ request \in Request
  /\ {servers, requested, checking} \subseteq BOOLEAN
  /\ fetch \in {"none", "maps", "servers", "countries", "signature"}
  /\ downloading \subseteq Leaves /\ failed \subseteq Leaves
  /\ localFiles \in [Leaves -> SUBSET Versions]
  /\ mwm \in [Leaves -> 0..MaxVersion]
  /\ doomed \subseteq Leaves \X Versions
  /\ \A f \in disk \cup ready : f.id \in Leaves /\ f.version \in Versions
  /\ left \in 0..MaxEvents

\* Between two events the one request that runs downloads the top of the queue,
\* and runs as long as there is a top (HttpMapFilesDownloader).
TopIsRequested ==
  Idle => IF queue = <<>> THEN request = NoRequest
                          ELSE request # NoRequest /\ request.id = Head(queue)

\* The tasks of a queue that do one of ops.
Tasks(name, tasks, ops) == {<<name, k>> : k \in {j \in DOMAIN tasks : tasks[j].op \in ops}}

\* Where a check for updates may be: in a request, put off, or in a task that will
\* go on with it or end it; and where the answer of the metaserver may be.
CheckPlaces ==
  (IF fetch = "none" THEN {} ELSE {<<"fetch", 1>>})
    \cup (IF deferred = 0 THEN {} ELSE {<<"deferred", 1>>})
    \cup Tasks("calls", calls, {"applyOrDefer", "apply"})
    \cup Tasks("gui", gui, {"applyOrDefer", "apply"})
ServerPlaces ==
  Tasks("calls", calls, {"countries", "signature"})
    \cup Tasks("gui", gui, {"countries", "signature"})
    \cup Tasks("network", network, {"countries", "signature"})

\* A check is in one place exactly, and when it waits for the metaserver the
\* answer is on its way (m_isCheckUpdatesRunning, m_fileRequest, m_hasPendingCountries).
CheckIsSomewhere ==
  /\ IF checking THEN \E p \in CheckPlaces : CheckPlaces = {p} ELSE CheckPlaces = {}
  /\ IF fetch = "servers" THEN \E p \in ServerPlaces : ServerPlaces = {p} ELSE ServerPlaces = {}

\* What waits to be downloaded is in the settings, to survive a restart: the queue always,
\* the pending requests at least when no check keeps them waiting (SaveDownloadQueue saves
\* what GetQueue returns, which leaves them out if there is a queue).
QueueIsSaved ==
  Idle => /\ Range(queue) \subseteq Range(saved)
          /\ checking \/ Range(pending) \subseteq Range(saved)

\* No map is installed whose checksum is wrong (OnDownloadFinished).
InstalledMapsAreVerified == \A f \in disk : f.intact

\* The map that is shown for a country has its file, whichever deletions of maps that
\* were in use are still to come (Framework, Storage, MwmSet).
ShownMapsHaveFiles == \A c \in Leaves : mwm[c] # 0 => Of(disk, c, mwm[c]) # {}

\* A map that is neither deleted nor doomed is one that Storage knows, and shows:
\* no file is forgotten on the disk.
FilesAreKnown ==
  \A f \in disk : \/ mwm[f.id] = f.version /\ f.version \in localFiles[f.id]
                  \/ <<f.id, f.version>> \in doomed
                  \/ \E t \in Range(gui) \cup Range(calls) :
                       t.op = "deleteFile" /\ t.id = f.id /\ t.arg = f.version

\* A country is marked as being downloaded only while it is in the queue: nothing
\* else keeps a new countries.txt from being applied (IsIdleForCountriesApply).
DownloadingIsQueued == Idle => downloading \subseteq Range(queue)

\* Cancelling a node takes all of it out of the queue.
CancelRemoves(n) ==
  CancelDownloadNode(n) =>
    \A c \in Range(Subtree[n]) : Contains(queue \o pending, c) =>
      Contains(calls', Task("remove", c, 0))
CancelledNodesLeaveTheQueue == [][\A n \in Nodes : CancelRemoves(n)]_vars

\* A new version is applied only when no map of the old one is being downloaded
\* (IsIdleForCountriesApply).
UpdatesWaitForRequests == [][ApplyCountriesInMemory => ~IsOfTheTop]_vars

\* The restart finds a map of c if one was shown.
FindsMap(c) ==
  mwm[c] # 0 /\ Of(disk, c, mwm[c]) # {} => localFiles'[c] # {}

\* A restart finds a map of every country that was shown, whatever versions were
\* downloaded before and after an update (Storage::Storage, RegisterAllLocalMaps).
RestartFindsMaps == [][Restart => \A c \in Leaves : FindsMap(c)]_vars

\* What is asserted of a request: it has a URL to download from, and so a server that
\* may answer or fail (FileHttpRequest).
RequestsHaveServers == request # NoRequest => request.served

\* What the comments on the text files promise: a download error calls no callback, so
\* that it neither ends the check nor calls what follows (map_files_downloader.hpp).
ErrorsSkipTheCallback == [][FetchFailed => UNCHANGED <<checking, calls>>]_vars

\* A country that waits to be downloaded is downloaded, fails or is cancelled.
DownloadsEnd ==
  \A c \in Leaves : Contains(queue \o pending, c) ~> ~Contains(queue \o pending, c)

\* The same, if every request has servers.
DownloadsWithServersEnd == []RequestsHaveServers => DownloadsEnd

\* A check for updates ends, so that the next one can start.
ChecksEnd == checking ~> ~checking
====
