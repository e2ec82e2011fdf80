------------------------------ MODULE ServiceSwap ------------------------------
(***************************************************************************)
(* Swapping the streaming service: enable_delay_mode, disable_delay_mode   *)
(* and refresh_delay_mode of src/src/plugin-main.c, with the service they  *)
(* put in place, src/src/delay-service.c.                                  *)
(*                                                                         *)
(* OBS keeps one streaming service per profile: the current profile's in   *)
(* memory, every profile's on disk.  The plugin keeps one file,            *)
(* original-service.json.  The menu handlers run on the UI thread without  *)
(* interruption, but OBS may crash between two of their steps.             *)
(***************************************************************************)
EXTENDS Integers

CONSTANTS
    Profiles,
    Accounts,       \* what the user may configure: a server and a key
    RtmpAccounts,   \* those with a key and an rtmp:// server
    NoService,      \* no original-service.json
    MaxEdits,       \* bound on edits of Settings > Stream
    MaxCrashes      \* bound on crashes of OBS

ASSUME ConstantsAssumption ==
    /\ RtmpAccounts \subseteq Accounts
    /\ {MaxEdits, MaxCrashes} \subseteq Nat
    /\ NoService \notin [kind : {"own", "delayed"}, account : Accounts]

VARIABLES
    profile,    \* the current profile
    service,    \* its streaming service, in memory
    disk,       \* the service saved in each profile
    original,   \* original-service.json
    handler,    \* where the menu handler under way is
    incoming,   \* the service it has created
    delayMode,  \* delay_mode of remote.c, as refresh_delay_mode last set it
    streaming,  \* obs_frontend_streaming_active
    edits,      \* number of edits (bound)
    crashes,    \* number of crashes (bound)
    \* history variables
    configured, \* the account the user last configured in each profile
    found,      \* the service enable_delay_mode last found in each profile
    enabledIn   \* the profile it last saved the original service of

boundVars   == <<edits, crashes>>
historyVars == <<configured, found, enabledIn>>
vars == <<profile, service, disk, original, handler, incoming, delayMode, streaming,
          boundVars, historyVars>>

Services == [kind : {"own", "delayed"}, account : Accounts]

Own(a) == [kind |-> "own", account |-> a]

\* The delayed service keeps the server and the key (svc_update, svc_connect_info).
Delayed(a) == [kind |-> "delayed", account |-> a]

TypeOK ==
    /\ profile \in Profiles
    /\ service \in Services
    /\ disk \in [Profiles -> Services]
    /\ original \in Services \cup {NoService}
    /\ handler \in {"none", "keep", "set", "save"}
    /\ incoming \in Services \cup {NoService}
    /\ delayMode \in BOOLEAN
    /\ streaming \in BOOLEAN
    /\ edits \in 0 .. MaxEdits
    /\ crashes \in 0 .. MaxCrashes
    /\ configured \in [Profiles -> Accounts]
    /\ found \in [Profiles -> Services \cup {NoService}]
    /\ enabledIn \in Profiles

Idle == handler = "none" /\ ~streaming

IsDelayed(s) == s.kind = "delayed"

--------------------------------------------------------------------------------
(***************************************************************************)
(* Tools menu                                                              *)
(***************************************************************************)

\* enable_delay_mode, up to the checks of the current service
BeginEnable ==
    /\ Idle
    /\ ~IsDelayed(service)
    /\ service.account \in RtmpAccounts
    /\ handler' = "keep"
    /\ found' = [found EXCEPT ![profile] = service]
    /\ UNCHANGED <<profile, service, disk, original, incoming, delayMode, streaming,
                   boundVars, configured, enabledIn>>

\* Mutant of KeepOriginal: the file is written only the first time.
KeepFirstOriginal ==
    /\ handler = "keep"
    /\ original' = IF original = NoService THEN service ELSE original
    /\ enabledIn' = profile
    /\ incoming' = Delayed(service.account)
    /\ handler' = "set"
    /\ UNCHANGED <<profile, service, disk, delayMode, streaming, boundVars, configured, found>>

\* Mutant of KeepOriginal: the delayed service is made from the file as it was.
KeepOriginalLate ==
    /\ handler = "keep"
    /\ original' = service
    /\ enabledIn' = profile
    /\ incoming' = Delayed(IF original = NoService THEN service.account ELSE original.account)
    /\ handler' = "set"
    /\ UNCHANGED <<profile, service, disk, delayMode, streaming, boundVars, configured, found>>

\* "Keep the original service to restore it later", then the new service is
\* created; the handler gives up if it cannot be.
KeepOriginal ==
    /\ handler = "keep"
    /\ original' = service
    /\ enabledIn' = profile
    /\ \/ handler' = "set" /\ incoming' = Delayed(service.account)
       \/ handler' = "none" /\ UNCHANGED incoming
    /\ UNCHANGED <<profile, service, disk, delayMode, streaming, boundVars, configured, found>>

\* disable_delay_mode, up to the creation of the service to restore
BeginDisable ==
    /\ Idle
    /\ original # NoService
    /\ handler' = "set"
    /\ incoming' = original
    /\ UNCHANGED <<profile, service, disk, original, delayMode, streaming, boundVars,
                   historyVars>>

\* obs_frontend_set_streaming_service
SetService ==
    /\ handler = "set"
    /\ service' = incoming
    /\ incoming' = NoService
    /\ handler' = "save"
    /\ UNCHANGED <<profile, disk, original, delayMode, streaming, boundVars, historyVars>>

\* obs_frontend_save_streaming_service, and refresh_delay_mode
SaveService ==
    /\ handler = "save"
    /\ disk' = [disk EXCEPT ![profile] = service]
    /\ delayMode' = IsDelayed(service)
    /\ handler' = "none"
    /\ UNCHANGED <<profile, service, original, incoming, streaming, boundVars, historyVars>>

--------------------------------------------------------------------------------
(***************************************************************************)
(* Frontend events, and what the user does in OBS                          *)
(***************************************************************************)

\* menu_status
ShowStatus ==
    /\ handler = "none"
    /\ delayMode' = IsDelayed(service)
    /\ UNCHANGED <<profile, service, disk, original, handler, incoming, streaming, boundVars,
                   historyVars>>

\* Settings > Stream replaces the service; no event tells of it.
EditSettings(a) ==
    /\ Idle
    /\ edits < MaxEdits
    /\ service' = Own(a)
    /\ disk' = [disk EXCEPT ![profile] = Own(a)]
    /\ configured' = [configured EXCEPT ![profile] = a]
    /\ edits' = edits + 1
    /\ UNCHANGED <<profile, original, handler, incoming, delayMode, streaming, crashes, found,
                   enabledIn>>

\* PROFILE_CHANGED
SwitchProfile(p) ==
    /\ Idle
    /\ p # profile
    /\ profile' = p
    /\ service' = disk[p]
    /\ delayMode' = IsDelayed(disk[p])
    /\ UNCHANGED <<disk, original, handler, incoming, streaming, boundVars, historyVars>>

\* Mutant of StartStreaming: refreshed by the profile and menu events alone.
StartStreamingUnrefreshed ==
    /\ Idle
    /\ streaming' = TRUE
    /\ UNCHANGED <<profile, service, disk, original, handler, incoming, delayMode, boundVars,
                   historyVars>>

\* STREAMING_STARTING
StartStreaming ==
    /\ Idle
    /\ streaming' = TRUE
    /\ delayMode' = IsDelayed(service)
    /\ UNCHANGED <<profile, service, disk, original, handler, incoming, boundVars, historyVars>>

StopStreaming ==
    /\ streaming
    /\ streaming' = FALSE
    /\ UNCHANGED <<profile, service, disk, original, handler, incoming, delayMode, boundVars,
                   historyVars>>

\* OBS goes down, in a handler or not, and comes up: FINISHED_LOADING
Crash ==
    /\ crashes < MaxCrashes
    /\ crashes' = crashes + 1
    /\ service' = disk[profile]
    /\ delayMode' = IsDelayed(disk[profile])
    /\ handler' = "none"
    /\ incoming' = NoService
    /\ streaming' = FALSE
    /\ UNCHANGED <<profile, disk, original, edits, historyVars>>

--------------------------------------------------------------------------------
Init ==
    /\ profile \in Profiles
    /\ configured \in [Profiles -> Accounts]
    /\ disk = [p \in Profiles |-> Own(configured[p])]
    /\ service = disk[profile]
    /\ original = NoService
    /\ handler = "none"
    /\ incoming = NoService
    /\ delayMode = FALSE
    /\ streaming = FALSE
    /\ edits = 0
    /\ crashes = 0
    /\ found = [p \in Profiles |-> NoService]
    /\ enabledIn = profile

Next ==
    \/ BeginEnable
    \/ KeepOriginal
    \/ BeginDisable
    \/ SetService
    \/ SaveService
    \/ ShowStatus
    \/ \E a \in Accounts : EditSettings(a)
    \/ \E p \in Profiles : SwitchProfile(p)
    \/ StartStreaming
    \/ StopStreaming
    \/ Crash

Spec == Init /\ [][Next]_vars

--------------------------------------------------------------------------------
(***************************************************************************)
(* Properties                                                              *)
(***************************************************************************)

\* Whenever OBS may crash, a delayed service on disk can be undone: the
\* original is on disk too, and for the profile that enabled delay mode last
\* it is the service found there (enable_delay_mode).
Recoverable ==
    \A p \in Profiles :
        IsDelayed(disk[p]) =>
            /\ original # NoService
            /\ p = enabledIn => original = found[p]

\* A delayed service streams to the account it replaced: "keeps your server
\* and key" (plugin-main.c).
SameAccount ==
    \A p \in Profiles : IsDelayed(disk[p]) => disk[p].account = found[p].account

\* While streaming, the mode reported to the server is that of the service in
\* use, although edits of the settings raise no event (refresh_delay_mode).
ModeKnown == streaming => delayMode = IsDelayed(service)

\* Outside a handler a service of the user's own is the one configured in this
\* profile: "switch back to the original one" (plugin-main.c).
OwnServiceBack ==
    handler = "none" /\ ~IsDelayed(service) => service.account = configured[profile]

================================================================================
