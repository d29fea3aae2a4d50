----------------------------- MODULE HppStorage -----------------------------
(***************************************************************************)
(* The state of the extension's service worker and the storage wrappers of *)
(* chrome-extension/lib/hpp-storage.js.                                    *)
(*                                                                         *)
(* Every wrapper that changes a map is "await get, change the copy, await  *)
(* set".  The two awaits are two steps here, so that two handlers that are *)
(* suspended in the same wrapper can overwrite each other's change, as     *)
(* they can in the code.  What a handler read is kept in seenX[k] until it *)
(* writes it back.                                                         *)
(*                                                                         *)
(* A verification request r \in Req stands for everything the code makes   *)
(* for it: the challenge and its nonce, the assertion, the cert_id and the *)
(* certificate.  A map entry is the request it belongs to.  A callback URL *)
(* is the origin it resolves to.                                           *)
(***************************************************************************)
EXTENDS Integers

CONSTANTS
    Tab,        \* browser tabs
    Origin,     \* page origins
    RpOf,       \* RpOf[o] is the eTLD+1 of origin o (computeRpId)
    Req,        \* verification requests
    Task,       \* slots for handler invocations that run at the same time
    None        \* "no value" (null, undefined, a missing key)

ASSUME NoneAssumption == None \notin Tab \cup Origin \cup Req
ASSUME RpOfAssumption == RpOf = [o \in Origin |-> RpOf[o]]

VARIABLES
    sessions,       \* hpp_session_map:   tab -> request whose certificate it holds
    inflight,       \* hpp_inflight_map:  tab -> request being submitted
    sites,          \* hpp_enrolled_sites
    pending,        \* hpp_pending_callbacks: origin -> callback
    task,           \* the handler invocations and where each is suspended
    seenSessions, seenInflight, seenSites, seenPending,
                    \* what the get of a suspended wrapper returned
    req,            \* the data of each request
    marks,          \* what has happened to each request (history)
    delivered,      \* origins whose callback accepted the certificate (history)
    presented,      \* pages that received CERT_READY (history)
    confirmed,      \* origins whose enrollment the server confirmed (history)
    page,           \* tab -> origin of its top-level page, None once closed
    now             \* Date.now(), in coarse units

storeVars == <<sessions, inflight, sites, pending>>
seenVars  == <<seenSessions, seenInflight, seenSites, seenPending>>
histVars  == <<req, marks, delivered, presented>>
serverVars == <<confirmed>>
envVars   == <<page, now>>
vars == <<storeVars, task, seenVars, histVars, serverVars, envVars>>

-----------------------------------------------------------------------------
\* Data

EntryMap   == [Tab -> Req \cup {None}]
NoEntries  == [t \in Tab |-> None]
Site       == [origin : Origin, cb : Origin \cup {None}]
PendingMap == [Origin -> Origin \cup {None}]
NoPending  == [o \in Origin |-> None]

\* What is known of a request: who asked, when its challenge expires, when its
\* inflight entry was written, when its certificate expires.
ReqData == [tab : Tab \cup {None}, origin : Origin \cup {None},
            deadline : Int, started : Int, expiry : Int]
NoReqData == [tab |-> None, origin |-> None,
              deadline |-> 0, started |-> 0, expiry |-> 0]

Mark == {"asked", "error", "uv", "posted", "issued", "stored",
         "announced", "returned", "resumed"}

\* The wrappers that read, change and write back one of the four maps.
SessionPc  == {"setSession", "clearSession", "purgeSessions"}
InflightPc == {"setInflight", "clearInflight", "purgeInflight"}
SitePc     == {"addSite", "removeSite", "removeRp"}
PendingPc  == {"setPending", "clearPending"}

Idle == [fn |-> "none", pc |-> "idle", got |-> FALSE, tab |-> None,
         origin |-> None, cb |-> None, req |-> None, resp |-> "none",
         plan |-> NoEntries]

-----------------------------------------------------------------------------
\* What each wrapper writes, given what it read

\* A wrapper that mixes up the key and the value.
PutSwapped(map, t, r) == [map EXCEPT ![t] = t]

PutEntry(map, t, r) == [map EXCEPT ![t] = r]
DropEntry(map, t)   == [map EXCEPT ![t] = None]

Expired(r) == req[r].expiry < now

\* A purge whose "changed" flag is never set.
PurgeNothing(map) == map

PurgeExpired(map) ==
    [t \in Tab |-> IF map[t] # None /\ Expired(map[t]) THEN None ELSE map[t]]

PutSite(list, o, cb) == {s \in list : s.origin # o} \cup {[origin |-> o, cb |-> cb]}
DropOrigin(list, o)  == {s \in list : s.origin # o}
DropRp(list, rp)     == {s \in list : RpOf[s.origin] # rp}

SitesOf(o)  == {s \in sites : s.origin = o}

\* getEnrolledSiteByRpId that returns whatever comes first.
AnySite(rp) == sites

SitesOfRp(rp) == {s \in sites : RpOf[s.origin] = rp}

-----------------------------------------------------------------------------
\* Suspending and resuming a handler

Goto(k, pc) == task' = [task EXCEPT ![k] = [@ EXCEPT !.pc = pc, !.got = FALSE]]
Finish(k)   == task' = [task EXCEPT ![k] = Idle]

\* The first await of a wrapper: the get returns the map as it is now.
GetSessions(k) ==
    /\ task[k].pc \in SessionPc /\ ~task[k].got
    /\ task' = [task EXCEPT ![k].got = TRUE]
    /\ seenSessions' = [seenSessions EXCEPT ![k] = sessions]
    /\ UNCHANGED <<storeVars, seenInflight, seenSites, seenPending, histVars,
                   serverVars, envVars>>

GetInflight(k) ==
    /\ task[k].pc \in InflightPc /\ ~task[k].got
    /\ task' = [task EXCEPT ![k].got = TRUE]
    /\ seenInflight' = [seenInflight EXCEPT ![k] = inflight]
    /\ UNCHANGED <<storeVars, seenSessions, seenSites, seenPending, histVars,
                   serverVars, envVars>>

GetSites(k) ==
    /\ task[k].pc \in SitePc /\ ~task[k].got
    /\ task' = [task EXCEPT ![k].got = TRUE]
    /\ seenSites' = [seenSites EXCEPT ![k] = sites]
    /\ UNCHANGED <<storeVars, seenSessions, seenInflight, seenPending, histVars,
                   serverVars, envVars>>

GetPending(k) ==
    /\ task[k].pc \in PendingPc /\ ~task[k].got
    /\ task' = [task EXCEPT ![k].got = TRUE]
    /\ seenPending' = [seenPending EXCEPT ![k] = pending]
    /\ UNCHANGED <<storeVars, seenSessions, seenInflight, seenSites, histVars,
                   serverVars, envVars>>

\* The second await of a wrapper: the set replaces the whole map.
WriteSessions(k, map) ==
    /\ task[k].got
    /\ sessions' = map
    /\ seenSessions' = [seenSessions EXCEPT ![k] = NoEntries]
    /\ UNCHANGED <<inflight, sites, pending, seenInflight, seenSites, seenPending>>

WriteInflight(k, map) ==
    /\ task[k].got
    /\ inflight' = map
    /\ seenInflight' = [seenInflight EXCEPT ![k] = NoEntries]
    /\ UNCHANGED <<sessions, sites, pending, seenSessions, seenSites, seenPending>>

WriteSites(k, list) ==
    /\ task[k].got
    /\ sites' = list
    /\ seenSites' = [seenSites EXCEPT ![k] = {}]
    /\ UNCHANGED <<sessions, inflight, pending, seenSessions, seenInflight, seenPending>>

WritePending(k, map) ==
    /\ task[k].got
    /\ pending' = map
    /\ seenPending' = [seenPending EXCEPT ![k] = NoPending]
    /\ UNCHANGED <<sessions, inflight, sites, seenSessions, seenInflight, seenSites>>
=============================================================================
