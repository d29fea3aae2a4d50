------------------------------ MODULE HppEnroll -----------------------------
(***************************************************************************)
(* The handlers of chrome-extension/background.js that change the list of  *)
(* enrolled sites: HPP_SITE_DETECTED, ENROLL_REQUEST and REVOKE_SITE.      *)
(***************************************************************************)
EXTENDS HppLifecycle

\* validateCallbackUrl without its comparison of the two origins.
AnyCallback(u, o) == u

\* validateCallbackUrl: a URL u found in a page of origin o is kept when it
\* resolves to o (every Origin is https or localhost).
ValidCallback(u, o) == IF u = o THEN u ELSE None

-----------------------------------------------------------------------------
\* onSiteDetected.  Its last step reads the session of the tab and answers
\* SESSION_ACTIVE or shows the gate; it changes nothing and is not a step here.

SiteDetected(k, t, u) ==
    LET cb == ValidCallback(u, page[t]) IN
    /\ task[k] = Idle /\ page[t] # None
    /\ task' = [task EXCEPT ![k] = [Idle EXCEPT !.fn = "detect", !.tab = t,
                  !.origin = page[t], !.cb = cb,
                  !.pc = IF cb # None THEN "setPending" ELSE "findSite"]]
    /\ UNCHANGED <<storeVars, seenVars, histVars, serverVars, envVars>>

SetPending(k) ==
    /\ task[k].pc = "setPending"
    /\ WritePending(k, [seenPending[k] EXCEPT ![task[k].origin] = task[k].cb])
    /\ Goto(k, "findSite")
    /\ UNCHANGED <<histVars, serverVars, envVars>>

\* An enrolled site whose page names another callback is written back with it.
FindSite(k) ==
    /\ task[k].pc = "findSite"
    /\ IF task[k].cb # None /\ \E s \in SitesOf(task[k].origin) : s.cb # task[k].cb
         THEN Goto(k, "addSite")
         ELSE Finish(k)
    /\ UNCHANGED <<storeVars, seenVars, histVars, serverVars, envVars>>

-----------------------------------------------------------------------------
\* onEnrollRequest

EnrollRequest(k, t) ==
    /\ task[k] = Idle /\ page[t] # None
    /\ task' = [task EXCEPT ![k] = [Idle EXCEPT !.fn = "enroll", !.tab = t,
                  !.origin = page[t], !.pc = "enrollChallenge"]]
    /\ UNCHANGED <<storeVars, seenVars, histVars, serverVars, envVars>>

EnrollChallenge(k, ok) ==
    /\ task[k].pc = "enrollChallenge"
    /\ IF ok THEN Goto(k, "create") ELSE Finish(k)
    /\ UNCHANGED <<storeVars, seenVars, histVars, serverVars, envVars>>

CreateCredential(k, ok) ==
    LET tab == task[k].tab IN
    /\ task[k].pc = "create"
    /\ ok => page[tab] # None /\ RpOf[page[tab]] = RpOf[task[k].origin]
    /\ IF ok THEN Goto(k, "enrollPost") ELSE Finish(k)
    /\ UNCHANGED <<storeVars, seenVars, histVars, serverVars, envVars>>

\* DEV_LOCAL_ENROLLMENT left on: the site is stored whatever the server said.
EnrollReplyDev(k, enrolled) ==
    /\ task[k].pc = "enrollPost"
    /\ confirmed' = IF enrolled THEN confirmed \cup {task[k].origin} ELSE confirmed
    /\ Goto(k, "getPending")
    /\ UNCHANGED <<storeVars, seenVars, histVars, envVars>>

\* POST /v1/enroll: the server's "enrolled" arrives, or an error does or nothing.
EnrollReply(k, enrolled) ==
    /\ task[k].pc = "enrollPost"
    /\ IF enrolled
       THEN confirmed' = confirmed \cup {task[k].origin} /\ Goto(k, "getPending")
       ELSE UNCHANGED confirmed /\ Finish(k)
    /\ UNCHANGED <<storeVars, seenVars, histVars, envVars>>

ReadPending(k) ==
    /\ task[k].pc = "getPending"
    /\ task' = [task EXCEPT ![k].pc = "clearPending", ![k].cb = pending[task[k].origin]]
    /\ UNCHANGED <<storeVars, seenVars, histVars, serverVars, envVars>>

ClearPending(k) ==
    /\ task[k].pc = "clearPending"
    /\ WritePending(k, [seenPending[k] EXCEPT ![task[k].origin] = None])
    /\ Goto(k, "addSite")
    /\ UNCHANGED <<histVars, serverVars, envVars>>

\* addEnrolledSite, the last write of onEnrollRequest and of onSiteDetected.
AddSite(k) ==
    /\ task[k].pc = "addSite"
    /\ WriteSites(k, PutSite(seenSites[k], task[k].origin, task[k].cb))
    /\ Finish(k)
    /\ UNCHANGED <<histVars, serverVars, envVars>>

-----------------------------------------------------------------------------
\* onRevokeSite.  The DELETE is answered or fails, which is swallowed.

RevokeSite(k, o) ==
    /\ task[k] = Idle /\ SitesOf(o) # {}
    /\ task' = [task EXCEPT ![k] = [Idle EXCEPT !.fn = "revoke", !.origin = o,
                                        !.pc = "revokeDelete"]]
    /\ UNCHANGED <<storeVars, seenVars, histVars, serverVars, envVars>>

DeleteCredential(k) ==
    /\ task[k].pc = "revokeDelete"
    /\ Goto(k, "removeSite")
    /\ UNCHANGED <<storeVars, seenVars, histVars, serverVars, envVars>>

RemoveSite(k) ==
    /\ task[k].pc = "removeSite"
    /\ WriteSites(k, DropOrigin(seenSites[k], task[k].origin))
    /\ Finish(k)
    /\ UNCHANGED <<histVars, serverVars, envVars>>

EnrollStep(k) ==
    \/ SetPending(k) \/ FindSite(k)
    \/ \E ok \in BOOLEAN : EnrollChallenge(k, ok) \/ CreateCredential(k, ok)
    \/ \E enrolled \in BOOLEAN : EnrollReply(k, enrolled)
    \/ ReadPending(k) \/ ClearPending(k) \/ AddSite(k)
    \/ DeleteCredential(k) \/ RemoveSite(k)
=============================================================================
