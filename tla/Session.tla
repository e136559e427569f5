------------------------------- MODULE Session --------------------------------
(*****************************************************************************)
(* The session of one tab of the browser (lib/auth.tsx, the sign-in link of  *)
(* app/login/page.tsx, LogoutButton.tsx): what the tab believes, where it    *)
(* sends the user, and the cookie, which another tab can bring, and another  *)
(* tab or its expiry can take away.                                          *)
(*                                                                           *)
(* Pages of one kind are one path.  A navigation by the router keeps the     *)
(* page's state and its requests; one by window.location or a plain link     *)
(* drops both.                                                               *)
(*****************************************************************************)
EXTENDS Naturals, FiniteSets

CONSTANTS
    MaxChecks   \* bound: checks under way when the user follows a link

ASSUME SessionAssumption == MaxChecks \in Nat

Public == {"/", "/login"}           \* the paths both lists of auth.tsx name
Polling == {"/dashboard"}           \* the pages under app/(main) with a refreshInterval:
                                    \* the dashboard, a project's and an environment's
Private == Polling \cup {"/projects"}  \* and those without: projects, profile, upload
Paths == Public \cup Private \cup {"/terms"}

VARIABLES
    cookie,          \* the browser holds a token the server accepts
    elsewhere,       \* it was another tab that signed in last
    pathname,        \* where the tab is
    isAuthenticated, \* of AuthProvider
    checks,          \* requests for /api/user/me: [path, answer]
    logout           \* the handler of the button: "none" or "sent"

cookieVars == <<cookie, elsewhere>>
SessionVars == <<cookieVars, pathname, isAuthenticated, checks, logout>>

Answers == {"none", "ok", "unauthorized", "error"}

SessionTypeOK ==
    /\ {cookie, elsewhere, isAuthenticated} \subseteq BOOLEAN
    /\ pathname \in Paths
    /\ checks \subseteq [path : Paths, answer : Answers]
    /\ logout \in {"none", "sent"}

Check(p) == [path |-> p, answer |-> "none"]

\* The effect of AuthProvider on the pathname.
Opened(p) == pathname' = p /\ isAuthenticated' = FALSE /\ checks' = {Check(p)} /\ logout' = "none"

SessionInit ==
    /\ cookie \in BOOLEAN /\ elsewhere = FALSE
    /\ pathname \in Paths
    /\ isAuthenticated = FALSE /\ checks = {Check(pathname)} /\ logout = "none"

-----------------------------------------------------------------------------
\* router.push(p), with the checks that are left.
Push(p, left) ==
    /\ pathname' = p
    /\ checks' = IF p = pathname THEN left ELSE left \cup {Check(p)}

FollowLink(p) ==
    /\ Cardinality(checks) < MaxChecks
    /\ p # pathname
    /\ Push(p, checks)
    /\ UNCHANGED <<cookieVars, isAuthenticated, logout>>

\* GET /api/user/me on the server, with the cookie of the moment, or an error.
ServeCheck(c) ==
    /\ c.answer = "none"
    /\ \E a \in {IF cookie THEN "ok" ELSE "unauthorized", "error"} :
         checks' = (checks \ {c}) \cup {[c EXCEPT !.answer = a]}
    /\ UNCHANGED <<cookieVars, pathname, isAuthenticated, logout>>

\* The handlers use the pathname of the effect that sent the request.
Authenticated(c) ==
    /\ c.answer = "ok"
    /\ isAuthenticated' = TRUE
    /\ Push(IF c.path = "/login" THEN "/dashboard" ELSE pathname, checks \ {c})
    /\ UNCHANGED <<cookieVars, logout>>

\* fetchWithAuth leaves the page by window.location, judging by where the tab
\* is now.
Unauthorized(c) ==
    /\ c.answer = "unauthorized"
    /\ IF pathname \notin Public
         THEN Opened("/login")
         ELSE /\ isAuthenticated' = FALSE
              /\ Push(IF c.path \notin Public THEN "/login" ELSE pathname, checks \ {c})
              /\ UNCHANGED logout
    /\ UNCHANGED cookieVars

\* Any other failure, too, ends at the login page.
CheckFails(c) ==
    /\ c.answer = "error"
    /\ isAuthenticated' = FALSE
    /\ Push(IF c.path \notin Public THEN "/login" ELSE pathname, checks \ {c})
    /\ UNCHANGED <<cookieVars, logout>>

\* Mutant: a request of the page that finds no session does not redirect.
PageRequestStays ==
    /\ pathname \in Private /\ ~cookie /\ isAuthenticated
    /\ isAuthenticated' = FALSE
    /\ UNCHANGED <<cookieVars, pathname, checks, logout>>

\* A request of a page itself finds no session: SWR polls, or asks again on
\* focus, with fetchWithAuth.
PageRequest ==
    /\ pathname \in Private /\ ~cookie
    /\ Opened("/login")
    /\ UNCHANGED cookieVars

\* Mutant: the sign-in comes back through the router, and requests live on.
SignInByRouter ==
    /\ pathname = "/login"
    /\ cookie' = TRUE /\ elsewhere' = FALSE
    /\ Push("/dashboard", checks)
    /\ UNCHANGED <<isAuthenticated, logout>>

\* The link to GitHub and the callback's redirect.
SignIn ==
    /\ pathname = "/login"
    /\ cookie' = TRUE /\ elsewhere' = FALSE
    /\ Opened("/dashboard")

\* Another tab, with the same cookies, comes back from GitHub.
SignInElsewhere ==
    /\ ~cookie
    /\ cookie' = TRUE /\ elsewhere' = TRUE
    /\ UNCHANGED <<pathname, isAuthenticated, checks, logout>>

SessionEnds ==
    /\ cookie
    /\ cookie' = FALSE
    /\ UNCHANGED <<elsewhere, pathname, isAuthenticated, checks, logout>>

HandleLogout ==
    /\ pathname \in Private /\ isAuthenticated /\ logout = "none"
    /\ logout' = "sent"
    /\ UNCHANGED <<cookieVars, pathname, isAuthenticated, checks>>

\* An error of the request is ignored: the cookie may still be there.
LoggedOut ==
    /\ logout = "sent"
    /\ logout' = "none"
    /\ cookie' \in {FALSE, cookie}
    /\ isAuthenticated' = FALSE
    /\ Push("/login", checks)
    /\ UNCHANGED elsewhere

TakeAnswer(c) == Authenticated(c) \/ Unauthorized(c) \/ CheckFails(c)
CheckStep(c) == ServeCheck(c) \/ TakeAnswer(c)

SessionNext ==
    \/ \E p \in Paths : FollowLink(p)
    \/ \E c \in checks : CheckStep(c)
    \/ PageRequest \/ SignIn \/ SignInElsewhere \/ SessionEnds \/ HandleLogout \/ LoggedOut

\* Requests end, answers are taken, and a page that polls goes on asking; one
\* that does not may never ask again.
SessionSpec ==
    /\ SessionInit /\ [][SessionNext]_SessionVars
    /\ WF_SessionVars(\E c \in checks : ServeCheck(c))
    /\ WF_SessionVars(\E c \in checks : TakeAnswer(c))
    /\ WF_SessionVars(pathname \in Polling /\ PageRequest)

-----------------------------------------------------------------------------
\* An answer that finds no session is never taken after a sign-in in this tab
\* that came later: a user who signed in here is sent to the login page by a
\* failure of the server only, whatever was under way before.  After a sign-in
\* in another tab an older answer may still arrive (auth.tsx:20-48).
NoFalseSignOut == \A c \in checks : c.answer = "unauthorized" => ~cookie \/ elsewhere

\* Without a session no page that polls stays open, and no page at all that was
\* opened since: one that does not poll, and was open before, may stay
\* (auth.tsx:20-48, 80-100).
SignedOutPagesAreLeft ==
    /\ <>[]~cookie => []<>(pathname \notin Polling)
    /\ <>(pathname \notin Private /\ []~cookie) => []<>(pathname \notin Private)

=============================================================================
