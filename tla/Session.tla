------------------------------ MODULE Session ------------------------------
(***************************************************************************)
(* The session of the front end: hooks/use-auth.ts with its storage        *)
(* (api/client.ts), the route guards (router/index.ts) and the shell that  *)
(* holds the logout button (app.component.ts), in several tabs of one      *)
(* browser.  Tabs share localStorage and nothing else.                     *)
(*                                                                         *)
(* Code between two awaits runs to its end, so an action is one task of    *)
(* the browser with the promise callbacks it triggers.  The front end logs *)
(* in with one fixed account, but takes up whatever session is stored.  The*)
(* router is Angular's: a navigation to the page that is shown is ignored, *)
(* a newer navigation replaces a pending one, and a guard that returns a   *)
(* UrlTree starts a navigation there.                                      *)
(***************************************************************************)
EXTENDS AccessControl

CONSTANTS
  Tab,          \* tabs of one browser
  LoginRole     \* role of the account login() uses

VARIABLES
  storage,      \* localStorage: the role of the stored session, or None
  changed,      \* the tab that changed the storage last, or None
  tab           \* tab -> its state

vars == <<storage, changed, tab>>

None == "none"

ASSUME TabAssumption == None \notin Tab
ASSUME LoginAssumption == LoginRole \in Role

Page == {"units", "rules", "samples", "decisions", "audit"}

requireRole == [p \in Page |-> IF p = "audit" THEN "reviewer" ELSE "viewer"]

State == [up             : BOOLEAN,
          session        : Role \cup {None},
          loading        : BOOLEAN,
          authentication : BOOLEAN,          \* a promise callers join
          inFlight       : {0, 1},           \* login requests without an answer
          guard          : Page \cup {None}, \* page whose guard waits
          page           : Page \cup {None},
          loggedOut      : BOOLEAN]          \* since a guard let the page in: for the properties

Closed == [up |-> FALSE, session |-> None, loading |-> FALSE, authentication |-> FALSE,
           inFlight |-> 0, guard |-> None, page |-> None, loggedOut |-> FALSE]

\* A browser may come back with a session stored earlier, of whichever role:
\* getStoredSession asks for a token and a role and looks no further.
Init ==
  /\ storage \in Role \cup {None}
  /\ changed = None
  /\ tab = [t \in Tab |-> Closed]

-----------------------------------------------------------------------------
(* authenticate: one login at a time, which every caller waits for.        *)

Authenticate(s) ==
  IF s.authentication THEN s
  ELSE [s EXCEPT !.loading = TRUE, !.authentication = TRUE, !.inFlight = @ + 1]

\* The finally of the login promise.
LoadingLeft(s) == [s EXCEPT !.authentication = FALSE, !.inFlight = @ - 1] \* mutant
PromiseLeft(s) == [s EXCEPT !.loading = FALSE, !.inFlight = @ - 1]      \* mutant
Settled(s) ==
  [s EXCEPT !.loading = FALSE, !.authentication = FALSE, !.inFlight = @ - 1]

hasMinimumRole(session, minimum) ==
  session # None /\ RequireMinimumRole(session, minimum)

\* Where a guard that has a session leads: its page, or /units.
GuardWithoutRole(session, page) == page                                 \* mutant
Landing(session, page) ==
  IF hasMinimumRole(session, requireRole[page]) THEN page ELSE "units"

\* A guard whose login failed redirects to /units; its guard logs in again.
Redirected(s) ==
  IF s.page = "units" THEN [s EXCEPT !.guard = None]
  ELSE Authenticate([s EXCEPT !.guard = "units"])

Guarded(s, page) ==
  IF s.session # None
  THEN [s EXCEPT !.page = Landing(s.session, page), !.loggedOut = FALSE]
  ELSE Authenticate([s EXCEPT !.guard = page])

-----------------------------------------------------------------------------
Becomes(t, s) == tab' = [tab EXCEPT ![t] = s]

\* The scripts are loaded: ngOnInit and the guard of the first page authenticate.
Start(t, page) ==
  /\ ~tab[t].up
  /\ Becomes(t, LET loaded == [Closed EXCEPT !.up = TRUE, !.session = storage]
                IN IF storage # None THEN Guarded(loaded, page)
                   ELSE Guarded(Authenticate(loaded), page))
  /\ UNCHANGED <<storage, changed>>

\* The tab is closed, or left for a reload; an answer on its way is lost.
Close(t) ==
  /\ tab[t].up
  /\ Becomes(t, Closed)
  /\ UNCHANGED <<storage, changed>>

\* A link of the shell, or back and forward, which work behind the overlay too.
Navigate(t, page) ==
  /\ tab[t].up
  /\ Becomes(t, IF page = tab[t].page THEN [tab[t] EXCEPT !.guard = None]
                ELSE Guarded(tab[t], page))
  /\ UNCHANGED <<storage, changed>>

ButtonAlwaysShown(s) == s.up                                            \* mutant
ShellShown(s) == s.up /\ ~s.loading

SessionKept(s) == Authenticate(s)                                       \* mutant
LoggedOut(s) == Authenticate([s EXCEPT !.session = None, !.loggedOut = TRUE])

logout(t) ==
  /\ ShellShown(tab[t])
  /\ storage' = None
  /\ changed' = t
  /\ Becomes(t, LoggedOut(tab[t]))

LoginSucceeds(t) ==
  /\ tab[t].inFlight > 0
  /\ storage' = LoginRole
  /\ changed' = t
  /\ LET s == [Settled(tab[t]) EXCEPT !.session = LoginRole, !.guard = None]
     IN Becomes(t, IF tab[t].guard = None THEN s ELSE Guarded(s, tab[t].guard))

\* Refused, failed, or without an answer.
LoginFails(t) ==
  /\ tab[t].inFlight > 0
  /\ LET s == Settled(tab[t])
     IN Becomes(t, IF s.guard = None THEN s ELSE Redirected(s))
  /\ UNCHANGED <<storage, changed>>

Next ==
  \E t \in Tab :
    \/ \E page \in Page : Start(t, page) \/ Navigate(t, page)
    \/ Close(t) \/ logout(t) \/ LoginSucceeds(t) \/ LoginFails(t)

\* A server that is asked again and again accepts the account some time.
Fairness == \A t \in Tab : SF_vars(LoginSucceeds(t))

Spec == Init /\ [][Next]_vars /\ Fairness

-----------------------------------------------------------------------------
(* Properties                                                              *)

\* The variables have the shapes listed; in particular a tab never has two
\* logins on their way, so that the answers of two cannot overtake each other.
TypeOK ==
  /\ storage \in Role \cup {None}
  /\ changed \in Tab \cup {None}
  /\ tab \in [Tab -> State]

\* The overlay that hides the whole application is there exactly while a login is
\* on its way: neither an answer nor a failure leaves the user locked out, and
\* nothing of the shell can be clicked before the answer.
OverlayWhileLoggingIn ==
  \A t \in Tab : tab[t].loading <=> tab[t].inFlight > 0

\* logout discards the session for one of a login sent after it.  authenticate(true)
\* joins a login that is already on its way, so this rests on the overlay.
LogoutAsksAgain ==
  [][\A t \in Tab : logout(t) => tab[t].inFlight = 0 /\ tab'[t].inFlight = 1]_vars

\* Requests take the token from the storage, the shell and the guards look at the
\* signal.  A tab that shows a session other than the one its requests will use, or
\* has no token for it at all, has another tab to blame.
TokenChangedByAnotherTab ==
  \A t \in Tab : tab[t].session # None /\ storage # tab[t].session => changed \notin {t, None}

\* README.md:39, guards follow the roles and the audit page requires reviewer: the
\* page a tab shows is one that the tab's own session has the rank for, whatever was
\* stored, clicked, reloaded or redirected before.  It stops being so when the user
\* logs out on the page: no guard looks at it again until the next navigation, not
\* even when the login that follows fails and the shell comes back without a session.
PageNeedsRank ==
  \A t \in Tab :
    tab[t].page # None /\ ~tab[t].loggedOut =>
      hasMinimumRole(tab[t].session, requireRole[tab[t].page])

\* A guard that waits comes to an end, however often the login failed before: the
\* next caller starts a new login instead of joining the one that failed.
GuardDecides == \A t \in Tab : tab[t].guard # None ~> tab[t].guard = None
=============================================================================
