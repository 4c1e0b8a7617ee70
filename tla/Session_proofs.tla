--------------------------- MODULE Session_proofs ---------------------------
(***************************************************************************)
(* Proofs about Session, for any number of tabs.                           *)
(***************************************************************************)
EXTENDS Session, TLAPS

\* Overlay and promise are in step with the request.
InStep(s) ==
  /\ s \in State
  /\ s.loading <=> s.inFlight = 1
  /\ s.authentication <=> s.inFlight = 1

\* The page was let in by a guard, and nothing was logged out since.
Ranked(s) ==
  s.page # None /\ ~s.loggedOut => hasMinimumRole(s.session, requireRole[s.page])

\* What holds of a tab between two tasks of the browser: it asks only when it has no
\* session, a guard waits only for a request, and the page needs the rank.
Good(s) ==
  /\ InStep(s)
  /\ s.guard # None => s.inFlight = 1
  /\ s.inFlight = 1 => s.session = None /\ s.up
  /\ ~s.up => s.session = None
  /\ Ranked(s)

TokensOf(t) ==
  tab[t].session # None /\ storage # tab[t].session => changed \notin {t, None}

SessionInv ==
  /\ storage \in Role \cup {None}
  /\ changed \in Tab \cup {None}
  /\ tab \in [Tab -> State]
  /\ \A t \in Tab : Good(tab[t]) /\ TokensOf(t)

-----------------------------------------------------------------------------
(* What the functions of use-auth.ts make of a tab.                        *)

\* "none" is not a role and not a page.
LEMMA NoneIsNothing == None \notin Role /\ None \notin Page
BY DEF None, Role, Page

\* authenticate leaves exactly one login on its way.
LEMMA AuthenticateAsksOnce ==
  ASSUME NEW s, InStep(s)
  PROVE  /\ InStep(Authenticate(s))
         /\ Authenticate(s).inFlight = 1
         /\ Authenticate(s).up = s.up /\ Authenticate(s).session = s.session
         /\ Authenticate(s).guard = s.guard /\ Authenticate(s).page = s.page
         /\ Authenticate(s).loggedOut = s.loggedOut
<1> DEFINE asked == [s EXCEPT !.loading = TRUE, !.authentication = TRUE, !.inFlight = @ + 1]
<1>0. s \in State
  BY DEF InStep
<1>1. CASE s.authentication
  BY <1>1 DEF Authenticate, InStep
<1>2. CASE ~s.authentication
  <2>1. s.inFlight = 0 /\ s.inFlight + 1 = 1
    BY <1>0, <1>2 DEF State, InStep
  <2>2. /\ asked.loading = TRUE /\ asked.authentication = TRUE
        /\ asked.inFlight = s.inFlight + 1
        /\ asked.up = s.up /\ asked.session = s.session
        /\ asked.guard = s.guard /\ asked.page = s.page
        /\ asked.loggedOut = s.loggedOut
    BY <1>0 DEF State
  <2>3. asked \in State
    BY <1>0, <2>1 DEF State
  <2>4. Authenticate(s) = asked
    BY <1>2 DEF Authenticate
  <2> QED
    BY <2>1, <2>2, <2>3, <2>4 DEF InStep
<1> QED
  BY <1>1, <1>2

\* The finally of the promise leaves no login and no overlay.
LEMMA SettledIsQuiet ==
  ASSUME NEW s, InStep(s), s.inFlight = 1
  PROVE  /\ InStep(Settled(s)) /\ Settled(s).inFlight = 0
         /\ Settled(s).up = s.up /\ Settled(s).session = s.session
         /\ Settled(s).guard = s.guard /\ Settled(s).page = s.page
         /\ Settled(s).loggedOut = s.loggedOut
<1>0. s \in State
  BY DEF InStep
<1>1. s.inFlight - 1 = 0
  OBVIOUS
<1>2. /\ Settled(s).loading = FALSE /\ Settled(s).authentication = FALSE
      /\ Settled(s).inFlight = s.inFlight - 1
      /\ Settled(s).up = s.up /\ Settled(s).session = s.session
      /\ Settled(s).guard = s.guard /\ Settled(s).page = s.page
      /\ Settled(s).loggedOut = s.loggedOut
  BY <1>0 DEF State, Settled
<1>3. Settled(s) \in State
  BY <1>0, <1>1 DEF State, Settled
<1> QED
  BY <1>1, <1>2, <1>3 DEF InStep

\* Where a guard leads with a session, the session has the rank for.
LEMMA LandingNeedsRank ==
  ASSUME NEW role \in Role, NEW page \in Page
  PROVE  /\ Landing(role, page) \in Page
         /\ hasMinimumRole(role, requireRole[Landing(role, page)])
<1>1. requireRole["units"] = "viewer" /\ "units" \in Page
  BY DEF requireRole, Page
<1>2. hasMinimumRole(role, "viewer")
  BY NoneIsNothing DEF hasMinimumRole, RequireMinimumRole, roleRank, Role
<1> QED
  BY <1>1, <1>2 DEF Landing

\* A guard lets a session in, sends it to /units, or makes the tab log in.
LEMMA GuardedIsGood ==
  ASSUME NEW s, NEW page \in Page, InStep(s), s.up, Ranked(s),
         s.session # None => s.guard = None /\ s.inFlight = 0
  PROVE  Good(Guarded(s, page)) /\ Guarded(s, page).session = s.session
<1>0. s \in State
  BY DEF InStep
<1>1. CASE s.session # None
  <2> DEFINE g == [s EXCEPT !.page = Landing(s.session, page), !.loggedOut = FALSE]
  <2>1. s.session \in Role /\ s.guard = None /\ s.inFlight = 0
    BY <1>0, <1>1 DEF State
  <2>2. /\ Landing(s.session, page) \in Page
        /\ hasMinimumRole(s.session, requireRole[Landing(s.session, page)])
    BY <2>1, LandingNeedsRank
  <2>3. /\ g \in State /\ g.page = Landing(s.session, page)
        /\ g.loading = s.loading /\ g.authentication = s.authentication
        /\ g.inFlight = s.inFlight /\ g.up = s.up /\ g.session = s.session
        /\ g.guard = s.guard
    BY <1>0, <2>1, <2>2 DEF State
  <2>4. Guarded(s, page) = g
    BY <1>1 DEF Guarded
  <2>5. Good(g)
    <3> HIDE DEF g
    <3>1. Ranked(g)
      BY <2>2, <2>3 DEF Ranked
    <3> QED
      BY <1>1, <2>1, <2>3, <3>1 DEF Good, InStep
  <2> QED
    BY <2>3, <2>4, <2>5
<1>2. CASE s.session = None
  <2> DEFINE w == [s EXCEPT !.guard = page]
  <2>1. /\ w \in State /\ w.guard = page
        /\ w.loading = s.loading /\ w.authentication = s.authentication
        /\ w.inFlight = s.inFlight /\ w.up = s.up /\ w.session = s.session
        /\ w.page = s.page /\ w.loggedOut = s.loggedOut
    BY <1>0 DEF State
  <2> HIDE DEF w
  <2>2. InStep(w)
    BY <2>1 DEF InStep
  <2>3. Guarded(s, page) = Authenticate(w)
    BY <1>2 DEF Guarded, w
  <2>4. /\ InStep(Authenticate(w)) /\ Authenticate(w).inFlight = 1
        /\ Authenticate(w).up = w.up /\ Authenticate(w).session = w.session
        /\ Authenticate(w).page = w.page /\ Authenticate(w).loggedOut = w.loggedOut
    BY <2>2, AuthenticateAsksOnce
  <2>5. Good(Authenticate(w))
    BY <1>2, <2>1, <2>4 DEF Good, Ranked
  <2> QED
    BY <2>1, <2>3, <2>4, <2>5
<1> QED
  BY <1>1, <1>2

-----------------------------------------------------------------------------
(* The steps.                                                              *)

\* A step of one tab that keeps the storage keeps the invariant, when that tab is
\* good afterwards and shows no session it has just made up.
LEMMA QuietStep ==
  ASSUME SessionInv, NEW t \in Tab, NEW s, Good(s), Becomes(t, s),
         s.session # None => tab[t].session = s.session \/ s.session = storage,
         UNCHANGED <<storage, changed>>
  PROVE  SessionInv'
<1>1. s \in State
  BY DEF Good, InStep
<1>2. /\ tab' \in [Tab -> State] /\ tab'[t] = s
      /\ \A u \in Tab : u # t => tab'[u] = tab[u]
  BY <1>1 DEF SessionInv, Becomes
<1>3. TokensOf(t)'
  BY <1>2 DEF SessionInv, TokensOf
<1>4. \A u \in Tab : u # t => TokensOf(u)'
  BY <1>2 DEF SessionInv, TokensOf
<1>5. \A u \in Tab : Good(tab'[u])
  BY <1>2 DEF SessionInv
<1> QED
  BY <1>2, <1>3, <1>4, <1>5 DEF SessionInv

\* A tab that is closed is good.
LEMMA ClosedIsGood == Good(Closed)
BY DEF Good, InStep, Ranked, Closed, State, None, Page

\* The scripts of a tab are loaded.
LEMMA StartStep ==
  ASSUME SessionInv, NEW t \in Tab, NEW page \in Page, Start(t, page)
  PROVE  SessionInv'
<1> DEFINE loaded == [Closed EXCEPT !.up = TRUE, !.session = storage]
<1>1. storage \in Role \cup {None}
  BY DEF SessionInv
<1>2. /\ loaded.up = TRUE /\ loaded.session = storage /\ loaded.loading = FALSE
      /\ loaded.authentication = FALSE /\ loaded.inFlight = 0
      /\ loaded.guard = None /\ loaded.page = None
  BY DEF Closed
<1>3. loaded \in State
  BY <1>1 DEF Closed, State
<1>4. InStep(loaded) /\ Ranked(loaded)
  BY <1>2, <1>3 DEF InStep, Ranked
<1>5. CASE storage # None
  <2>1. Becomes(t, Guarded(loaded, page))
    BY <1>5 DEF Start
  <2>2. /\ Good(Guarded(loaded, page))
        /\ Guarded(loaded, page).session = loaded.session
    BY <1>1, <1>2, <1>4, GuardedIsGood
  <2> HIDE DEF loaded
  <2> QED
    BY <1>2, <2>1, <2>2, QuietStep DEF Start
<1>6. CASE storage = None
  <2> DEFINE asked == Authenticate(loaded)
  <2>1. Becomes(t, Guarded(asked, page))
    BY <1>6 DEF Start
  <2>2. /\ InStep(asked) /\ asked.up /\ asked.session = None
        /\ Ranked(asked)
    <3> HIDE DEF loaded
    <3> QED
      BY <1>2, <1>4, <1>6, AuthenticateAsksOnce DEF Ranked
  <2> HIDE DEF asked
  <2>3. Good(Guarded(asked, page)) /\ Guarded(asked, page).session = None
    BY <1>1, <2>2, GuardedIsGood
  <2> QED
    BY <2>1, <2>3, QuietStep DEF Start
<1> QED
  BY <1>5, <1>6

\* A navigation, with or without a session.
LEMMA NavigateStep ==
  ASSUME SessionInv, NEW t \in Tab, NEW page \in Page, Navigate(t, page)
  PROVE  SessionInv'
<1> DEFINE s == tab[t]
           dropped == [s EXCEPT !.guard = None]
<1>1. /\ Good(s) /\ s \in State /\ s.up /\ InStep(s)
  BY DEF SessionInv, Navigate, Good, InStep
<1>2. CASE page = tab[t].page
  <2>1. Becomes(t, dropped)
    BY <1>2 DEF Navigate
  <2>2. /\ dropped \in State /\ dropped.guard = None
        /\ dropped.loading = s.loading /\ dropped.authentication = s.authentication
        /\ dropped.inFlight = s.inFlight /\ dropped.up = s.up
        /\ dropped.session = s.session /\ dropped.page = s.page
        /\ dropped.loggedOut = s.loggedOut
    BY <1>1 DEF State
  <2>3. Good(dropped)
    BY <1>1, <2>2 DEF Good, InStep, Ranked
  <2> HIDE DEF dropped
  <2> QED
    BY <2>1, <2>2, <2>3, QuietStep DEF Navigate
<1>3. CASE page # tab[t].page
  <2>1. Becomes(t, Guarded(s, page))
    BY <1>3 DEF Navigate
  <2>2. s.session # None => s.guard = None /\ s.inFlight = 0
    BY <1>1 DEF Good, State
  <2>3. /\ Good(Guarded(s, page))
        /\ Guarded(s, page).session = s.session
    BY <1>1, <2>2, GuardedIsGood DEF Good
  <2> QED
    BY <2>1, <2>3, QuietStep DEF Navigate
<1> QED
  BY <1>2, <1>3

\* A click on the logout button: the storage becomes empty.
LEMMA LogoutStep ==
  ASSUME SessionInv, NEW t \in Tab, logout(t)
  PROVE  SessionInv' /\ tab[t].inFlight = 0 /\ tab'[t].inFlight = 1
<1> DEFINE s == tab[t]
           bare == [s EXCEPT !.session = None, !.loggedOut = TRUE]
<1>1. /\ Good(s) /\ s \in State /\ InStep(s)
      /\ s.up /\ ~s.loading
  BY DEF SessionInv, logout, ShellShown, Good, InStep
<1>2. s.inFlight = 0
  BY <1>1 DEF InStep, State
<1>3. /\ bare \in State /\ bare.session = None /\ bare.guard = s.guard
      /\ bare.loading = s.loading /\ bare.authentication = s.authentication
      /\ bare.inFlight = s.inFlight /\ bare.up = s.up /\ bare.page = s.page
      /\ bare.loggedOut = TRUE
  BY <1>1 DEF State
<1>4. InStep(bare)
  BY <1>1, <1>3 DEF InStep
<1> DEFINE out == Authenticate(bare)
<1>5. /\ InStep(out) /\ out.inFlight = 1 /\ out.up = bare.up
      /\ out.session = bare.session /\ out.guard = bare.guard /\ out.page = bare.page
      /\ out.loggedOut = TRUE
  <2> HIDE DEF bare
  <2> QED
    BY <1>3, <1>4, AuthenticateAsksOnce
<1>6. tab' = [tab EXCEPT ![t] = out] /\ storage' = None /\ changed' = t
  BY DEF logout, LoggedOut, Becomes
<1>7. Good(out)
  BY <1>1, <1>3, <1>5 DEF Good, Ranked
<1>8. /\ tab' \in [Tab -> State] /\ tab'[t] = out
      /\ \A u \in Tab : u # t => tab'[u] = tab[u]
  BY <1>5, <1>6 DEF SessionInv, InStep
<1>9. \A u \in Tab : TokensOf(u)'
  BY <1>3, <1>5, <1>6, <1>8, TabAssumption DEF TokensOf
<1>10. \A u \in Tab : Good(tab'[u])
  BY <1>6, <1>7, <1>8 DEF SessionInv
<1> QED
  BY <1>2, <1>5, <1>6, <1>8, <1>9, <1>10 DEF SessionInv

\* A login that is answered with a session.
LEMMA SuccessStep ==
  ASSUME SessionInv, NEW t \in Tab, LoginSucceeds(t)
  PROVE  SessionInv'
<1> DEFINE s == tab[t]
           quiet == Settled(s)
           in == [quiet EXCEPT !.session = LoginRole, !.guard = None]
           next == IF s.guard = None THEN in ELSE Guarded(in, s.guard)
<1>1. /\ Good(s) /\ s \in State /\ InStep(s)
      /\ s.inFlight = 1 /\ s.up
  BY DEF SessionInv, LoginSucceeds, Good, InStep, State
<1>2. /\ InStep(quiet) /\ quiet.inFlight = 0 /\ quiet.up /\ quiet.page = s.page
      /\ quiet.loggedOut = s.loggedOut /\ quiet \in State
  BY <1>1, SettledIsQuiet DEF InStep
<1>3. /\ in \in State /\ in.session = LoginRole /\ in.guard = None
      /\ in.loading = quiet.loading /\ in.authentication = quiet.authentication
      /\ in.inFlight = 0 /\ in.up /\ in.page = s.page /\ in.loggedOut = s.loggedOut
  <2> HIDE DEF quiet
  <2> QED
    BY <1>1, <1>2, LoginAssumption DEF State
<1>4. InStep(in) /\ Ranked(in) /\ s.session = None
  BY <1>1, <1>2, <1>3 DEF InStep, Good, Ranked, hasMinimumRole
<1>5. tab' = [tab EXCEPT ![t] = next] /\ storage' = LoginRole /\ changed' = t
  BY DEF LoginSucceeds, Becomes
<1>6. Good(next) /\ next.session = LoginRole
  <2> HIDE DEF in
  <2>1. Good(in)
    BY <1>1, <1>3, <1>4 DEF Good
  <2>2. ASSUME s.guard # None
        PROVE  Good(Guarded(in, s.guard)) /\ Guarded(in, s.guard).session = LoginRole
    <3>1. s.guard \in Page
      BY <1>1, <2>2 DEF State
    <3> QED
      BY <1>1, <1>3, <1>4, <3>1, GuardedIsGood DEF Good
  <2> QED
    BY <1>3, <2>1, <2>2
<1> HIDE DEF next
<1>7. /\ tab' \in [Tab -> State] /\ tab'[t] = next
      /\ \A u \in Tab : u # t => tab'[u] = tab[u]
  BY <1>5, <1>6 DEF SessionInv, Good, InStep
<1>8. \A u \in Tab : TokensOf(u)'
  BY <1>5, <1>6, <1>7, TabAssumption DEF TokensOf
<1>9. \A u \in Tab : Good(tab'[u])
  BY <1>5, <1>6, <1>7 DEF SessionInv
<1> QED
  BY <1>5, <1>7, <1>8, <1>9, LoginAssumption DEF SessionInv

\* A login that fails; a guard that waited for it is redirected.
LEMMA FailureStep ==
  ASSUME SessionInv, NEW t \in Tab, LoginFails(t)
  PROVE  SessionInv'
<1> DEFINE s == tab[t]
           quiet == Settled(s)
           next == IF quiet.guard = None THEN quiet ELSE Redirected(quiet)
<1>1. /\ Good(s) /\ s \in State /\ InStep(s)
      /\ s.inFlight = 1 /\ s.up /\ s.session = None
  BY DEF SessionInv, LoginFails, Good, InStep, State
<1>2. /\ InStep(quiet) /\ quiet.inFlight = 0 /\ quiet.up /\ quiet.page = s.page
      /\ quiet.session = None /\ quiet.loggedOut = s.loggedOut /\ quiet \in State
      /\ Ranked(quiet)
  <2>1. /\ InStep(quiet) /\ quiet.inFlight = 0 /\ quiet.up /\ quiet.page = s.page
        /\ quiet.session = s.session /\ quiet.loggedOut = s.loggedOut
    BY <1>1, SettledIsQuiet
  <2> HIDE DEF quiet
  <2> QED
    BY <1>1, <2>1 DEF InStep, Good, Ranked
<1>3. Becomes(t, next) /\ UNCHANGED <<storage, changed>>
  BY DEF LoginFails
<1>4. Good(next) /\ next.session = None
  <2> HIDE DEF quiet
  <2>1. CASE quiet.guard = None
    BY <1>1, <1>2, <2>1 DEF Good
  <2>2. CASE quiet.guard # None /\ quiet.page = "units"
    <3> DEFINE dropped == [quiet EXCEPT !.guard = None]
    <3>1. /\ dropped \in State /\ dropped.guard = None
          /\ dropped.loading = quiet.loading
          /\ dropped.authentication = quiet.authentication
          /\ dropped.inFlight = quiet.inFlight /\ dropped.up = quiet.up
          /\ dropped.session = quiet.session /\ dropped.page = quiet.page
          /\ dropped.loggedOut = quiet.loggedOut
      BY <1>2 DEF State
    <3>2. next = dropped
      BY <2>2 DEF Redirected
    <3>3. Good(dropped)
      BY <1>1, <1>2, <3>1 DEF Good, InStep, Ranked
    <3> QED
      BY <1>2, <3>1, <3>2, <3>3
  <2>3. CASE quiet.guard # None /\ quiet.page # "units"
    <3> DEFINE back == [quiet EXCEPT !.guard = "units"]
    <3>1. /\ back \in State
          /\ back.loading = quiet.loading /\ back.authentication = quiet.authentication
          /\ back.inFlight = quiet.inFlight /\ back.up = quiet.up
          /\ back.session = quiet.session /\ back.page = quiet.page
          /\ back.loggedOut = quiet.loggedOut
      BY <1>2 DEF State, Page
    <3>2. next = Authenticate(back)
      BY <2>3 DEF Redirected
    <3>3. InStep(back)
      BY <1>2, <3>1 DEF InStep
    <3>4. /\ InStep(Authenticate(back)) /\ Authenticate(back).inFlight = 1
          /\ Authenticate(back).up = back.up
          /\ Authenticate(back).session = back.session
          /\ Authenticate(back).page = back.page
          /\ Authenticate(back).loggedOut = back.loggedOut
      BY <3>3, AuthenticateAsksOnce
    <3>5. Good(Authenticate(back))
      BY <1>1, <1>2, <3>1, <3>4 DEF Good, Ranked
    <3> QED
      BY <1>2, <3>1, <3>2, <3>4, <3>5
  <2> QED
    BY <2>1, <2>2, <2>3
<1> HIDE DEF next
<1> QED
  BY <1>3, <1>4, QuietStep

\* Every step keeps the invariant.
LEMMA SessionStep == SessionInv /\ [Next]_vars => SessionInv'
<1> SUFFICES ASSUME SessionInv, [Next]_vars PROVE SessionInv'
  OBVIOUS
<1>1. CASE UNCHANGED vars
  BY <1>1 DEF vars, SessionInv, TokensOf
<1>2. ASSUME NEW t \in Tab, NEW page \in Page, Start(t, page) \/ Navigate(t, page)
      PROVE  SessionInv'
  BY <1>2, StartStep, NavigateStep
<1>3. ASSUME NEW t \in Tab, Close(t) PROVE SessionInv'
  <2>1. Good(Closed) /\ Closed.session = None
    BY ClosedIsGood DEF Closed
  <2> QED
    BY <1>3, <2>1, QuietStep DEF Close
<1>4. ASSUME NEW t \in Tab, logout(t) \/ LoginSucceeds(t) \/ LoginFails(t)
      PROVE  SessionInv'
  BY <1>4, LogoutStep, SuccessStep, FailureStep
<1> QED
  BY <1>1, <1>2, <1>3, <1>4 DEF Next

\* The invariant holds in every state.
LEMMA SessionInvHolds == Spec => []SessionInv
<1>1. Init => SessionInv
  <2> SUFFICES ASSUME Init PROVE SessionInv
    OBVIOUS
  <2>1. Good(Closed) /\ Closed \in State /\ Closed.session = None
    BY ClosedIsGood DEF Init, Good, InStep, Closed
  <2> QED
    BY <2>1 DEF Init, SessionInv, TokensOf
<1> QED
  BY <1>1, SessionStep, PTL DEF Spec

-----------------------------------------------------------------------------
(* The theorems.                                                           *)

\* No tab ever has two logins on their way, and the rest of the state has its shape.
THEOREM SessionTypeCorrect == Spec => []TypeOK
<1>1. SessionInv => TypeOK
  BY DEF SessionInv, TypeOK
<1> QED
  BY <1>1, SessionInvHolds, PTL

\* The overlay is there exactly while a login is on its way.
THEOREM OverlayFollowsLogin == Spec => []OverlayWhileLoggingIn
<1>1. SessionInv => OverlayWhileLoggingIn
  BY DEF SessionInv, OverlayWhileLoggingIn, Good, InStep, State
<1> QED
  BY <1>1, SessionInvHolds, PTL

\* logout never joins a login that was under way before it.
THEOREM LogoutNeverJoins == Spec => LogoutAsksAgain
<1>1. SessionInv /\ [Next]_vars =>
        [\A t \in Tab : logout(t) => tab[t].inFlight = 0 /\ tab'[t].inFlight = 1]_vars
  BY LogoutStep
<1> QED
  BY <1>1, SessionInvHolds, PTL DEF Spec, LogoutAsksAgain

\* A tab that shows a session other than the stored one has it changed by another tab.
THEOREM TokensChangedByOthers == Spec => []TokenChangedByAnotherTab
<1>1. SessionInv => TokenChangedByAnotherTab
  BY DEF SessionInv, TokenChangedByAnotherTab, TokensOf
<1> QED
  BY <1>1, SessionInvHolds, PTL

\* A page is shown to a session that has the rank for it, until a logout on that page.
THEOREM PagesGuarded == Spec => []PageNeedsRank
<1>1. SessionInv => PageNeedsRank
  BY DEF SessionInv, PageNeedsRank, Good, Ranked
<1> QED
  BY <1>1, SessionInvHolds, PTL
=============================================================================
